---- MODULE MCReplication ----
(****************************************************************************
 * P2P replication, the backlog, PSYNC, full synchronisation and WAIT for
 * TLC. Each behaviour is about one of them, chosen by part; the components
 * share nothing. The properties of P2P are checked as that module states
 * them.
 ****************************************************************************)
EXTENDS P2P, TLC

CONSTANTS Partial, repA, repB, c1, c2,
          Sizes,      \* sizes the backlog is given
          MaxChunk,   \* longest buffer it is fed by one call
          MaxOffset,  \* bound on the length of its stream
          None, NoVar   \* NoVar: the value of the variables a part does not have

VARIABLES part,   \* the component this behaviour is about
          srv, conn, rdb, nextid, used, data, rep, child, pipe, rdbfile, log, cl, waiting,
          getack, master, hist, b, fed
others == <<srv, conn, rdb, nextid, used, data, rep, child, pipe, rdbfile, log, cl, waiting,
            getack, master, hist, b, fed>>
MCvars == <<part, vars, others>>

\* A failover: 2 is promoted, 3 and the old master 1 become replicas of 2.
FailoverMoves == {<<2, None>>, <<3, 2>>, <<1, 2>>}

\* A chain: 3 is moved below 2, and 2 may be promoted.
ChainMoves == {<<3, 2>>, <<2, None>>}

\* Two servers trade places, in any order.
SwapMoves == {<<1, 2>>, <<2, 1>>, <<1, None>>, <<2, None>>}

\* P2P connections opened by the AUTOMAT form of REPLICATE.
Automatic == INSTANCE P2P WITH Automat <- TRUE, Faults <- {"refuse"}

\* In the part of P2P: a third connection is opened in behaviours without failures
\* of connections and, when REPLICATE was refused, with one command.
Mild ==
    Len(conns') = 3 =>
      /\ \A c \in DOMAIN conns' : conns'[c].state \in {"connecting", "connected"}
      /\ Len(issued') <= 1 \/ \A p \in Procs : reply'[p] # "error"

\* A failover among three servers.
Failover == INSTANCE Psync WITH
    N <- 3, Moves <- FailoverMoves, MaxWrites <- 1, MaxPings <- 0, MaxMoves <- 2,
    MaxFaults <- 0, Dbs <- {0}, Size <- 2, MaxRestarts <- 0

\* A chain of replicas; links break.
Chain == INSTANCE Psync WITH
    N <- 3, Moves <- ChainMoves, MaxWrites <- 1, MaxPings <- 1, MaxMoves <- 2,
    MaxFaults <- 1, Dbs <- {0}, Size <- 2, MaxRestarts <- 0

\* Two servers trade places; writes go to two databases.
Databases == INSTANCE Psync WITH
    N <- 2, Moves <- SwapMoves, MaxWrites <- 2, MaxPings <- 0, MaxMoves <- 2,
    MaxFaults <- 1, Dbs <- {0, 1}, Size <- 2, MaxRestarts <- 0

\* A server crashes and restarts from its RDB file.
Crash == INSTANCE Psync WITH
    N <- 2, Moves <- SwapMoves, MaxWrites <- 2, MaxPings <- 0, MaxMoves <- 1,
    MaxFaults <- 0, Dbs <- {0}, Size <- 2, MaxRestarts <- 1

\* Full synchronisation from an RDB file on disk.
Disk == INSTANCE FullSync WITH
    Replicas <- {repA, repB}, Chunks <- 2, MaxStream <- 3, MaxDrops <- 1, MaxForks <- 1,
    Diskless <- FALSE

\* Full synchronisation streamed from the child.
Diskless == INSTANCE FullSync WITH
    Replicas <- {repA, repB}, Chunks <- 2, MaxStream <- 2, MaxDrops <- 1, MaxForks <- 1,
    Diskless <- TRUE

\* Two clients write and then WAIT for their writes; the clients are alike, and c1 is
\* the one that writes first.
Wait == INSTANCE Wait WITH
    Replicas <- {repA, repB}, Clients <- {c1, c2}, Flags <- {<<FALSE, FALSE>>},
    MaxWrites <- 2, MaxWaits <- 2, MaxDrops <- 0, MaxRoleChanges <- 0,
    MaxForeign <- 0

WaitAfterWrites ==
    /\ used.waits = 0 \/ used'.writes = used.writes
    /\ used'.writes = 1 => cl'[c1].last # Wait!NoWrite

\* A replica is lost and comes back while a client waits, with and without a
\* timeout.
WaitDrops == INSTANCE Wait WITH
    Replicas <- {repA, repB}, Clients <- {c1}, Flags <- BOOLEAN \X BOOLEAN,
    MaxWrites <- 1, MaxWaits <- 1, MaxDrops <- 1, MaxRoleChanges <- 0,
    MaxForeign <- 0

\* The server becomes a replica of another master and a master again; clients stay.
WaitRoles == INSTANCE Wait WITH
    Replicas <- {repA, repB}, Clients <- {c1}, Flags <- {<<TRUE, FALSE>>},
    MaxWrites <- 1, MaxWaits <- 1, MaxDrops <- 0, MaxRoleChanges <- 1, MaxForeign <- 2

\* One server's backlog against the whole stream it was fed.
Log == INSTANCE Backlog

BacklogInit == fed = <<>> /\ \E n \in Sizes : b = Log!createReplicationBacklog(n, 0)

BacklogFeed(n) ==
    /\ Len(fed) + n <= MaxOffset
    /\ LET bytes == [k \in 1 .. n |-> [t |-> "byte", n |-> Len(fed) + k]]
       IN  /\ b' = Log!feedReplicationBacklog(b, Len(fed), bytes)
           /\ fed' = fed \o bytes

BacklogResize(n) == b' = Log!resizeReplicationBacklog(b, n, Len(fed)) /\ UNCHANGED fed

BacklogNext == (\E n \in 1 .. MaxChunk : BacklogFeed(n)) \/ (\E n \in Sizes : BacklogResize(n))

\* What is served from an offset are the bytes of the stream from there on, and the
\* last byte fed can always be had again.
ServesTheStream ==
    /\ \A o \in 1 .. MaxOffset + 1 :
          Log!InBacklog(b, o) => Log!addReplyReplicationBacklog(b, o) = SubSeq(fed, o, Len(fed))
    /\ Log!InBacklog(b, Len(fed) + 1) /\ ~Log!InBacklog(b, Len(fed) + 2)

\* The variables that are idle while a component runs.
NoPsync ==
    Init /\ data = NoVar /\ rep = NoVar /\ child = NoVar /\ pipe = NoVar /\ rdbfile = NoVar
    /\ log = NoVar /\ cl = NoVar /\ waiting = NoVar /\ getack = NoVar /\ master = NoVar /\
    hist = NoVar /\ b = NoVar /\ fed = NoVar
KeepPsync == UNCHANGED <<part, vars,
    data, rep, child, pipe, rdbfile, log, cl, waiting, getack, master, hist, b, fed>>
NoFullSync ==
    Init /\ srv = NoVar /\ conn = NoVar /\ rdb = NoVar /\ nextid = NoVar /\ log = NoVar /\
    cl = NoVar /\ waiting = NoVar /\ getack = NoVar /\ master = NoVar /\ hist = NoVar /\
    b = NoVar /\ fed = NoVar
KeepFullSync == UNCHANGED <<part, vars,
    srv, conn, rdb, nextid, log, cl, waiting, getack, master, hist, b, fed>>
NoWait ==
    Init /\ srv = NoVar /\ conn = NoVar /\ rdb = NoVar /\ nextid = NoVar /\ data = NoVar /\
    child = NoVar /\ pipe = NoVar /\ rdbfile = NoVar /\ b = NoVar /\ fed = NoVar
KeepWait == UNCHANGED <<part, vars,
    srv, conn, rdb, nextid, data, child, pipe, rdbfile, b, fed>>
NoBacklog ==
    Init /\ srv = NoVar /\ conn = NoVar /\ rdb = NoVar /\ nextid = NoVar /\ used = NoVar /\
    data = NoVar /\ rep = NoVar /\ child = NoVar /\ pipe = NoVar /\ rdbfile = NoVar /\
    log = NoVar /\ cl = NoVar /\ waiting = NoVar /\ getack = NoVar /\ master = NoVar /\
    hist = NoVar
KeepBacklog == UNCHANGED <<part, vars,
    srv, conn, rdb, nextid, used, data, rep, child, pipe, rdbfile, log, cl, waiting, getack,
    master, hist>>
NoOthers ==
    srv = NoVar /\ conn = NoVar /\ rdb = NoVar /\ nextid = NoVar /\ used = NoVar /\
    data = NoVar /\ rep = NoVar /\ child = NoVar /\ pipe = NoVar /\ rdbfile = NoVar /\
    log = NoVar /\ cl = NoVar /\ waiting = NoVar /\ getack = NoVar /\ master = NoVar /\
    hist = NoVar /\ b = NoVar /\ fed = NoVar

MCInit ==
    \/ part \in {"P2P", "Automatic"} /\ Init /\ NoOthers
    \/ part = "Failover" /\ Failover!Init /\ NoPsync
    \/ part = "Chain" /\ Chain!Init /\ NoPsync
    \/ part = "Databases" /\ Databases!Init /\ NoPsync
    \/ part = "Crash" /\ Crash!Init /\ NoPsync
    \/ part = "Disk" /\ Disk!Init /\ NoFullSync
    \/ part = "Diskless" /\ Diskless!Init /\ NoFullSync
    \/ part = "Wait" /\ Wait!Init /\ NoWait
    \/ part = "WaitDrops" /\ WaitDrops!Init /\ NoWait
    \/ part = "WaitRoles" /\ WaitRoles!Init /\ NoWait
    \/ part = "Backlog" /\ BacklogInit /\ NoBacklog

MCNext ==
    \/ part = "P2P" /\ Next /\ Mild /\ UNCHANGED <<part, others>>
    \/ part = "Automatic" /\ Automatic!Next /\ Mild /\ UNCHANGED <<part, others>>
    \/ part = "Backlog" /\ BacklogNext /\ KeepBacklog
    \/ part = "Failover" /\ Failover!Next /\ KeepPsync
    \/ part = "Chain" /\ Chain!Next /\ KeepPsync
    \/ part = "Databases" /\ Databases!Next /\ KeepPsync
    \/ part = "Crash" /\ Crash!Next /\ KeepPsync
    \/ part = "Disk" /\ Disk!Next /\ KeepFullSync
    \/ part = "Diskless" /\ Diskless!Next /\ KeepFullSync
    \/ part = "Wait" /\ Wait!Next /\ WaitAfterWrites /\ KeepWait
    \/ part = "WaitDrops" /\ WaitDrops!Next /\ KeepWait
    \/ part = "WaitRoles" /\ WaitRoles!Next /\ KeepWait

MCSpec == MCInit /\ [][MCNext]_MCvars

\* Every offset a partial resynchronisation may ask for is answered with
\* exactly the bytes of the stream from there on, wherever the circular buffer
\* has wrapped. A replica that its master feeds has the dataset of the master
\* as soon as it has read what is under way, by a partial or a full
\* resynchronisation and however the two became master and replica; a
\* replication ID and an offset name one dataset, a secondary ID up to its
\* offset; a slave waiting for a BGSAVE can be given one.
FedReplicasAgree ==
    /\ part = "Failover" => Failover!TypeOK /\ Failover!FedReplicasAgree /\ Failover!IdAndOffsetNameTheData
    /\ part = "Chain" => Chain!FedReplicasAgree /\ Chain!WaitingSlavesCanBeServed
    /\ part = "Databases" => Databases!FedReplicasAgree
    /\ part = "Crash" => Crash!FedReplicasAgree /\ Crash!IdAndOffsetNameTheData
    /\ part = "Backlog" => ServesTheStream

\* What a replica is given, followed by what is kept in its buffer, is the
\* dataset of the master: no write made during the BGSAVE is lost or applied
\* twice. The command stream starts only for a replica that has the whole RDB,
\* and a replica that cannot find the end of a streamed RDB is never streamed
\* to.
NoWriteLost ==
    /\ part = "Disk" => Disk!NoWriteLost /\ Disk!OnlineHasWholeFile
    /\ part = "Diskless" => Diskless!TypeOK /\ Diskless!NoWriteLost /\ Diskless!OnlineHasWholeFile /\ Diskless!StreamedOnlyIfCapable

\* A replica is never believed to have processed more than it has, also when
\* the server was a replica itself in between.
AckedIsProcessed ==
    /\ part = "Wait" => Wait!AckedIsProcessed
    /\ part = "WaitDrops" => WaitDrops!AckedIsProcessed
    /\ part = "WaitRoles" => WaitRoles!AckedIsProcessed

\* The number WAIT answers is never more than the replicas that really hold the
\* last write of the client at that moment. The exception, HistoryOver, is a
\* client whose last write was made before the server was a replica of another
\* master: WAIT compares its offset with the new stream, so the answer only bounds
\* the replicas that have as much of that one, and the write may be gone.
WaitCountsRealCopies ==
    [][/\ (part = "Wait" => Wait!WaitCountsRealCopiesStep)
       /\ (part = "WaitDrops" => WaitDrops!WaitCountsRealCopiesStep)
       /\ (part = "WaitRoles" => WaitRoles!WaitCountsRealCopiesStep)]_MCvars
====
