-------------------------------- MODULE Psync --------------------------------
(***************************************************************************)
(* Master/replica replication (replication.c): the replication IDs and     *)
(* offsets of PSYNC, the backlog, full and partial resynchronisation,      *)
(* chained replicas, promotion and demotion (REPLICAOF), the cached        *)
(* master, the IDs saved in the RDB file, broken links and restarts.       *)
(*                                                                         *)
(* srv[s] holds the replication fields of struct redisServer:              *)
(*   host    masterhost (None for a master)   state  repl_state            *)
(*   id, id2, second   replid, replid2, second_replid_offset               *)
(*   off     master_repl_offset               bl     repl_backlog or None  *)
(*   seldb   slaveseldb, the db last SELECTed in the stream                *)
(*   mc, cm  the client server.master, server.cached_master: the stream's  *)
(*           id, the offset applied, the db selected; or None              *)
(*   data    the dataset, as the sequence of <<db, write>> it results from *)
(* conn[s] is the one connection of s to its master: the master it goes    *)
(* to, the client's replstate there, the PSYNC request, and the messages   *)
(* the master has written and s has not read.                              *)
(***************************************************************************)
EXTENDS Backlog

CONSTANTS N,            \* servers 1 .. N; the others are configured as replicas of 1
          None,         \* NULL
          Dbs,          \* database numbers
          Size,         \* repl_backlog_size
          Moves,        \* the REPLICAOF commands given: <<s, h>>, <<s, None>> for NO ONE
          MaxWrites, MaxPings, MaxMoves, MaxFaults, MaxRestarts  \* bounds

VARIABLES srv, conn,
          rdb,      \* the RDB file of each server, or None
          nextid,   \* the next random replication ID
          used      \* how much of each bound is used up

vars == <<srv, conn, rdb, nextid, used>>

Servers == 1 .. N
NoConn == [st |-> "none"]
NoId == 0         \* a cleared replid2, the string "000...0"
Unknown == -1     \* the ID "?" of a replica without cached master

\* What travels in the replication stream, and the rest a master writes.
Select(d) == [t |-> "select", db |-> d]
Write(v) == [t |-> "write", val |-> v]
Ping == [t |-> "ping"]
Continue(i) == [t |-> "continue", id |-> i]
FullResync(i, o) == [t |-> "full", id |-> i, off |-> o]
Bulk(r) == [t |-> "bulk", rdb |-> r]
TryLater == [t |-> "later"]

Spend(what) == used' = [used EXCEPT ![what] = @ + 1]

\* server.slaves of m.  A slave in state "wait" (WAIT_BGSAVE_START) is not fed.
Slaves(c, m) == {s \in Servers : c[s].st \in {"wait", "fed"} /\ c[s].m = m}

\* disconnectSlaves
disconnectSlaves(c, m) ==
    [s \in Servers |-> IF s \in Slaves(c, m) THEN [c[s] EXCEPT !.st = "closed"] ELSE c[s]]

\* The loop that sends bytes to every slave that is not waiting for a BGSAVE.
FeedAll(c, m, bytes) ==
    [s \in Servers |->
        IF c[s].st = "fed" /\ c[s].m = m THEN [c[s] EXCEPT !.out = @ \o bytes] ELSE c[s]]

\* feedReplicationBacklog on the record of a server.
FeedBacklog(r, bytes) ==
    [r EXCEPT !.bl = feedReplicationBacklog(@, r.off, bytes), !.off = @ + Len(bytes)]

-----------------------------------------------------------------------------
(* Replication IDs *)

changeReplicationId(r) == [r EXCEPT !.id = nextid]

clearReplicationId2(r) == [r EXCEPT !.id2 = NoId, !.second = -1]

shiftReplicationId_late(r) ==
    [r EXCEPT !.id2 = r.id, !.second = r.off + 2, !.id = nextid]

shiftReplicationId(r) ==
    [r EXCEPT !.id2 = r.id, !.second = r.off + 1, !.id = nextid]

-----------------------------------------------------------------------------
(* The master client and its cached copy *)

\* replicationCacheMaster: the link is lost, what was read and not applied with it.
replicationCacheMaster(r) == [r EXCEPT !.cm = r.mc, !.mc = None, !.state = "connect"]

replicationCacheMasterUsingMyself(r) ==
    [r EXCEPT !.cm = [id |-> r.id, off |-> r.off, db |-> 0]]

replicationDiscardCachedMaster(r) == [r EXCEPT !.cm = None]

\* cancelReplicationHandshake, and freeClient(server.master) when connected.
DropMasterLink(r) ==
    IF r.mc # None THEN replicationCacheMaster(r) ELSE [r EXCEPT !.state = "connect"]

-----------------------------------------------------------------------------
(* Commands of a master *)

\* replicationFeedSlaves, for a write in db d: nothing without backlog and slaves.
replicationFeedSlaves(s, r, d, item) ==
    LET bytes == (IF r.seldb # d THEN <<Select(d)>> ELSE <<>>) \o <<item>>
    IN  IF r.bl = None
        THEN /\ srv' = [srv EXCEPT ![s] = r]
             /\ UNCHANGED conn
        ELSE /\ srv' = [srv EXCEPT ![s] = FeedBacklog([r EXCEPT !.seldb = d], bytes)]
             /\ conn' = FeedAll(conn, s, bytes)

\* A client's write command on a master.
ClientWrite(s, d) ==
    /\ srv[s].host = None /\ used.writes < MaxWrites
    /\ Spend("writes")
    /\ LET v == used.writes + 1
       IN  replicationFeedSlaves(s, [srv[s] EXCEPT !.data = Append(@, <<d, v>>)], d, Write(v))
    /\ UNCHANGED <<rdb, nextid>>

\* replicationCron pings the slaves, through the stream.
PingSlaves(s) ==
    /\ srv[s].host = None /\ Slaves(conn, s) # {} /\ used.pings < MaxPings
    /\ Spend("pings")
    /\ replicationFeedSlaves(s, srv[s], srv[s].seldb, Ping)
    /\ UNCHANGED <<rdb, nextid>>

\* replicationCron frees the backlog of a master without slaves.
FreeBacklog(s) ==
    /\ srv[s].host = None /\ srv[s].bl # None /\ Slaves(conn, s) = {}
    /\ used.faults < MaxFaults /\ Spend("faults")
    /\ srv' = [srv EXCEPT ![s] = [clearReplicationId2(changeReplicationId(@)) EXCEPT !.bl = None]]
    /\ nextid' = nextid + 1
    /\ UNCHANGED <<conn, rdb>>

-----------------------------------------------------------------------------
(* The master's side of PSYNC *)

\* masterTryPartialResynchronization: the ID must name this history and the
\* offset be in it, and the backlog must still hold what follows.
CanContinue(r, id, offset) ==
    /\ id = r.id \/ (id = r.id2 /\ offset <= r.second)
    /\ r.bl # None /\ InBacklog(r.bl, offset)

\* rdbPopulateSaveInfo, with what rdbSaveRio writes: the dataset and, where the
\* server is part of a chain, its ID, offset and the db of the stream.
RdbOf(r) ==
    LET db == IF r.host = None /\ r.bl # None THEN IF r.seldb = -1 THEN 0 ELSE r.seldb
              ELSE IF r.mc # None THEN r.mc.db
              ELSE IF r.cm # None THEN r.cm.db ELSE None
    IN  [data |-> r.data,
         info |-> IF db = None THEN None ELSE [id |-> r.id, off |-> r.off, db |-> db]]

\* syncCommand on m, for the request of s.
Refuse(m, s) ==
    /\ srv[m].host # None /\ srv[m].state # "connected"
    /\ conn' = [conn EXCEPT ![s].st = "refused", ![s].out = <<TryLater>>]
    /\ UNCHANGED <<srv, nextid>>

AcceptPartial(m, s) ==
    /\ srv[m].host = None \/ srv[m].state = "connected"
    /\ CanContinue(srv[m], conn[s].id, conn[s].off)
    /\ conn' = [conn EXCEPT ![s].st = "fed",
                            ![s].out = <<Continue(srv[m].id)>>
                                \o addReplyReplicationBacklog(srv[m].bl, conn[s].off)]
    /\ UNCHANGED <<srv, nextid>>

\* The first slave of a server without backlog starts a new history.
AcceptFull(m, s) ==
    /\ srv[m].host = None \/ srv[m].state = "connected"
    /\ ~CanContinue(srv[m], conn[s].id, conn[s].off)
    /\ conn' = [conn EXCEPT ![s].st = "wait"]
    /\ IF Slaves(conn, m) = {} /\ srv[m].bl = None
       THEN /\ srv' = [srv EXCEPT ![m] =
                  [clearReplicationId2(changeReplicationId(@)) EXCEPT
                      !.bl = createReplicationBacklog(Size, srv[m].off)]]
            /\ nextid' = nextid + 1
       ELSE UNCHANGED <<srv, nextid>>

syncCommand(s) ==
    /\ conn[s].st = "request"
    /\ \/ Refuse(conn[s].m, s)
       \/ AcceptPartial(conn[s].m, s)
       \/ AcceptFull(conn[s].m, s)
    /\ UNCHANGED <<rdb, used>>

\* startBgsaveForReplication: fork, and set up every waiting slave for the
\* offset of the fork (replicationSetupSlaveForFullResync).  The file follows
\* the +FULLRESYNC line, what is fed from now on follows the file.
startBgsaveForReplication(m) ==
    /\ \E s \in Slaves(conn, m) : conn[s].st = "wait"
    /\ conn' = [s \in Servers |->
          IF s \in Slaves(conn, m) /\ conn[s].st = "wait"
          THEN [conn[s] EXCEPT !.st = "fed",
                    !.out = <<FullResync(srv[m].id, srv[m].off), Bulk(RdbOf(srv[m]))>>]
          ELSE conn[s]]
    /\ srv' = [srv EXCEPT ![m].seldb = -1]
    /\ UNCHANGED <<rdb, nextid, used>>

-----------------------------------------------------------------------------
(* The replica's side *)

\* connectWithMaster and the handshake up to the PSYNC request.
connectWithMaster(s) ==
    /\ srv[s].state = "connect"
    /\ srv' = [srv EXCEPT ![s].state = "handshake"]
    /\ conn' = [conn EXCEPT ![s] =
          [m |-> srv[s].host, st |-> "request", out |-> <<>>,
           id  |-> IF srv[s].cm # None THEN srv[s].cm.id ELSE Unknown,
           off |-> IF srv[s].cm # None THEN srv[s].cm.off + 1 ELSE -1]]
    /\ UNCHANGED <<rdb, nextid, used>>

Reading(s, what) == conn[s].st # "none" /\ conn[s].out # <<>> /\ Head(conn[s].out).t = what

Consumed(s) == [conn EXCEPT ![s].out = Tail(@)]

\* slaveTryPartialResynchronization reads +CONTINUE <id>: a new ID makes the
\* old one the secondary ID, and sub-slaves must learn of it.
ReadContinue(s) ==
    /\ srv[s].state = "handshake" /\ Reading(s, "continue")
    /\ LET id == Head(conn[s].out).id
           r  == srv[s]
           r1 == IF id = r.cm.id THEN r
                 ELSE [r EXCEPT !.id2 = r.cm.id, !.second = r.off + 1, !.id = id, !.cm.id = id]
           r2 == [r1 EXCEPT !.mc = r1.cm, !.cm = None, !.state = "connected",
                     !.bl = IF @ = None THEN createReplicationBacklog(Size, r.off) ELSE @]
       IN  /\ srv' = [srv EXCEPT ![s] = r2]
           /\ conn' = IF id = r.cm.id THEN Consumed(s) ELSE disconnectSlaves(Consumed(s), s)
    /\ UNCHANGED <<rdb, nextid, used>>

\* It reads +FULLRESYNC: the cached master is gone, sub-slaves cannot continue.
ReadFullResync(s) ==
    /\ srv[s].state = "handshake" /\ Reading(s, "full")
    /\ srv' = [srv EXCEPT ![s] = [replicationDiscardCachedMaster(@) EXCEPT
                                     !.state = "transfer", !.bl = None]]
    /\ conn' = disconnectSlaves([Consumed(s) EXCEPT ![s].id = Head(conn[s].out).id,
                                                    ![s].off = Head(conn[s].out).off], s)
    /\ UNCHANGED <<rdb, nextid, used>>

\* PSYNC_TRY_LATER
ReadTryLater(s) ==
    /\ srv[s].state = "handshake" /\ Reading(s, "later")
    /\ srv' = [srv EXCEPT ![s].state = "connect"]
    /\ conn' = [conn EXCEPT ![s] = NoConn]
    /\ UNCHANGED <<rdb, nextid, used>>

\* readSyncBulkPayload has the whole file: it becomes the RDB file, is loaded,
\* and the server takes over the ID and the offset of the master.
readSyncBulkPayload(s) ==
    /\ srv[s].state = "transfer" /\ Reading(s, "bulk")
    /\ LET file == Head(conn[s].out).rdb
       IN  /\ srv' = [srv EXCEPT ![s] = [clearReplicationId2(@) EXCEPT
                  !.data = file.data, !.id = conn[s].id, !.off = conn[s].off,
                  !.mc = [id |-> conn[s].id, off |-> conn[s].off, db |-> file.info.db],
                  !.state = "connected", !.bl = createReplicationBacklog(Size, conn[s].off)]]
           /\ rdb' = [rdb EXCEPT ![s] = file]
    /\ conn' = Consumed(s)
    /\ UNCHANGED <<nextid, used>>

\* A diskless load that fails: the dataset is already emptied.
LoadFails(s) ==
    /\ srv[s].state = "transfer" /\ Reading(s, "bulk")
    /\ used.faults < MaxFaults /\ Spend("faults")
    /\ srv' = [srv EXCEPT ![s].data = <<>>, ![s].state = "connect"]
    /\ conn' = [conn EXCEPT ![s] = NoConn]
    /\ UNCHANGED <<rdb, nextid>>

\* A command of the stream is executed, counted and passed on as it came
\* (commandProcessed, replicationFeedSlavesFromMasterStream).
ApplyStream(s) ==
    /\ srv[s].state = "connected" /\ conn[s].out # <<>>
    /\ LET x == Head(conn[s].out)
           r == [srv[s] EXCEPT !.mc.off = @ + 1,
                    !.mc.db = IF x.t = "select" THEN x.db ELSE @,
                    !.data  = IF x.t = "write" THEN Append(@, <<srv[s].mc.db, x.val>>) ELSE @]
       IN  /\ srv' = [srv EXCEPT ![s] = FeedBacklog(r, <<x>>)]
           /\ conn' = FeedAll(Consumed(s), s, <<x>>)
    /\ UNCHANGED <<rdb, nextid, used>>

\* The end of a closed connection is noticed.
LinkClosed_whenConnected(s) ==
    /\ conn[s].st = "closed" /\ conn[s].out = <<>> /\ srv[s].mc # None
    /\ srv' = [srv EXCEPT ![s] = DropMasterLink(@)]
    /\ conn' = [conn EXCEPT ![s] = NoConn]
    /\ UNCHANGED <<rdb, nextid, used>>

LinkClosed(s) ==
    /\ conn[s].st = "closed" /\ conn[s].out = <<>>
    /\ srv' = [srv EXCEPT ![s] = DropMasterLink(@)]
    /\ conn' = [conn EXCEPT ![s] = NoConn]
    /\ UNCHANGED <<rdb, nextid, used>>

\* A link breaks, or a timeout of replicationCron gives it up, on the side of
\* the replica; what was under way is lost.
LinkBreaks(s) ==
    /\ conn[s].st # "none" /\ used.faults < MaxFaults /\ Spend("faults")
    /\ srv' = [srv EXCEPT ![s] = DropMasterLink(@)]
    /\ conn' = [conn EXCEPT ![s] = NoConn]
    /\ UNCHANGED <<rdb, nextid>>

-----------------------------------------------------------------------------
(* Administration, persistence, crashes *)

\* REPLICAOF h: replicationSetMaster.
replicationSetMaster(s, h) ==
    /\ <<s, h>> \in Moves /\ srv[s].host # h /\ used.moves < MaxMoves /\ Spend("moves")
    /\ LET r  == DropMasterLink(srv[s])
           r1 == IF srv[s].host = None THEN replicationCacheMasterUsingMyself(r) ELSE r
       IN  srv' = [srv EXCEPT ![s] = [r1 EXCEPT !.host = h, !.state = "connect"]]
    /\ conn' = disconnectSlaves([conn EXCEPT ![s] = NoConn], s)
    /\ UNCHANGED <<rdb, nextid>>

\* REPLICAOF NO ONE: replicationUnsetMaster.
replicationUnsetMaster(s) ==
    /\ <<s, None>> \in Moves /\ srv[s].host # None /\ used.moves < MaxMoves /\ Spend("moves")
    /\ srv' = [srv EXCEPT ![s] =
          [shiftReplicationId(replicationDiscardCachedMaster(DropMasterLink(@))) EXCEPT
              !.host = None, !.state = "none", !.seldb = -1]]
    /\ conn' = disconnectSlaves([conn EXCEPT ![s] = NoConn], s)
    /\ nextid' = nextid + 1
    /\ UNCHANGED rdb

\* BGSAVE
SaveRdb(s) ==
    /\ rdb[s] # RdbOf(srv[s]) /\ used.restarts < MaxRestarts
    /\ rdb' = [rdb EXCEPT ![s] = RdbOf(srv[s])]
    /\ UNCHANGED <<srv, conn, nextid, used>>

Fresh(host, id) ==
    [host |-> host, state |-> IF host = None THEN "none" ELSE "connect",
     id |-> id, id2 |-> NoId, second |-> -1, off |-> 0, bl |-> None, seldb |-> -1,
     mc |-> None, cm |-> None, data |-> <<>>]

\* A crash and a restart: loadDataFromDisk restores the ID of a replica.
Restart(s) ==
    /\ used.restarts < MaxRestarts /\ Spend("restarts")
    /\ LET r    == Fresh(srv[s].host, nextid)
           file == rdb[s]
           r1   == [r EXCEPT !.id = file.info.id, !.off = file.info.off, !.cm = file.info]
       IN  srv' = [srv EXCEPT ![s] =
              IF file = None THEN r
              ELSE [IF r.host = None \/ file.info = None THEN r ELSE r1
                    EXCEPT !.data = file.data]]
    /\ conn' = [c \in Servers |->
          IF c = s THEN NoConn
          ELSE IF conn[c].st # "none" /\ conn[c].m = s THEN [conn[c] EXCEPT !.st = "closed"]
          ELSE conn[c]]
    /\ nextid' = nextid + 1
    /\ UNCHANGED rdb

-----------------------------------------------------------------------------
Init ==
    /\ srv = [s \in Servers |-> Fresh(IF s = 1 THEN None ELSE 1, s)]
    /\ conn = [s \in Servers |-> NoConn]
    /\ rdb = [s \in Servers |-> None]
    /\ nextid = N + 1
    /\ used = [w \in {"writes", "pings", "moves", "faults", "restarts"} |-> 0]

Next ==
    \E s \in Servers :
        \/ connectWithMaster(s) \/ syncCommand(s) \/ startBgsaveForReplication(s)
        \/ ReadContinue(s) \/ ReadFullResync(s) \/ ReadTryLater(s)
        \/ readSyncBulkPayload(s) \/ ApplyStream(s) \/ LinkClosed(s)
        \/ \E d \in Dbs : ClientWrite(s, d)
        \/ PingSlaves(s) \/ FreeBacklog(s) \/ LoadFails(s) \/ LinkBreaks(s)
        \/ \E h \in Servers : replicationSetMaster(s, h)
        \/ replicationUnsetMaster(s) \/ SaveRdb(s) \/ Restart(s)

Spec == Init /\ [][Next]_vars

\* The event loop and the cron of every server keep running.
Progress ==
    \E s \in Servers :
        \/ connectWithMaster(s) \/ syncCommand(s) \/ startBgsaveForReplication(s)
        \/ ReadContinue(s) \/ ReadFullResync(s) \/ ReadTryLater(s)
        \/ readSyncBulkPayload(s) \/ ApplyStream(s) \/ LinkClosed(s)

-----------------------------------------------------------------------------
(* Properties *)

States == {"none", "connect", "handshake", "transfer", "connected"}

\* Every field keeps its range, and the states fit together: only a replica
\* has a master, cached or not, never both (the assertion of
\* replicationCacheMaster), and only a connected one has a live one.
TypeOK ==
    /\ \A s \in Servers :
          /\ srv[s].host \in (Servers \ {s}) \cup {None} /\ srv[s].state \in States
          /\ (srv[s].state = "none") <=> (srv[s].host = None)
          /\ (srv[s].state = "connected") <=> (srv[s].mc # None)
          /\ srv[s].mc = None \/ srv[s].cm = None
          /\ conn[s].st \in {"none", "request", "refused", "wait", "fed", "closed"}
          /\ (conn[s].st # "none") <=> (srv[s].state \in {"handshake", "transfer", "connected"})
    /\ nextid \in Nat

\* What a replica's dataset becomes once it has read everything its master
\* has written to it.
Replay(r, msgs) ==
    FoldLeft(LAMBDA a, x :
                CASE x.t = "continue" -> [a EXCEPT !.db = r.cm.db]
                  [] x.t = "bulk"     -> [data |-> x.rdb.data, db |-> x.rdb.info.db]
                  [] x.t = "select"   -> [a EXCEPT !.db = x.db]
                  [] x.t = "write"    -> [a EXCEPT !.data = Append(@, <<a.db, x.val>>)]
                  [] OTHER            -> a,
             [data |-> r.data, db |-> IF r.mc = None THEN 0 ELSE r.mc.db], msgs).data

\* A replica that its master feeds, by a partial or by a full
\* resynchronisation and however the two became master and replica, has the
\* dataset of the master as soon as it has read what is under way, each write
\* in the right db.
FedReplicasAgree ==
    \A s \in Servers : conn[s].st = "fed" => Replay(srv[s], conn[s].out) = srv[conn[s].m].data

\* A replication ID and an offset name one dataset: of two servers with the
\* same ID the one that is behind has a prefix of the other's writes, and a
\* secondary ID is valid up to its offset.
IdAndOffsetNameTheData ==
    \A a, b \in Servers :
        /\ srv[a].bl # None /\ srv[b].bl # None /\ srv[a].off <= srv[b].off
        /\ \/ srv[a].id = srv[b].id
           \/ srv[a].id = srv[b].id2 /\ srv[a].off < srv[b].second
        => IsPrefix(srv[a].data, srv[b].data)

\* A slave waiting for a BGSAVE can be given one: the ID, the offset and the db
\* that must go into the file are known (rdbPopulateSaveInfo is not NULL).
WaitingSlavesCanBeServed ==
    \A m \in Servers :
        (\E s \in Slaves(conn, m) : conn[s].st = "wait") =>
            RdbOf(srv[m]).info # None /\ srv[m].bl # None

\* The server at the top of the chain of s.
TopOf(s) ==
    LET up[k \in 0 .. N] == IF k = 0 THEN s
                            ELSE IF srv[up[k - 1]].host = None THEN up[k - 1]
                            ELSE srv[up[k - 1]].host
    IN  up[N]

\* Every replica whose chain ends in a master has that master's dataset.
LikeTheirMaster ==
    \A s \in Servers : LET t == TopOf(s) IN srv[t].host = None => srv[s].data = srv[t].data
=============================================================================
