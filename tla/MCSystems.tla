---- MODULE MCSystems ----
(****************************************************************************
 * Persistence, Sentinel, the cluster bus and slot migration for TLC. Each
 * behaviour is about one of them, chosen by part; the components share
 * nothing.
 ****************************************************************************)
EXTENDS Integers, Sequences, FiniteSets, TLC

CONSTANTS None, sentA, sentB, sentC, redisA, redisB, redisC, nodeA, nodeB, nodeM, nodeR, nodeQ, keyA, keyB, cliA, NoVar   \* NoVar: the value of the variables a part does not have

VARIABLES part,   \* the component this behaviour is about
          data, srv, file, jobs, child, pipe, cl, acked, phase, disk, other, n, crashes, db,
          dump, aof, now, changes, st, conf, votes, redis, link, cmds, voted, elected,
          spent, up, net, suspected, mig, late, cli, ask, latest
vars == <<part,
          data, srv, file, jobs, child, pipe, cl, acked, phase, disk, other, n, crashes, db,
          dump, aof, now, changes, st, conf, votes, redis, link, cmds, voted, elected,
          spent, up, net, suspected, mig, late, cli, ask, latest>>

Write(dd) == [op |-> "write", d |-> dd]
Writes == {Write(0), Write(1)}
RewriteInExec == {Write(0), [op |-> "exec", d |-> 1, body |-> <<"write", "bgrewriteaof", "write">>]}
TwoWrites == {Write(0), [op |-> "exec", d |-> 0, body |-> <<"write", "write">>]}
Toggles == {Write(0), Write(1), [op |-> "appendonly no"], [op |-> "appendonly yes"], [op |-> "bgrewriteaof"]}

Rank == redisA :> 1 @@ redisB :> 2 @@ redisC :> 3 @@ nodeA :> 1 @@ nodeB :> 2 @@ nodeM :> 3 @@ nodeR :> 4 @@ nodeQ :> 5
BetterRank(x, y) == Rank[x] < Rank[y]
SmallerNode(x, y) == Rank[x] < Rank[y]
OfM(x) == IF x \in {nodeR, nodeQ} THEN nodeM ELSE None
Ep(x) == IF x \in {nodeA, nodeB, nodeM} THEN Rank[x] ELSE 0
Ep0(x) == 0
Ep1(x) == IF x = nodeA THEN 2 ELSE IF x = nodeM THEN 1 ELSE 0

L2 == {<<nodeA, nodeB>>, <<nodeB, nodeA>>}
L3 == {<<nodeA, nodeB, nodeM>>, <<nodeM, nodeB, nodeA>>}

(* What a part is restricted to, so that the case it is about fits the bounds. *)

\* Sentinels that know each other, votes asked for by sentA and sentB only, and no
\* election that ends without a vote; a Sentinel that asks or tries does so before
\* the vote of the other restarts it.
ElectionOnly ==
    /\ \A s, t \in {sentA, sentB, sentC} :
         s # t /\ link'[s][t] # None => (link'[s][t].kind = "ask" => link'[s][t].id # None)
    /\ st'[sentC].fstate = 0 /\ redis' = redis
    /\ spent' = spent \/ (st'[sentA] = st[sentA] /\ st'[sentB] = st[sentB])
    /\ \A s \in {sentA, sentB} :
         st[s].recent => st'[s].recent /\ (st[s].fstate = 2 \/ st'[s].fstate >= st[s].fstate)

\* The same two candidates, whose votes come from sentC alone; sentB tries again when
\* its first failover found no replica.
EpochsOnly ==
    /\ \A s, t \in {sentA, sentB, sentC} :
         s # t /\ link'[s][t] # None =>
            IF link'[s][t].kind = "ask" THEN link'[s][t].id # None ELSE t = sentC
    /\ st'[sentC].fstate = 0 /\ redis' = redis
    /\ \A s \in {sentA, sentB} :
         st[s].recent => /\ st'[s].recent \/ (s = sentB /\ \E e \in elected : e[1] = sentB)
                         /\ st[s].fstate = 2 \/ st'[s].fstate >= st[s].fstate

\* Only sentA restarts; what a Sentinel heard lately is forgotten only with a reason.
FailoverOnly ==
    /\ spent'.restarts = spent.restarts \/ st'[sentA] # st[sentA]
    /\ \A s \in {sentA, sentB} :
         st[s].recent => \/ st'[s].recent \/ st[s].fstate > 0
                         \/ spent # spent' \/ st'[s].cfg > st[s].cfg

\* Only sentA goes into TILT.
OneTilts == ~st'[sentB].tilt

\* Pings about nodeM one at a time, nothing from nodeM; the others look fine.
GossipOnly ==
    /\ \A x \in net' : x.msg.type # "pong"
    /\ \A x \in {nodeA, nodeB, nodeR}, nd \in {nodeA, nodeB, nodeM, nodeR} : st'[nd].node[x].flag = "ok"
    /\ \A x \in net' \ net :
         x.msg.from # nodeM /\ (x.msg.type \in {"ping", "pong"} => net = {} /\ x.to # nodeM)

\* Requests and votes only; the requests replicas get are read at once; nodeA restarts.
VotesOnly ==
    LET all     == {nodeA, nodeB, nodeM, nodeR, nodeQ}
        useless == {x \in net : x.msg.type = "request" /\ x.to \in {nodeR, nodeQ}}
    IN  /\ \A nd, x \in all : st'[nd].node[x].flag = st[nd].node[x].flag /\ (nd # nodeA => up'[nd] = up[nd])
        /\ \A x \in net' \ net : x.msg.type \notin {"ping", "pong"}
        /\ useless # {} => \E x \in useless : net' = net \ {x} /\ st' = st
        /\ useless = {} /\ Cardinality(net') < Cardinality(net) => st' # st

\* No node is suspected; nodeM restarts.
SlotsOnly ==
    /\ \A x \in net' \ net : x.msg.type # "pong"
    /\ \A nd, x \in {nodeA, nodeM, nodeR} : st'[nd].node[x].flag = "ok" /\ (nd # nodeM => up'[nd])

\* The same, nodeM's epoch is bumped, and the two messages are to one node.
OrderOnly ==
    /\ SlotsOnly /\ \A x, y \in net' : x.to = y.to
    /\ spent'.bumps # spent.bumps => st'[nodeM] # st[nodeM]

\* While redis-cli fixes the slot it is not killed, clients write nothing, nodes
\* change nothing by themselves, and no RESTORE is late.
Fixing == cli.status \notin {"idle", "end"} /\ cli.phase # "reshard"
FixAlone ==
    /\ Fixing' => late' = <<>>
    /\ Fixing => spent'.kills = spent.kills /\ latest' = latest /\ (st' = st \/ cli' # cli)

\* The AOF synced before every reply; a rewrite may start inside EXEC.
AofAlways == INSTANCE Aof WITH
    Dbs <- {0, 1}, NoFsyncOnRewrite <- FALSE, Threads <- FALSE,
    Commands <- RewriteInExec, Policy <- "always", Preamble <- TRUE, Disk <- {"ok"},
    OtherChild <- FALSE, MaxCommands <- 2, MaxGen <- 1, MaxCrashes <- 1

\* Replies written by I/O threads, and a machine that dies.
AofThreads == INSTANCE Aof WITH
    Dbs <- {0}, NoFsyncOnRewrite <- FALSE, Threads <- TRUE, Commands <- {Write(0)},
    Policy <- "always", Preamble <- TRUE, Disk <- {"ok"}, OtherChild <- FALSE,
    MaxCommands <- 3, MaxGen <- 0, MaxCrashes <- 1

\* A disk that fills up and is freed while transactions are written.
AofFull == INSTANCE Aof WITH
    Dbs <- {0, 1}, NoFsyncOnRewrite <- FALSE, Threads <- FALSE, Commands <- TwoWrites,
    Policy <- "no", Preamble <- TRUE, Disk <- {"ok", "full"}, OtherChild <- FALSE,
    MaxCommands <- 2, MaxGen <- 0, MaxCrashes <- 0

\* The machine or the process dies and the server starts again.
AofCrash == INSTANCE Aof WITH
    Dbs <- {0, 1}, NoFsyncOnRewrite <- FALSE, Threads <- FALSE, Commands <- Writes,
    Policy <- "no", Preamble <- TRUE, Disk <- {"ok", "full"}, OtherChild <- FALSE,
    MaxCommands <- 3, MaxGen <- 0, MaxCrashes <- 1

\* The AOF synced by the background thread, but not during a rewrite.
AofSec == INSTANCE Aof WITH
    Dbs <- {0, 1}, NoFsyncOnRewrite <- TRUE, Threads <- FALSE, Commands <- Writes,
    Policy <- "everysec", Preamble <- TRUE, Disk <- {"ok"}, OtherChild <- FALSE,
    MaxCommands <- 2, MaxGen <- 1, MaxCrashes <- 0

\* The AOF switched on, off and rewritten while another child may run.
AofToggle == INSTANCE Aof WITH
    Dbs <- {0, 1}, NoFsyncOnRewrite <- FALSE, Threads <- FALSE, Commands <- Toggles,
    Policy <- "no", Preamble <- FALSE, Disk <- {"ok"}, OtherChild <- TRUE,
    MaxCommands <- 3, MaxGen <- 1, MaxCrashes <- 0

\* SAVE, BGSAVE and the save point, with a disk that fails and a crash.
RdbSave == INSTANCE Rdb WITH
    Dbs <- {0}, Keys <- {1}, Values <- {1}, SavePoint <- 2, StopWrites <- TRUE,
    Expires <- {None}, MaxNow <- 0, MaxChanges <- 3, MaxCrashes <- 1

\* Volatile keys saved and loaded again.
RdbLoad == INSTANCE Rdb WITH
    Dbs <- {0}, Keys <- {1, 2}, Values <- {1}, SavePoint <- None, StopWrites <- TRUE,
    Expires <- {None, 0}, MaxNow <- 1, MaxChanges <- 2, MaxCrashes <- 1

\* An election among three Sentinels, two of them candidates; one is restarted.
SentVote == INSTANCE Sentinel WITH
    Better <- BetterRank, FirstMaster <- redisA, MaxEpoch <- 1, FalseAlarm <- FALSE,
    Sentinels <- {sentA, sentB, sentC}, Redis <- {redisA}, Quorum <- 1,
    ParallelSyncs <- 1, Lossy <- FALSE, DownAtStart <- TRUE, MaxForced <- 0,
    MaxRestarts <- 1, MaxRedisCrashes <- 0, MaxTilts <- 0

\* Two elections, so that votes of one epoch are counted in the other.
SentEpochs == INSTANCE Sentinel WITH
    Better <- BetterRank, FirstMaster <- redisA, MaxEpoch <- 2, FalseAlarm <- FALSE,
    Sentinels <- {sentA, sentB, sentC}, Redis <- {redisA}, Quorum <- 1,
    ParallelSyncs <- 1, Lossy <- FALSE, DownAtStart <- TRUE, MaxForced <- 0,
    MaxRestarts <- 0, MaxRedisCrashes <- 0, MaxTilts <- 0

\* A failover; a Sentinel restarts.
SentFail == INSTANCE Sentinel WITH
    Better <- BetterRank, FirstMaster <- redisA, MaxEpoch <- 1, FalseAlarm <- FALSE,
    Sentinels <- {sentA, sentB}, Redis <- {redisA, redisB}, Quorum <- 2,
    ParallelSyncs <- 1, Lossy <- FALSE, DownAtStart <- FALSE, MaxForced <- 0,
    MaxRestarts <- 1, MaxRedisCrashes <- 1, MaxTilts <- 0

\* A forced failover with two replicas, lost messages and TILT.
SentLossy == INSTANCE Sentinel WITH
    Better <- BetterRank, FirstMaster <- redisA, MaxEpoch <- 1, FalseAlarm <- FALSE,
    Sentinels <- {sentA, sentB}, Redis <- {redisA, redisB, redisC}, Quorum <- 2,
    ParallelSyncs <- 2, Lossy <- TRUE, DownAtStart <- FALSE, MaxForced <- 1,
    MaxRestarts <- 0, MaxRedisCrashes <- 0, MaxTilts <- 1

\* A manual failover while clients write.
ClusterManual == INSTANCE Cluster WITH
    MasterOf <- OfM, SmallerId <- SmallerNode, FirstEpoch <- Ep,
    Nodes <- {nodeM, nodeR}, Masters <- {nodeM}, DownAtStart <- {}, FalseAlarm <- FALSE,
    Manual <- {"plain"}, MaxEpoch <- 4, MaxElections <- 1, MaxCrashes <- 0,
    MaxManual <- 1, MaxWrites <- 2, MaxNet <- 2, MaxBumps <- 0

\* Failure reports about a master that may be alive.
ClusterFail == INSTANCE Cluster WITH
    MasterOf <- OfM, SmallerId <- SmallerNode, FirstEpoch <- Ep,
    Nodes <- {nodeA, nodeB, nodeM, nodeR}, Masters <- {nodeA, nodeB, nodeM},
    DownAtStart <- {}, FalseAlarm <- TRUE, Manual <- {"plain"}, MaxEpoch <- 3,
    MaxElections <- 0, MaxCrashes <- 0, MaxManual <- 0, MaxWrites <- 1, MaxNet <- 3,
    MaxBumps <- 0

\* Two replicas of a failed master ask for votes; a voter restarts.
ClusterVote == INSTANCE Cluster WITH
    MasterOf <- OfM, SmallerId <- SmallerNode, FirstEpoch <- Ep0,
    Nodes <- {nodeA, nodeB, nodeM, nodeR, nodeQ}, Masters <- {nodeA, nodeB, nodeM},
    DownAtStart <- {nodeM}, FalseAlarm <- FALSE, Manual <- {"plain"}, MaxEpoch <- 2,
    MaxElections <- 1, MaxCrashes <- 1, MaxManual <- 0, MaxWrites <- 1, MaxNet <- 6,
    MaxBumps <- 0

\* A takeover, an epoch bumped by hand and a restart: who owns the slots.
ClusterSlots == INSTANCE Cluster WITH
    MasterOf <- OfM, SmallerId <- SmallerNode, FirstEpoch <- Ep1,
    Nodes <- {nodeA, nodeM, nodeR}, Masters <- {nodeA, nodeM}, DownAtStart <- {},
    FalseAlarm <- FALSE, Manual <- {"takeover"}, MaxEpoch <- 4, MaxElections <- 0,
    MaxCrashes <- 1, MaxManual <- 1, MaxWrites <- 1, MaxNet <- 1, MaxBumps <- 1

\* The same without the restart; messages overtake each other.
ClusterOrder == INSTANCE Cluster WITH
    MasterOf <- OfM, SmallerId <- SmallerNode, FirstEpoch <- Ep1,
    Nodes <- {nodeA, nodeM, nodeR}, Masters <- {nodeA, nodeM}, DownAtStart <- {},
    FalseAlarm <- FALSE, Manual <- {"takeover"}, MaxEpoch <- 4, MaxElections <- 0,
    MaxCrashes <- 0, MaxManual <- 1, MaxWrites <- 1, MaxNet <- 2, MaxBumps <- 1

\* A slot is moved while clients write and delete keys, keys expire and
\* connections fail.
SlotsDel == INSTANCE SlotMigration WITH
    SmallerId <- SmallerNode, FirstOwner <- nodeA, Keys <- {keyA, keyB},
    Clients <- {cliA}, FirstKeys <- {keyA}, Pipeline <- 2, Replace <- FALSE,
    Nodes <- {nodeA, nodeB}, NodeLists <- {<<nodeB, nodeA>>}, Jobs <- {"reshard"}, MaxByHand <- 0,
    ByHand <- {}, CommandKeys <- 2, Deletes <- TRUE, MaxWrites <- 3, MaxFaults <- 2,
    MaxExpires <- 1, MaxJobs <- 1, MaxKills <- 0, MaxRestarts <- 0, MaxEpoch <- 4

\* A slot is moved; a connection fails, redis-cli is killed and run again, a
\* node restarts.
SlotsFault == INSTANCE SlotMigration WITH
    SmallerId <- SmallerNode, FirstOwner <- nodeA, Keys <- {keyA, keyB},
    Clients <- {cliA}, FirstKeys <- {keyA}, Pipeline <- 2, Replace <- FALSE,
    Nodes <- {nodeA, nodeB}, NodeLists <- L2, Jobs <- {"reshard"}, MaxByHand <- 0,
    ByHand <- {}, CommandKeys <- 1, Deletes <- FALSE, MaxWrites <- 3, MaxFaults <- 1,
    MaxExpires <- 0, MaxJobs <- 2, MaxKills <- 1, MaxRestarts <- 1, MaxEpoch <- 4

\* redis-cli --cluster fix after a reshard that was interrupted.
SlotsFix == INSTANCE SlotMigration WITH
    SmallerId <- SmallerNode, FirstOwner <- nodeA, Keys <- {keyA, keyB},
    Clients <- {cliA}, FirstKeys <- {keyA}, Pipeline <- 2, Replace <- FALSE,
    Nodes <- {nodeA, nodeB}, NodeLists <- L2, Jobs <- {"reshard", "fix"},
    MaxByHand <- 0, ByHand <- {}, CommandKeys <- 1, Deletes <- FALSE, MaxWrites <- 3,
    MaxFaults <- 1, MaxExpires <- 0, MaxJobs <- 2, MaxKills <- 1, MaxRestarts <- 0,
    MaxEpoch <- 5

\* fix of a slot that administrators left open or without an owner.
SlotsOwners == INSTANCE SlotMigration WITH
    SmallerId <- SmallerNode, FirstOwner <- nodeA, Keys <- {keyA, keyB},
    Clients <- {cliA}, FirstKeys <- {keyA}, Pipeline <- 2, Replace <- FALSE,
    Nodes <- {nodeA, nodeB, nodeM}, NodeLists <- L3, Jobs <- {"owners"}, MaxByHand <- 2,
    ByHand <- {"importing", "migrating", "del"}, CommandKeys <- 1, Deletes <- FALSE,
    MaxWrites <- 2, MaxFaults <- 0, MaxExpires <- 0, MaxJobs <- 1, MaxKills <- 0,
    MaxRestarts <- 1, MaxEpoch <- 5

\* The variables that are idle while a component runs.
NoAof ==
    db = NoVar /\ dump = NoVar /\ aof = NoVar /\ now = NoVar /\ changes = NoVar /\
    st = NoVar /\ conf = NoVar /\ votes = NoVar /\ redis = NoVar /\ link = NoVar /\
    cmds = NoVar /\ voted = NoVar /\ elected = NoVar /\ spent = NoVar /\ up = NoVar /\
    net = NoVar /\ suspected = NoVar /\ mig = NoVar /\ late = NoVar /\ cli = NoVar /\
    ask = NoVar /\ latest = NoVar
KeepAof == UNCHANGED <<part,
    db, dump, aof, now, changes, st, conf, votes, redis, link, cmds, voted, elected, spent,
    up, net, suspected, mig, late, cli, ask, latest>>
NoRdb ==
    data = NoVar /\ file = NoVar /\ jobs = NoVar /\ pipe = NoVar /\ cl = NoVar /\
    acked = NoVar /\ phase = NoVar /\ other = NoVar /\ n = NoVar /\ st = NoVar /\
    conf = NoVar /\ votes = NoVar /\ redis = NoVar /\ link = NoVar /\ cmds = NoVar /\
    voted = NoVar /\ elected = NoVar /\ spent = NoVar /\ up = NoVar /\ net = NoVar /\
    suspected = NoVar /\ mig = NoVar /\ late = NoVar /\ cli = NoVar /\ ask = NoVar /\
    latest = NoVar
KeepRdb == UNCHANGED <<part,
    data, file, jobs, pipe, cl, acked, phase, other, n, st, conf, votes, redis, link, cmds,
    voted, elected, spent, up, net, suspected, mig, late, cli, ask, latest>>
NoSentinel ==
    data = NoVar /\ srv = NoVar /\ file = NoVar /\ jobs = NoVar /\ child = NoVar /\
    pipe = NoVar /\ cl = NoVar /\ acked = NoVar /\ phase = NoVar /\ other = NoVar /\
    n = NoVar /\ crashes = NoVar /\ db = NoVar /\ dump = NoVar /\ aof = NoVar /\ now = NoVar
    /\ changes = NoVar /\ up = NoVar /\ net = NoVar /\ suspected = NoVar /\ mig = NoVar /\
    late = NoVar /\ cli = NoVar /\ ask = NoVar /\ latest = NoVar
KeepSentinel == UNCHANGED <<part,
    data, srv, file, jobs, child, pipe, cl, acked, phase, other, n, crashes, db, dump, aof,
    now, changes, up, net, suspected, mig, late, cli, ask, latest>>
NoCluster ==
    data = NoVar /\ srv = NoVar /\ file = NoVar /\ jobs = NoVar /\ child = NoVar /\
    pipe = NoVar /\ cl = NoVar /\ acked = NoVar /\ phase = NoVar /\ other = NoVar /\
    n = NoVar /\ crashes = NoVar /\ db = NoVar /\ dump = NoVar /\ aof = NoVar /\ now = NoVar
    /\ changes = NoVar /\ conf = NoVar /\ votes = NoVar /\ redis = NoVar /\ link = NoVar /\
    cmds = NoVar /\ mig = NoVar /\ late = NoVar /\ cli = NoVar /\ ask = NoVar /\
    latest = NoVar
KeepCluster == UNCHANGED <<part,
    data, srv, file, jobs, child, pipe, cl, acked, phase, other, n, crashes, db, dump, aof,
    now, changes, conf, votes, redis, link, cmds, mig, late, cli, ask, latest>>
NoSlotMigration ==
    data = NoVar /\ srv = NoVar /\ file = NoVar /\ jobs = NoVar /\ child = NoVar /\
    pipe = NoVar /\ cl = NoVar /\ acked = NoVar /\ phase = NoVar /\ disk = NoVar /\
    other = NoVar /\ n = NoVar /\ crashes = NoVar /\ dump = NoVar /\ aof = NoVar /\
    now = NoVar /\ changes = NoVar /\ conf = NoVar /\ votes = NoVar /\ redis = NoVar /\
    link = NoVar /\ cmds = NoVar /\ voted = NoVar /\ elected = NoVar /\ up = NoVar /\
    net = NoVar /\ suspected = NoVar
KeepSlotMigration == UNCHANGED <<part,
    data, srv, file, jobs, child, pipe, cl, acked, phase, disk, other, n, crashes, dump,
    aof, now, changes, conf, votes, redis, link, cmds, voted, elected, up, net, suspected>>

Init ==
    \/ part = "AofAlways" /\ AofAlways!Init /\ NoAof
    \/ part = "AofThreads" /\ AofThreads!Init /\ NoAof
    \/ part = "AofFull" /\ AofFull!Init /\ NoAof
    \/ part = "AofCrash" /\ AofCrash!Init /\ NoAof
    \/ part = "AofSec" /\ AofSec!Init /\ NoAof
    \/ part = "AofToggle" /\ AofToggle!Init /\ NoAof
    \/ part = "RdbSave" /\ RdbSave!Init /\ NoRdb
    \/ part = "RdbLoad" /\ RdbLoad!Init /\ NoRdb
    \/ part = "SentVote" /\ SentVote!Init /\ NoSentinel
    \/ part = "SentEpochs" /\ SentEpochs!Init /\ NoSentinel
    \/ part = "SentFail" /\ SentFail!Init /\ NoSentinel
    \/ part = "SentLossy" /\ SentLossy!Init /\ NoSentinel
    \/ part = "ClusterManual" /\ ClusterManual!Init /\ NoCluster
    \/ part = "ClusterFail" /\ ClusterFail!Init /\ NoCluster
    \/ part = "ClusterVote" /\ ClusterVote!Init /\ NoCluster
    \/ part = "ClusterSlots" /\ ClusterSlots!Init /\ NoCluster
    \/ part = "ClusterOrder" /\ ClusterOrder!Init /\ NoCluster
    \/ part = "SlotsDel" /\ SlotsDel!Init /\ NoSlotMigration
    \/ part = "SlotsFault" /\ SlotsFault!Init /\ NoSlotMigration
    \/ part = "SlotsFix" /\ SlotsFix!Init /\ NoSlotMigration
    \/ part = "SlotsOwners" /\ SlotsOwners!Init /\ NoSlotMigration

Next ==
    \/ part = "AofAlways" /\ AofAlways!Next /\ KeepAof
    \/ part = "AofThreads" /\ AofThreads!Next /\ KeepAof
    \/ part = "AofFull" /\ AofFull!Next /\ cl'.handler = None /\ KeepAof
    \/ part = "AofCrash" /\ AofCrash!Next /\ cl'.handler = None /\ KeepAof
    \/ part = "AofSec" /\ AofSec!Next /\ cl'.handler = None /\ KeepAof
    \/ part = "AofToggle" /\ AofToggle!Next /\ cl'.handler = None /\ KeepAof
    \/ part = "RdbSave" /\ RdbSave!Next /\ KeepRdb
    \/ part = "RdbLoad" /\ RdbLoad!Next /\ disk' = "ok" /\ aof' = aof /\ KeepRdb
    \/ part = "SentVote" /\ SentVote!Next /\ ElectionOnly /\ KeepSentinel
    \/ part = "SentEpochs" /\ SentEpochs!Next /\ EpochsOnly /\ KeepSentinel
    \/ part = "SentFail" /\ SentFail!Next /\ FailoverOnly /\ KeepSentinel
    \/ part = "SentLossy" /\ SentLossy!Next /\ OneTilts /\ KeepSentinel
    \/ part = "ClusterManual" /\ ClusterManual!Next /\ KeepCluster
    \/ part = "ClusterFail" /\ ClusterFail!Next /\ GossipOnly /\ KeepCluster
    \/ part = "ClusterVote" /\ ClusterVote!Next /\ VotesOnly /\ KeepCluster
    \/ part = "ClusterSlots" /\ ClusterSlots!Next /\ SlotsOnly /\ KeepCluster
    \/ part = "ClusterOrder" /\ ClusterOrder!Next /\ OrderOnly /\ KeepCluster
    \/ part = "SlotsDel" /\ SlotsDel!Next /\ KeepSlotMigration
    \/ part = "SlotsFault" /\ SlotsFault!Next /\ KeepSlotMigration
    \/ part = "SlotsFix" /\ SlotsFix!Next /\ FixAlone /\ KeepSlotMigration
    \/ part = "SlotsOwners" /\ SlotsOwners!Next /\ FixAlone /\ KeepSlotMigration

Spec == Init /\ [][Next]_vars

\* What is on disk is what clients were told: the AOF with what is buffered
\* replays to the dataset through rewrites, failed writes and restarts; what is
\* left after a crash is a prefix; a reply under appendfsync always is on disk;
\* what is not synced is known to be; SHUTDOWN loses nothing. The exceptions are
\* named in Aof: a file truncated in the wrong place when it was loaded, a
\* rewrite begun inside EXEC, replies of I/O threads, the end of a rewritten file
\* between rename and fsync. server.dirty counts at least the changes missing in
\* dump.rdb (FLUSHALL counts some twice), and loading it restores what was saved.
LogIsData ==
    /\ part = "AofAlways" => AofAlways!LogIsData /\ AofAlways!CrashIsPrefix /\ AofAlways!AckedIsDurable /\ AofAlways!UnsyncedIsKnown /\ AofAlways!ShutdownKeepsData
    /\ part = "AofThreads" => AofThreads!LogIsData /\ AofThreads!CrashIsPrefix /\ AofThreads!AckedIsDurable /\ AofThreads!ShutdownKeepsData
    /\ part = "AofFull" => AofFull!LogIsData /\ AofFull!CrashIsPrefix /\ AofFull!AckedIsDurable /\ AofFull!UnsyncedIsKnown /\ AofFull!ShutdownKeepsData
    /\ part = "AofCrash" => AofCrash!LogIsData /\ AofCrash!CrashIsPrefix /\ AofCrash!AckedIsDurable /\ AofCrash!UnsyncedIsKnown /\ AofCrash!ShutdownKeepsData
    /\ part = "AofSec" => AofSec!LogIsData /\ AofSec!CrashIsPrefix /\ AofSec!AckedIsDurable /\ AofSec!UnsyncedIsKnown /\ AofSec!ShutdownKeepsData
    /\ part = "AofToggle" => AofToggle!LogIsData /\ AofToggle!CrashIsPrefix /\ AofToggle!AckedIsDurable /\ AofToggle!UnsyncedIsKnown /\ AofToggle!ShutdownKeepsData
    /\ part = "RdbSave" => RdbSave!DirtyCountsChanges /\ RdbSave!LoadRestores
    /\ part = "RdbLoad" => RdbLoad!DirtyCountsChanges /\ RdbLoad!LoadRestores

\* A Sentinel or a cluster master votes once in an epoch, restarts included, and
\* no two are elected in one epoch; but two Sentinels may be for one failover
\* epoch when one of them counts votes of a later current epoch (SentEpochs).
OneLeaderPerEpoch ==
    /\ part = "SentVote" => SentVote!OneVotePerEpoch /\ SentVote!OneLeaderPerEpoch
    /\ part = "SentEpochs" => SentEpochs!OneVotePerEpoch /\ SentEpochs!OneLeaderPerEpoch
    /\ part = "SentLossy" => SentLossy!OneVotePerEpoch
    /\ part = "ClusterVote" => ClusterVote!OneVotePerEpoch /\ ClusterVote!OneMasterPerEpoch
    /\ part = "ClusterManual" => ClusterManual!OneVotePerEpoch /\ ClusterManual!OneMasterPerEpoch

\* A cluster node is marked as failed only if a majority of the masters
\* suspected it (while no replica is promoted), no node believes a replica to own
\* slots, and once nothing is under way all nodes name the same owner of every slot.
ClusterAgrees ==
    /\ part = "ClusterFail" => ClusterFail!FailNeedsMajority
    /\ part = "ClusterSlots" => ClusterSlots!TableIsSound /\ ClusterSlots!QuietMeansAgreed
    /\ part = "ClusterOrder" => ClusterOrder!TableIsSound /\ ClusterOrder!QuietMeansAgreed
    /\ part = "ClusterManual" => ClusterManual!TableIsSound

\* No acknowledged write to a moving slot is lost, no client is served an old
\* version of a key, and after fix one node serves the slot with all its keys.
\* SlotMigration names the exceptions, all of keys whose MIGRATE broke: sent again
\* with another key's value, two copies of which one is deleted or written after
\* an ASK, a RESTORE REPLACE read late.
NothingLost ==
    /\ part = "SlotsDel" => SlotsDel!ServedIsLatest /\ SlotsDel!NothingLost /\ SlotsDel!FixedIsFixed
    /\ part = "SlotsFault" => SlotsFault!ServedIsLatest /\ SlotsFault!NothingLost /\ SlotsFault!FixedIsFixed
    /\ part = "SlotsFix" => SlotsFix!NothingLost /\ SlotsFix!FixedIsFixed
    /\ part = "SlotsOwners" => SlotsOwners!NothingLost /\ SlotsOwners!FixedIsFixed

\* No step goes back: a Sentinel takes over a configuration only with a greater
\* epoch, a slot changes hands only to a greater configuration epoch, a manual
\* failover promotes a replica that has every write (unless its master's own
\* deadline passed first), dump.rdb is never replaced by an older dataset.
MovesForward ==
    [][/\ (part = "SentFail" => SentFail!ConfigMovesForwardStep)
       /\ (part = "SentLossy" => SentLossy!ConfigMovesForwardStep)
       /\ (part = "ClusterSlots" => ClusterSlots!OwnershipMovesForwardStep)
       /\ (part = "ClusterOrder" => ClusterOrder!OwnershipMovesForwardStep)
       /\ (part = "ClusterManual" => ClusterManual!ManualFailoverKeepsWritesStep)
       /\ (part = "RdbSave" => RdbSave!DumpNeverOlderStep)
       /\ (part = "RdbLoad" => RdbLoad!DumpNeverOlderStep)]_vars
====
