---- MODULE MCLiveness ----
(****************************************************************************
 * What must eventually happen, for TLC. Each behaviour is about one
 * component, chosen by part; the components share nothing.
 ****************************************************************************)
EXTENDS Integers, Sequences, FiniteSets, TLC

CONSTANTS None, Uninit, Partial, repA, repB, c1, c2, ka, NoVar   \* NoVar: the value of the variables a part does not have

VARIABLES part,   \* the component this behaviour is about
          rwfze, zset, net, seen, rze, done, oze, rwfle, list, len, cur, rle, ops, reply,
          conns, stream, replicas, freed, executed, issued, srv, conn, rdb, nextid, used,
          data, rep, child, pipe, rdbfile, log, cl, waiting, getack, master, hist, db,
          mirror, blocking, ready, serving, pending, unblocked, table, now, taken, next
vars == <<part,
          rwfze, zset, net, seen, rze, done, oze, rwfle, list, len, cur, rle, ops, reply,
          conns, stream, replicas, freed, executed, issued, srv, conn, rdb, nextid, used,
          data, rep, child, pipe, rdbfile, log, cl, waiting, getack, master, hist, db,
          mirror, blocking, ready, serving, pending, unblocked, table, now, taken, next>>

\* 2 is promoted, and the old master 1 becomes a replica of 2.
FailoverMoves == {<<2, None>>, <<1, 2>>}

Blpop == [bt |-> "list", keys |-> <<ka>>, where |-> "head", target |-> None]
PushSetDel == {<<[op |-> o, k |-> ka]>> : o \in {"rpush", "zadd", "set", "del"}}

\* The RWF queue, three replicas, two elements.
RwfRpq == INSTANCE RwfRpq WITH
    N <- 3, Elements <- {1, 2}, AddValues <- {1}, IncValues <- {10}, MaxOps <- 2

\* The Remove-Win queue; an increment may overtake its add.
RwRpq == INSTANCE RwRpq WITH
    N <- 3, Elements <- {1}, AddValues <- {1}, IncValues <- {10}, MaxOps <- 2

\* The Add-Win queue, two replicas.
AddWin == INSTANCE AddWinRpq WITH
    N <- 2, Elements <- {1, 2}, AddValues <- {1, 2}, IncValues <- {10, -10},
    Garbage <- {0, 5}, MaxOps <- 3

\* The Add-Win queue, three replicas: an increment may overtake its add.
AddWin3 == INSTANCE AddWinRpq WITH
    N <- 3, Elements <- {1}, AddValues <- {1}, IncValues <- {10},
    Garbage <- {0, 5}, MaxOps <- 3

\* The RWF list; the property is a bit.
RwfList == INSTANCE RwfList WITH
    N <- 3, Elements <- {1}, NormalTypes <- {}, BitmapTypes <- {"bold"}, Values <- {1},
    BASE <- 4, RDM_STEP <- 2, Rands <- {0}, MaxOps <- 3

\* The Remove-Win list; the property may end up different.
RwList == INSTANCE RwList WITH
    N <- 3, Elements <- {1}, Types <- {"font"}, Values <- {0}, BASE <- 4, RDM_STEP <- 2,
    Rands <- {0}, MaxOps <- 3

\* P2P replication set up by the script.
P2P == INSTANCE P2P WITH
    N <- 3, Automat <- FALSE, Faults <- {}, MaxConns <- 3, MaxCmds <- 1

\* P2P replication set up by the AUTOMAT form of REPLICATE.
Automatic == INSTANCE P2P WITH
    N <- 3, Automat <- TRUE, Faults <- {}, MaxConns <- 3, MaxCmds <- 1

\* Two servers trade places; a link breaks.
Psync == INSTANCE Psync WITH
    N <- 2, Dbs <- {0}, Size <- 2, Moves <- FailoverMoves, MaxWrites <- 1,
    MaxPings <- 0, MaxMoves <- 2, MaxFaults <- 1, MaxRestarts <- 0

\* Full synchronisation.
FullSync == INSTANCE FullSync WITH
    Replicas <- {repA, repB}, Diskless <- TRUE, Chunks <- 2, MaxStream <- 0,
    MaxDrops <- 1, MaxForks <- 1

\* WAIT; a replica is lost and the master becomes a replica.
Wait == INSTANCE Wait WITH
    Replicas <- {repA}, Clients <- {c1}, Flags <- BOOLEAN \X {FALSE}, MaxWrites <- 2,
    MaxWaits <- 1, MaxDrops <- 1, MaxRoleChanges <- 1, MaxForeign <- 1

\* Blocking commands on one key.
Blocked == INSTANCE Blocked WITH
    Keys <- {ka}, Clients <- {c1, c2}, Blocks <- {Blpop}, Commands <- PushSetDel,
    MaxElems <- 2, MaxTime <- 3, MaxBlocks <- 2, MaxPending <- 1, MaxFree <- 1

\* The variables that are idle while a component runs.
NoRwfRpq ==
    rze = NoVar /\ done = NoVar /\ oze = NoVar /\ rwfle = NoVar /\ list = NoVar /\
    len = NoVar /\ cur = NoVar /\ rle = NoVar /\ ops = NoVar /\ reply = NoVar /\
    conns = NoVar /\ stream = NoVar /\ replicas = NoVar /\ freed = NoVar /\ executed = NoVar
    /\ issued = NoVar /\ srv = NoVar /\ conn = NoVar /\ rdb = NoVar /\ nextid = NoVar /\
    used = NoVar /\ data = NoVar /\ rep = NoVar /\ child = NoVar /\ pipe = NoVar /\
    rdbfile = NoVar /\ log = NoVar /\ cl = NoVar /\ waiting = NoVar /\ getack = NoVar /\
    master = NoVar /\ hist = NoVar /\ db = NoVar /\ mirror = NoVar /\ blocking = NoVar /\
    ready = NoVar /\ serving = NoVar /\ pending = NoVar /\ unblocked = NoVar /\
    table = NoVar /\ now = NoVar /\ taken = NoVar /\ next = NoVar
KeepRwfRpq == UNCHANGED <<part,
    rze, done, oze, rwfle, list, len, cur, rle, ops, reply, conns, stream, replicas, freed,
    executed, issued, srv, conn, rdb, nextid, used, data, rep, child, pipe, rdbfile, log,
    cl, waiting, getack, master, hist, db, mirror, blocking, ready, serving, pending,
    unblocked, table, now, taken, next>>
NoRwRpq ==
    rwfze = NoVar /\ seen = NoVar /\ oze = NoVar /\ rwfle = NoVar /\ list = NoVar /\
    len = NoVar /\ cur = NoVar /\ rle = NoVar /\ ops = NoVar /\ reply = NoVar /\
    conns = NoVar /\ stream = NoVar /\ replicas = NoVar /\ freed = NoVar /\ executed = NoVar
    /\ issued = NoVar /\ srv = NoVar /\ conn = NoVar /\ rdb = NoVar /\ nextid = NoVar /\
    used = NoVar /\ data = NoVar /\ rep = NoVar /\ child = NoVar /\ pipe = NoVar /\
    rdbfile = NoVar /\ log = NoVar /\ cl = NoVar /\ waiting = NoVar /\ getack = NoVar /\
    master = NoVar /\ hist = NoVar /\ db = NoVar /\ mirror = NoVar /\ blocking = NoVar /\
    ready = NoVar /\ serving = NoVar /\ pending = NoVar /\ unblocked = NoVar /\
    table = NoVar /\ now = NoVar /\ taken = NoVar /\ next = NoVar
KeepRwRpq == UNCHANGED <<part,
    rwfze, seen, oze, rwfle, list, len, cur, rle, ops, reply, conns, stream, replicas,
    freed, executed, issued, srv, conn, rdb, nextid, used, data, rep, child, pipe, rdbfile,
    log, cl, waiting, getack, master, hist, db, mirror, blocking, ready, serving, pending,
    unblocked, table, now, taken, next>>
NoAddWinRpq ==
    rwfze = NoVar /\ rze = NoVar /\ done = NoVar /\ rwfle = NoVar /\ list = NoVar /\
    len = NoVar /\ cur = NoVar /\ rle = NoVar /\ ops = NoVar /\ reply = NoVar /\
    conns = NoVar /\ stream = NoVar /\ replicas = NoVar /\ freed = NoVar /\ executed = NoVar
    /\ issued = NoVar /\ srv = NoVar /\ conn = NoVar /\ rdb = NoVar /\ nextid = NoVar /\
    used = NoVar /\ data = NoVar /\ rep = NoVar /\ child = NoVar /\ pipe = NoVar /\
    rdbfile = NoVar /\ log = NoVar /\ cl = NoVar /\ waiting = NoVar /\ getack = NoVar /\
    master = NoVar /\ hist = NoVar /\ db = NoVar /\ mirror = NoVar /\ blocking = NoVar /\
    ready = NoVar /\ serving = NoVar /\ pending = NoVar /\ unblocked = NoVar /\
    table = NoVar /\ now = NoVar /\ taken = NoVar /\ next = NoVar
KeepAddWinRpq == UNCHANGED <<part,
    rwfze, rze, done, rwfle, list, len, cur, rle, ops, reply, conns, stream, replicas,
    freed, executed, issued, srv, conn, rdb, nextid, used, data, rep, child, pipe, rdbfile,
    log, cl, waiting, getack, master, hist, db, mirror, blocking, ready, serving, pending,
    unblocked, table, now, taken, next>>
NoRwfList ==
    rwfze = NoVar /\ zset = NoVar /\ rze = NoVar /\ done = NoVar /\ oze = NoVar /\
    rle = NoVar /\ ops = NoVar /\ reply = NoVar /\ conns = NoVar /\ stream = NoVar /\
    replicas = NoVar /\ freed = NoVar /\ executed = NoVar /\ issued = NoVar /\ srv = NoVar
    /\ conn = NoVar /\ rdb = NoVar /\ nextid = NoVar /\ used = NoVar /\ data = NoVar /\
    rep = NoVar /\ child = NoVar /\ pipe = NoVar /\ rdbfile = NoVar /\ log = NoVar /\
    cl = NoVar /\ waiting = NoVar /\ getack = NoVar /\ master = NoVar /\ hist = NoVar /\
    db = NoVar /\ mirror = NoVar /\ blocking = NoVar /\ ready = NoVar /\ serving = NoVar /\
    pending = NoVar /\ unblocked = NoVar /\ table = NoVar /\ now = NoVar /\ taken = NoVar /\
    next = NoVar
KeepRwfList == UNCHANGED <<part,
    rwfze, zset, rze, done, oze, rle, ops, reply, conns, stream, replicas, freed, executed,
    issued, srv, conn, rdb, nextid, used, data, rep, child, pipe, rdbfile, log, cl, waiting,
    getack, master, hist, db, mirror, blocking, ready, serving, pending, unblocked, table,
    now, taken, next>>
NoRwList ==
    rwfze = NoVar /\ zset = NoVar /\ seen = NoVar /\ rze = NoVar /\ oze = NoVar /\
    rwfle = NoVar /\ reply = NoVar /\ conns = NoVar /\ stream = NoVar /\ replicas = NoVar /\
    freed = NoVar /\ executed = NoVar /\ issued = NoVar /\ srv = NoVar /\ conn = NoVar /\
    rdb = NoVar /\ nextid = NoVar /\ used = NoVar /\ data = NoVar /\ rep = NoVar /\
    child = NoVar /\ pipe = NoVar /\ rdbfile = NoVar /\ log = NoVar /\ cl = NoVar /\
    waiting = NoVar /\ getack = NoVar /\ master = NoVar /\ hist = NoVar /\ db = NoVar /\
    mirror = NoVar /\ blocking = NoVar /\ ready = NoVar /\ serving = NoVar /\
    pending = NoVar /\ unblocked = NoVar /\ table = NoVar /\ now = NoVar /\ taken = NoVar /\
    next = NoVar
KeepRwList == UNCHANGED <<part,
    rwfze, zset, seen, rze, oze, rwfle, reply, conns, stream, replicas, freed, executed,
    issued, srv, conn, rdb, nextid, used, data, rep, child, pipe, rdbfile, log, cl, waiting,
    getack, master, hist, db, mirror, blocking, ready, serving, pending, unblocked, table,
    now, taken, next>>
NoP2P ==
    rwfze = NoVar /\ zset = NoVar /\ net = NoVar /\ seen = NoVar /\ rze = NoVar /\
    done = NoVar /\ oze = NoVar /\ rwfle = NoVar /\ list = NoVar /\ len = NoVar /\
    cur = NoVar /\ rle = NoVar /\ ops = NoVar /\ srv = NoVar /\ conn = NoVar /\ rdb = NoVar
    /\ nextid = NoVar /\ used = NoVar /\ data = NoVar /\ rep = NoVar /\ child = NoVar /\
    pipe = NoVar /\ rdbfile = NoVar /\ log = NoVar /\ cl = NoVar /\ waiting = NoVar /\
    getack = NoVar /\ master = NoVar /\ hist = NoVar /\ db = NoVar /\ mirror = NoVar /\
    blocking = NoVar /\ ready = NoVar /\ serving = NoVar /\ pending = NoVar /\
    unblocked = NoVar /\ table = NoVar /\ now = NoVar /\ taken = NoVar /\ next = NoVar
KeepP2P == UNCHANGED <<part,
    rwfze, zset, net, seen, rze, done, oze, rwfle, list, len, cur, rle, ops, srv, conn, rdb,
    nextid, used, data, rep, child, pipe, rdbfile, log, cl, waiting, getack, master, hist,
    db, mirror, blocking, ready, serving, pending, unblocked, table, now, taken, next>>
NoPsync ==
    rwfze = NoVar /\ zset = NoVar /\ net = NoVar /\ seen = NoVar /\ rze = NoVar /\
    done = NoVar /\ oze = NoVar /\ rwfle = NoVar /\ list = NoVar /\ len = NoVar /\
    cur = NoVar /\ rle = NoVar /\ ops = NoVar /\ reply = NoVar /\ conns = NoVar /\
    stream = NoVar /\ replicas = NoVar /\ freed = NoVar /\ executed = NoVar /\
    issued = NoVar /\ data = NoVar /\ rep = NoVar /\ child = NoVar /\ pipe = NoVar /\
    rdbfile = NoVar /\ log = NoVar /\ cl = NoVar /\ waiting = NoVar /\ getack = NoVar /\
    master = NoVar /\ hist = NoVar /\ db = NoVar /\ mirror = NoVar /\ blocking = NoVar /\
    ready = NoVar /\ serving = NoVar /\ pending = NoVar /\ unblocked = NoVar /\
    table = NoVar /\ now = NoVar /\ taken = NoVar /\ next = NoVar
KeepPsync == UNCHANGED <<part,
    rwfze, zset, net, seen, rze, done, oze, rwfle, list, len, cur, rle, ops, reply, conns,
    stream, replicas, freed, executed, issued, data, rep, child, pipe, rdbfile, log, cl,
    waiting, getack, master, hist, db, mirror, blocking, ready, serving, pending, unblocked,
    table, now, taken, next>>
NoFullSync ==
    rwfze = NoVar /\ zset = NoVar /\ net = NoVar /\ seen = NoVar /\ rze = NoVar /\
    done = NoVar /\ oze = NoVar /\ rwfle = NoVar /\ list = NoVar /\ len = NoVar /\
    cur = NoVar /\ rle = NoVar /\ ops = NoVar /\ reply = NoVar /\ conns = NoVar /\
    stream = NoVar /\ replicas = NoVar /\ freed = NoVar /\ executed = NoVar /\
    issued = NoVar /\ srv = NoVar /\ conn = NoVar /\ rdb = NoVar /\ nextid = NoVar /\
    log = NoVar /\ cl = NoVar /\ waiting = NoVar /\ getack = NoVar /\ master = NoVar /\
    hist = NoVar /\ db = NoVar /\ mirror = NoVar /\ blocking = NoVar /\ ready = NoVar /\
    serving = NoVar /\ pending = NoVar /\ unblocked = NoVar /\ table = NoVar /\ now = NoVar
    /\ taken = NoVar /\ next = NoVar
KeepFullSync == UNCHANGED <<part,
    rwfze, zset, net, seen, rze, done, oze, rwfle, list, len, cur, rle, ops, reply, conns,
    stream, replicas, freed, executed, issued, srv, conn, rdb, nextid, log, cl, waiting,
    getack, master, hist, db, mirror, blocking, ready, serving, pending, unblocked, table,
    now, taken, next>>
NoWait ==
    rwfze = NoVar /\ zset = NoVar /\ net = NoVar /\ seen = NoVar /\ rze = NoVar /\
    done = NoVar /\ oze = NoVar /\ rwfle = NoVar /\ list = NoVar /\ len = NoVar /\
    cur = NoVar /\ rle = NoVar /\ ops = NoVar /\ reply = NoVar /\ conns = NoVar /\
    stream = NoVar /\ replicas = NoVar /\ freed = NoVar /\ executed = NoVar /\
    issued = NoVar /\ srv = NoVar /\ conn = NoVar /\ rdb = NoVar /\ nextid = NoVar /\
    data = NoVar /\ child = NoVar /\ pipe = NoVar /\ rdbfile = NoVar /\ db = NoVar /\
    mirror = NoVar /\ blocking = NoVar /\ ready = NoVar /\ serving = NoVar /\
    pending = NoVar /\ unblocked = NoVar /\ table = NoVar /\ now = NoVar /\ taken = NoVar /\
    next = NoVar
KeepWait == UNCHANGED <<part,
    rwfze, zset, net, seen, rze, done, oze, rwfle, list, len, cur, rle, ops, reply, conns,
    stream, replicas, freed, executed, issued, srv, conn, rdb, nextid, data, child, pipe,
    rdbfile, db, mirror, blocking, ready, serving, pending, unblocked, table, now, taken,
    next>>
NoBlocked ==
    rwfze = NoVar /\ zset = NoVar /\ net = NoVar /\ seen = NoVar /\ rze = NoVar /\
    done = NoVar /\ oze = NoVar /\ rwfle = NoVar /\ list = NoVar /\ len = NoVar /\
    cur = NoVar /\ rle = NoVar /\ ops = NoVar /\ reply = NoVar /\ conns = NoVar /\
    stream = NoVar /\ replicas = NoVar /\ freed = NoVar /\ executed = NoVar /\
    issued = NoVar /\ srv = NoVar /\ conn = NoVar /\ rdb = NoVar /\ nextid = NoVar /\
    data = NoVar /\ rep = NoVar /\ child = NoVar /\ pipe = NoVar /\ rdbfile = NoVar /\
    log = NoVar /\ waiting = NoVar /\ getack = NoVar /\ master = NoVar /\ hist = NoVar
KeepBlocked == UNCHANGED <<part,
    rwfze, zset, net, seen, rze, done, oze, rwfle, list, len, cur, rle, ops, reply, conns,
    stream, replicas, freed, executed, issued, srv, conn, rdb, nextid, data, rep, child,
    pipe, rdbfile, log, waiting, getack, master, hist>>

Init ==
    \/ part = "RwfRpq" /\ RwfRpq!Init /\ NoRwfRpq
    \/ part = "RwRpq" /\ RwRpq!Init /\ NoRwRpq
    \/ part = "AddWin" /\ AddWin!Init /\ NoAddWinRpq
    \/ part = "AddWin3" /\ AddWin3!Init /\ NoAddWinRpq
    \/ part = "RwfList" /\ RwfList!Init /\ NoRwfList
    \/ part = "RwList" /\ RwList!Init /\ NoRwList
    \/ part = "P2P" /\ P2P!Init /\ NoP2P
    \/ part = "Automatic" /\ Automatic!Init /\ NoP2P
    \/ part = "Psync" /\ Psync!Init /\ NoPsync
    \/ part = "FullSync" /\ FullSync!Init /\ NoFullSync
    \/ part = "Wait" /\ Wait!Init /\ NoWait
    \/ part = "Blocked" /\ Blocked!Init /\ NoBlocked

Next ==
    \/ part = "RwfRpq" /\ RwfRpq!Next /\ KeepRwfRpq
    \/ part = "RwRpq" /\ RwRpq!Next /\ KeepRwRpq
    \/ part = "AddWin" /\ AddWin!Next /\ KeepAddWinRpq
    \/ part = "AddWin3" /\ AddWin3!Next /\ KeepAddWinRpq
    \/ part = "RwfList" /\ RwfList!Next /\ KeepRwfList
    \/ part = "RwList" /\ RwList!Next /\ KeepRwList
    \/ part = "P2P" /\ P2P!Next /\ KeepP2P
    \/ part = "Automatic" /\ Automatic!Next /\ KeepP2P
    \/ part = "Psync" /\ Psync!Next /\ KeepPsync
    \/ part = "FullSync" /\ FullSync!Next /\ KeepFullSync
    \/ part = "Wait" /\ Wait!Next /\ KeepWait
    \/ part = "Blocked" /\ Blocked!Next /\ KeepBlocked

\* The steps that servers, children and the network take by themselves: in the
\* components below a behaviour that always takes one of them when it can goes
\* through finitely many, so fairness of each one separately adds nothing.
Progress ==
    \/ part = "RwfRpq" /\ (\E p, q \in 0 .. 2 : RwfRpq!ReplicaExecute(p, q)) /\ KeepRwfRpq
    \/ part = "RwRpq" /\ (\E p, q \in 0 .. 2 : RwRpq!ReplicaExecute(p, q)) /\ KeepRwRpq
    \/ part = "AddWin" /\ (\E p, q \in 0 .. 1 : AddWin!ReplicaExecute(p, q)) /\ KeepAddWinRpq
    \/ part = "AddWin3" /\ (\E p, q \in 0 .. 2 : AddWin3!ReplicaExecute(p, q)) /\ KeepAddWinRpq
    \/ part = "RwfList" /\ (\E p, q \in 0 .. 2 : RwfList!ReplicaExecute(p, q)) /\ KeepRwfList
    \/ part = "RwList" /\ (\E p, q \in 0 .. 2 : RwList!ReplicaExecute(p, q)) /\ KeepRwList
    \/ part = "P2P" /\ P2P!Progress /\ KeepP2P
    \/ part = "Automatic" /\ Automatic!Progress /\ KeepP2P
    \/ part = "Psync" /\ Psync!Progress /\ KeepPsync
    \/ part = "FullSync" /\ FullSync!Progress /\ KeepFullSync
    \/ part = "Wait" /\ Wait!Progress /\ KeepWait
    \/ part = "Blocked" /\ Blocked!Progress /\ KeepBlocked

\* Connections are read for ever, the event loops and the crons keep turning,
\* children end, time passes; clients and administrators may stop, except that
\* the script that sets up P2P replication runs to its end.
Fairness == WF_vars(Progress)

Spec == Init /\ [][Next]_vars /\ Fairness

\* Once clients stop, the replicas of a conflict-free type come to agree, and go on
\* doing so, on what the type keeps alike in every order of delivery: all answers of
\* RWFZSCORE, RWFZMAX, RZSCORE and RZMAX; those of OZSCORE and OZMAX with two
\* replicas, and with three the scores of the metadata, which the zset need not show;
\* the elements and properties RWFLLIST lists, not what RWFLLEN counts; the elements
\* and the length of RLLIST, not the properties. The three exceptions are the
\* findings of the runs add_win_rpq_three_replicas, rwf_list_three_replicas and
\* rw_list_two_replicas.
EventuallyConsistent ==
    <>[](/\ part = "RwfRpq" => RwfRpq!AnswersAlike
         /\ part = "RwRpq" => RwRpq!AnswersAlike
         /\ part = "AddWin" => AddWin!AnswersAlike
         /\ part = "AddWin3" => AddWin3!MetadataAlike
         /\ part = "RwfList" => RwfList!ListsAlike
         /\ part = "RwList" => RwList!SameElements)

\* Once roles, links and writes are left alone, every replica whose chain ends in
\* a master gets the dataset of that master. After every server has executed its
\* REPLICATE, and as long as no connection breaks, every P2P server lists the peers it
\* named and those that named it in server.replicas (with the script all others, with
\* AUTOMAT and three servers not: 1 and 2 stay strangers), and a command that was
\* broadcast to a peer is executed there.
ReplicasCatchUp ==
    /\ <>[](part = "Psync" => Psync!LikeTheirMaster)
    /\ <>[](part = "P2P" => P2P!AllListed)
    /\ <>[](part = "Automatic" => Automatic!AllListed)
    /\ \A m \in 1 .. 1, p \in 0 .. 2 :
        (part = "P2P" /\ P2P!BroadcastTo(m, p)) ~> (part = "P2P" /\ P2P!Executed(m, p))

\* A replica that waits for a BGSAVE to start, to end or to be sent is served or
\* dropped. Every WAIT is answered: when the time is up, or, without a timeout, when
\* the replicas it asked for have come back and caught up. Commands sent behind a
\* blocking one with a timeout are processed.
NobodyWaitsForever ==
    /\ \A r \in {repA, repB} :
        (part = "FullSync" /\ FullSync!Waits(r)) ~> (part = "FullSync" /\ ~FullSync!Waits(r))
    /\ (part = "Wait" /\ Wait!Blocked(c1)) ~> (part = "Wait" /\ ~Wait!Blocked(c1))
    /\ \A c \in {c1, c2} :
        (part = "Blocked" /\ Blocked!WaitsBehindTimeout(c)) ~> (part = "Blocked" /\ c \notin pending)
====
