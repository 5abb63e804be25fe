---- MODULE MCServer ----
(****************************************************************************
 * One server for TLC: hash tables, blocking commands, the keyspace, the
 * messages pushed to clients and eviction. Each behaviour is about one of
 * them, chosen by part; the components share nothing.
 ****************************************************************************)
EXTENDS Integers, Sequences, FiniteSets, TLC

CONSTANTS None, c1, c2, c3, k1, k2, k3, ka, kb, v1, v2, pa, ch, NoVar   \* NoVar: the value of the variables a part does not have

VARIABLES part,   \* the component this behaviour is about
          d, can, scan, iter, answer, db, mirror, blocking, ready, serving, cl, pending,
          unblocked, table, now, taken, next, used, rdb, link, rmulti, rseen, ops, lost, bs,
          chans, pats, copy, stale, missed, ttl, obj, jobs, pool, cmd, clock, sent, paused
vars == <<part,
          d, can, scan, iter, answer, db, mirror, blocking, ready, serving, cl, pending,
          unblocked, table, now, taken, next, used, rdb, link, rmulti, rseen, ops, lost, bs,
          chans, pats, copy, stale, missed, ttl, obj, jobs, pool, cmd, clock, sent, paused>>

Blpop(ks) == [bt |-> "list", keys |-> ks, where |-> "head", target |-> None]
Brpop(ks) == [Blpop(ks) EXCEPT !.where = "tail"]
Brpoplpush(src, dst) == [bt |-> "list", keys |-> <<src>>, where |-> "tail", target |-> dst]
Bzpopmin(ks) == [bt |-> "zset", keys |-> ks, where |-> "head", target |-> None]
Bzpopmax(ks) == [Bzpopmin(ks) EXCEPT !.where = "tail"]

Cmd(op, k) == <<[op |-> op, k |-> k]>>
RpushTwo == Cmd("rpush", ka) \o Cmd("rpush", ka)

ListBlocks == {Blpop(<<ka>>), Brpop(<<ka, kb>>), Brpoplpush(ka, kb), Brpoplpush(kb, ka), Brpoplpush(ka, ka)}
ListCommands == {Cmd("rpush", ka), RpushTwo, Cmd("rpush", ka) \o Cmd("set", kb), Cmd("rpush", ka) \o Cmd("del", ka)}

MixedBlocks == {Blpop(<<ka>>), Bzpopmin(<<ka>>), Bzpopmax(<<ka>>)}
MixedCommands ==
    {Cmd("rpush", ka), Cmd("zadd", ka), RpushTwo, Cmd("zadd", ka) \o Cmd("zadd", ka), Cmd("set", ka), Cmd("del", ka)}
StoreCommands ==
    {Cmd("rpush", ka), Cmd("zadd", ka), Cmd("set", ka), Cmd("del", ka), Cmd("sortstore", ka), Cmd("geostore", ka),
     Cmd("rpush", ka) \o Cmd("blpop", ka)}

C(op, k, j, v, t, at) == [op |-> op, k |-> k, k2 |-> j, v |-> v, t |-> t, d |-> at]
ReplicaCommands ==
    {C("set", k1, None, v2, 1, 0), C("setnx", k2, None, v1, 2, 0), C("setkeepttl", k1, None, v1, 0, 0),
     C("get", k1, None, None, 0, 0), C("del", k1, None, None, 0, 0), C("expire", k1, None, None, 1, 0),
     C("pexpireat", k1, None, None, 1, 0), C("persist", k1, None, None, 0, 0), C("rename", k1, k2, None, 0, 0),
     C("renamenx", k2, k1, None, 0, 0), C("move", k1, None, None, 0, 1), C("swapdb", None, None, None, 0, 1),
     C("flushall", None, None, None, 0, 0)}
TxnCommands == {C("set", k1, None, v2, 1, 0), C("get", k1, None, None, 0, 0), C("flushdb", None, None, None, 0, 0)}
TxnQueued == {C("set", k1, None, v2, 1, 0), C("renamenx", k1, k2, None, 0, 0)}
WatchCommands ==
    {C("set", k1, None, v1, 0, 0), C("set", k1, None, v2, 1, 0), C("get", k1, None, None, 0, 0),
     C("persist", k1, None, None, 0, 0), C("expire", k1, None, None, 1, 0),
     C("del", k1, None, None, 0, 0), C("rename", k1, k2, None, 0, 0),
     C("rename", k2, k1, None, 0, 0), C("move", k1, None, None, 0, 1), C("swapdb", None, None, None, 0, 1),
     C("flushdb", None, None, None, 0, 0)}
WatchQueued == {C("set", k2, None, v2, 0, 0)}

M(op, k, j, n) == [op |-> op, k |-> k, k2 |-> j, n |-> n]
LazyCommands ==
    {M("set", k1, None, 2), M("set", k2, None, 1), M("set", k2, None, 2), M("rename", k1, k2, 0),
     M("unlink", k1, None, 0), M("flushall", None, None, 1)}
RandomCommands == {M("set", k1, None, 2), M("set", k2, None, 2), M("unlink", k1, None, 0), M("rename", k1, k2, 0)}
TtlCommands ==
    {M("set", k, None, n) : k \in {k1, k2}, n \in {1, 2}} \cup
    {M("expire", k1, None, 1), M("expire", k1, None, 2), M("expire", k2, None, 1), M("del", k1, None, 0), M("get", k1, None, 0),
     M("rename", k1, k2, 0), M("flushall", None, None, 0)}

\* A hash table of three keys, two of them colliding, while it is scanned;
\* without random keys.
DictScan == INSTANCE Dict WITH
    Keys <- {k1, k2, k3}, Hash <- (k1 :> 0 @@ k2 :> 4 @@ k3 :> 3), W <- 3,
    InitialSize <- 2, ForceRatio <- 1, MinFill <- 40, EmptyVisits <- 2, MaxSize <- 8

\* The same table while a safe iterator walks it.
DictIter == INSTANCE Dict WITH
    Keys <- {k1, k2, k3}, Hash <- (k1 :> 0 @@ k2 :> 4 @@ k3 :> 3), W <- 3,
    InitialSize <- 2, ForceRatio <- 1, MinFill <- 40, EmptyVisits <- 2, MaxSize <- 4

\* Two clients blocked on two lists, moving elements between them.
BlockedLists == INSTANCE Blocked WITH
    Keys <- {ka, kb}, Blocks <- ListBlocks, Commands <- ListCommands, MaxElems <- 3,
    MaxTime <- 1, MaxBlocks <- 2, Clients <- {c1, c2}, MaxFree <- 1, MaxPending <- 0

\* Clients blocked on one key that is now a list and then a sorted set.
BlockedMixed == INSTANCE Blocked WITH
    Keys <- {ka}, Blocks <- MixedBlocks, Commands <- MixedCommands, MaxElems <- 2,
    MaxTime <- 2, MaxBlocks <- 3, Clients <- {c1, c2}, MaxFree <- 1, MaxPending <- 0

\* Three clients blocked on one key, for a list and for a sorted set, which is
\* also stored over.
BlockedStore == INSTANCE Blocked WITH
    Keys <- {ka}, Blocks <- {Blpop(<<ka>>), Bzpopmin(<<ka>>)}, Commands <- StoreCommands, MaxElems <- 2,
    MaxTime <- 0, MaxBlocks <- 3, Clients <- {c1, c2, c3}, MaxFree <- 0, MaxPending <- 0

\* Every command of the keyspace on a master with a replica behind a link.
KsReplica == INSTANCE Keyspace WITH
    Dbs <- {0, 1}, Keys <- {k1, k2}, Clients <- {c1}, Commands <- ReplicaCommands,
    Queued <- {}, UseReplica <- TRUE, MaxTime <- 3, MaxOps <- 3, MaxQueue <- 0,
    MaxLink <- 2

\* Transactions over volatile keys, with a replica.
KsTxn == INSTANCE Keyspace WITH
    Dbs <- {0, 1}, Keys <- {k1, k2}, Clients <- {c1}, Commands <- TxnCommands,
    Queued <- TxnQueued, UseReplica <- TRUE, MaxTime <- 3, MaxOps <- 3, MaxQueue <- 2,
    MaxLink <- 2

\* A client that watches keys and another that changes them.
KsWatch == INSTANCE Keyspace WITH
    Dbs <- {0, 1}, Keys <- {k1, k2}, Clients <- {c1, c2}, Commands <- WatchCommands,
    Queued <- WatchQueued, UseReplica <- FALSE, MaxTime <- 3, MaxOps <- 4,
    MaxQueue <- 1, MaxLink <- 4

\* Client side caching with broadcasting.
PushBcast == INSTANCE Push WITH
    Clients <- {c1, c2}, MaxKeys <- 1, MaxRead <- 1, Keys <- {k1}, PrefixSet <- {pa}, Channels <- {},
    Matches <- (pa :> {k1}), Modes <- {"normal", "bcast"}

\* Client side caching with the tracking table at its limit.
PushTable == INSTANCE Push WITH
    Clients <- {c1, c2}, MaxKeys <- 1, MaxRead <- 2, Keys <- {k1, k2, k3, ka}, PrefixSet <- {},
    Channels <- {}, Matches <- <<>>, Modes <- {"normal"}

\* The modes of client side caching, and Pub/Sub.
PushModes == INSTANCE Push WITH
    Clients <- {c1, c2}, MaxKeys <- 1, MaxRead <- 1, Keys <- {k1, k2}, PrefixSet <- {},
    Channels <- {ch}, Matches <- <<>>, Modes <- {"normal", "optin", "optout"}

\* Eviction of the least recently used keys, everything freed lazily.
EvictLazy == INSTANCE Evict WITH
    Keys <- {k1, k2}, Sizes <- {1, 2}, PoolSize <- 3, Samples <- 2, CheckEvery <- 2,
    ClockMax <- 1, MaxTtl <- 3, Objects <- 1 .. 3, Commands <- LazyCommands,
    Policy <- "allkeys-lru", LazyEviction <- TRUE, LazyDel <- TRUE, MaxMemory <- 2,
    SizeT <- 16, MayPause <- FALSE, MaxSent <- 0, MaxJobs <- 2

\* Eviction of the volatile keys that expire first.
EvictTtl == INSTANCE Evict WITH
    Keys <- {k1, k2}, Sizes <- {1, 2}, PoolSize <- 3, Samples <- 2, CheckEvery <- 2,
    ClockMax <- 1, MaxTtl <- 3, Objects <- 1 .. 3, Commands <- TtlCommands,
    Policy <- "volatile-ttl", LazyEviction <- FALSE, LazyDel <- FALSE, MaxMemory <- 2,
    SizeT <- 16, MayPause <- FALSE, MaxSent <- 2, MaxJobs <- 1

\* Eviction of any key, the evicted values freed by the thread.
EvictRandom == INSTANCE Evict WITH
    Keys <- {k1, k2}, Sizes <- {1, 2}, PoolSize <- 3, Samples <- 2, CheckEvery <- 2,
    ClockMax <- 1, MaxTtl <- 3, Objects <- 1 .. 3, Commands <- RandomCommands,
    Policy <- "allkeys-random", LazyEviction <- TRUE, LazyDel <- FALSE, MaxMemory <- 2,
    SizeT <- 16, MayPause <- TRUE, MaxSent <- 1, MaxJobs <- 2

\* No eviction: a write is refused or waits for the thread.
EvictNone == INSTANCE Evict WITH
    Keys <- {k1, k2}, Sizes <- {1, 2}, PoolSize <- 3, Samples <- 2, CheckEvery <- 2,
    ClockMax <- 1, MaxTtl <- 3, Objects <- 1 .. 3, Commands <- RandomCommands,
    Policy <- "noeviction", LazyEviction <- FALSE, LazyDel <- TRUE, MaxMemory <- 2,
    SizeT <- 16, MayPause <- FALSE, MaxSent <- 0, MaxJobs <- 2

\* The variables that are idle while a component runs.
NoDict ==
    db = NoVar /\ mirror = NoVar /\ blocking = NoVar /\ ready = NoVar /\ serving = NoVar /\
    cl = NoVar /\ pending = NoVar /\ unblocked = NoVar /\ table = NoVar /\ now = NoVar /\
    taken = NoVar /\ next = NoVar /\ used = NoVar /\ rdb = NoVar /\ link = NoVar /\
    rmulti = NoVar /\ rseen = NoVar /\ ops = NoVar /\ lost = NoVar /\ bs = NoVar /\
    chans = NoVar /\ pats = NoVar /\ copy = NoVar /\ stale = NoVar /\ missed = NoVar /\
    ttl = NoVar /\ obj = NoVar /\ jobs = NoVar /\ pool = NoVar /\ cmd = NoVar /\
    clock = NoVar /\ sent = NoVar /\ paused = NoVar
KeepDict == UNCHANGED <<part,
    db, mirror, blocking, ready, serving, cl, pending, unblocked, table, now, taken, next,
    used, rdb, link, rmulti, rseen, ops, lost, bs, chans, pats, copy, stale, missed, ttl,
    obj, jobs, pool, cmd, clock, sent, paused>>
NoBlocked ==
    d = NoVar /\ can = NoVar /\ scan = NoVar /\ iter = NoVar /\ answer = NoVar /\
    rdb = NoVar /\ link = NoVar /\ rmulti = NoVar /\ rseen = NoVar /\ ops = NoVar /\
    lost = NoVar /\ bs = NoVar /\ chans = NoVar /\ pats = NoVar /\ copy = NoVar /\
    stale = NoVar /\ missed = NoVar /\ ttl = NoVar /\ obj = NoVar /\ jobs = NoVar /\
    pool = NoVar /\ cmd = NoVar /\ clock = NoVar /\ sent = NoVar /\ paused = NoVar
KeepBlocked == UNCHANGED <<part,
    d, can, scan, iter, answer, rdb, link, rmulti, rseen, ops, lost, bs, chans, pats, copy,
    stale, missed, ttl, obj, jobs, pool, cmd, clock, sent, paused>>
NoKeyspace ==
    d = NoVar /\ can = NoVar /\ scan = NoVar /\ iter = NoVar /\ answer = NoVar /\
    mirror = NoVar /\ blocking = NoVar /\ ready = NoVar /\ serving = NoVar /\
    pending = NoVar /\ unblocked = NoVar /\ table = NoVar /\ taken = NoVar /\ next = NoVar
    /\ used = NoVar /\ bs = NoVar /\ chans = NoVar /\ pats = NoVar /\ copy = NoVar /\
    stale = NoVar /\ missed = NoVar /\ ttl = NoVar /\ obj = NoVar /\ jobs = NoVar /\
    pool = NoVar /\ cmd = NoVar /\ clock = NoVar /\ sent = NoVar /\ paused = NoVar
KeepKeyspace == UNCHANGED <<part,
    d, can, scan, iter, answer, mirror, blocking, ready, serving, pending, unblocked, table,
    taken, next, used, bs, chans, pats, copy, stale, missed, ttl, obj, jobs, pool, cmd,
    clock, sent, paused>>
NoPush ==
    d = NoVar /\ can = NoVar /\ scan = NoVar /\ iter = NoVar /\ answer = NoVar /\ db = NoVar
    /\ mirror = NoVar /\ blocking = NoVar /\ ready = NoVar /\ serving = NoVar /\
    pending = NoVar /\ unblocked = NoVar /\ now = NoVar /\ taken = NoVar /\ next = NoVar /\
    used = NoVar /\ rdb = NoVar /\ link = NoVar /\ rmulti = NoVar /\ rseen = NoVar /\
    ops = NoVar /\ lost = NoVar /\ ttl = NoVar /\ obj = NoVar /\ jobs = NoVar /\
    pool = NoVar /\ cmd = NoVar /\ clock = NoVar /\ sent = NoVar /\ paused = NoVar
KeepPush == UNCHANGED <<part,
    d, can, scan, iter, answer, db, mirror, blocking, ready, serving, pending, unblocked,
    now, taken, next, used, rdb, link, rmulti, rseen, ops, lost, ttl, obj, jobs, pool, cmd,
    clock, sent, paused>>
NoEvict ==
    d = NoVar /\ can = NoVar /\ scan = NoVar /\ iter = NoVar /\ answer = NoVar /\
    mirror = NoVar /\ blocking = NoVar /\ ready = NoVar /\ serving = NoVar /\ cl = NoVar /\
    pending = NoVar /\ unblocked = NoVar /\ table = NoVar /\ now = NoVar /\ taken = NoVar /\
    next = NoVar /\ used = NoVar /\ rdb = NoVar /\ link = NoVar /\ rmulti = NoVar /\
    rseen = NoVar /\ ops = NoVar /\ lost = NoVar /\ bs = NoVar /\ chans = NoVar /\
    pats = NoVar /\ copy = NoVar /\ stale = NoVar /\ missed = NoVar
KeepEvict == UNCHANGED <<part,
    d, can, scan, iter, answer, mirror, blocking, ready, serving, cl, pending, unblocked,
    table, now, taken, next, used, rdb, link, rmulti, rseen, ops, lost, bs, chans, pats,
    copy, stale, missed>>

Init ==
    \/ part = "DictScan" /\ DictScan!Init /\ NoDict
    \/ part = "DictIter" /\ DictIter!Init /\ NoDict
    \/ part = "BlockedLists" /\ BlockedLists!Init /\ NoBlocked
    \/ part = "BlockedMixed" /\ BlockedMixed!Init /\ NoBlocked
    \/ part = "BlockedStore" /\ BlockedStore!Init /\ NoBlocked
    \/ part = "KsReplica" /\ KsReplica!Init /\ NoKeyspace
    \/ part = "KsTxn" /\ KsTxn!Init /\ NoKeyspace
    \/ part = "KsWatch" /\ KsWatch!Init /\ NoKeyspace
    \/ part = "PushBcast" /\ PushBcast!Init /\ cl[c1].resp = 3 /\ NoPush
    \/ part = "PushTable" /\ PushTable!Init /\ cl[c1].resp = 3 /\ cl[c2].resp = 2 /\ NoPush
    \/ part = "PushModes" /\ PushModes!Init /\ cl[c1].resp = 3 /\ cl[c2].resp = 2 /\ NoPush
    \/ part = "EvictLazy" /\ EvictLazy!Init /\ NoEvict
    \/ part = "EvictTtl" /\ EvictTtl!Init /\ NoEvict
    \/ part = "EvictRandom" /\ EvictRandom!Init /\ NoEvict
    \/ part = "EvictNone" /\ EvictNone!Init /\ NoEvict

Next ==
    \/ part = "DictScan" /\ DictScan!Next /\ ~iter'.on /\ answer' \in {"none", "ok", "err"} /\ KeepDict
    \/ part = "DictIter" /\ DictIter!Next /\ ~scan'.on /\ KeepDict
    \/ part = "BlockedLists" /\ BlockedLists!Next /\ KeepBlocked
    \/ part = "BlockedMixed" /\ BlockedMixed!Next /\ KeepBlocked
    \/ part = "BlockedStore" /\ BlockedStore!Next /\ KeepBlocked
    \/ part = "KsReplica" /\ KsReplica!Next /\ cl'[c1].watched = {} /\ cl'[c1].db = 0 /\ KeepKeyspace
    \/ part = "KsTxn" /\ KsTxn!Next /\ cl'[c1].watched = {} /\ cl'[c1].db = 0 /\ (cl'[c1].multi => now' = now) /\ KeepKeyspace
    \/ part = "KsWatch" /\ KsWatch!Next /\ ~cl'[c2].multi /\ cl'[c2].watched = {} /\ KeepKeyspace
    \/ part = "PushBcast" /\ PushBcast!Next /\ KeepPush
    \/ part = "PushTable" /\ PushTable!Next /\ ~cl'[c2].on /\ ~cl'[c1].noloop /\ KeepPush
    \/ part = "PushModes" /\ PushModes!Next /\ ~cl'[c2].on /\ ~cl'[c1].noloop /\ KeepPush
    \/ part = "EvictLazy" /\ EvictLazy!Next /\ KeepEvict
    \/ part = "EvictTtl" /\ EvictTtl!Next /\ KeepEvict
    \/ part = "EvictRandom" /\ EvictRandom!Next /\ KeepEvict
    \/ part = "EvictNone" /\ EvictNone!Next /\ KeepEvict

Spec == Init /\ [][Next]_vars

\* When the cursor of dictScan is back at 0, every key that was there from the
\* start of the iteration to its end has been returned, however the table was
\* resized between the calls; a safe iterator ends having returned every key
\* that was there all along and no key twice that stays in the table. No key is
\* stored twice, and each is in the bucket its hash selects.
IterationsComplete ==
    /\ part = "DictScan" => DictScan!TypeOK /\ DictScan!NoDuplicates /\ DictScan!ScanComplete
    /\ part = "DictIter" => DictIter!TypeOK /\ DictIter!NoDuplicates /\ DictIter!IteratorNoRepeat /\ DictIter!IteratorComplete

\* The table with its two halves, its rehashing steps and its iterators is a
\* set of keys to its callers.
ImplementsKeySet == [][part = "DictIter" => DictIter!ImplementsKeySetStep]_vars

\* The lists of blocked clients, the records of the clients and the timeout
\* table say the same, and between commands nobody waits for a list or sorted
\* set that is there. The exception is a value that SORT STORE or GEORADIUS STORE
\* stored over one of another type (dbOverwrite signals nobody). Every element is
\* in exactly one place: one list, or it was handed to one client or deleted,
\* once; a replica that applies what the serving of blocked clients propagates has
\* the same keys.
BlockedStateAgrees ==
    /\ part = "BlockedMixed" => BlockedMixed!BlockedStateAgrees /\ BlockedMixed!NobodyWaitsForWhatIsThere /\ BlockedMixed!ReplicaAgrees
    /\ part = "BlockedStore" => BlockedStore!BlockedStateAgrees /\ BlockedStore!NobodyWaitsForWhatIsThere
    /\ part = "BlockedLists" => BlockedLists!BlockedStateAgrees /\ BlockedLists!NobodyWaitsForWhatIsThere /\ BlockedLists!ElementsAreConserved /\ BlockedLists!ReplicaAgrees

\* Of two clients waiting for the same key in the same way, the one that
\* blocked first is served first. The exception is a client that was moved to the
\* end of the queue because it waits for the other type than the key held when
\* clients were served.
FirstBlockedFirstServed ==
    [][/\ (part = "BlockedLists" => BlockedLists!FirstBlockedFirstServedStep)
       /\ (part = "BlockedMixed" => BlockedMixed!FirstBlockedFirstServedStep)
       /\ (part = "BlockedStore" => BlockedStore!FirstBlockedFirstServedStep)]_vars

\* After every command it executes the replica holds what the master held when
\* it propagated that command: expiry reaches it as a DEL in the right place, a
\* transaction as a whole or not at all. Once the stream is drained a key is
\* volatile on the replica exactly when it is on the master, and its time there
\* is never earlier.
ReplicaFollowsMaster ==
    /\ part = "KsReplica" => KsReplica!ReplicaFollowsMaster /\ KsReplica!ReplicaNeverExpiresFirst
    /\ part = "KsTxn" => KsTxn!ReplicaFollowsMaster /\ KsTxn!ReplicaNeverExpiresFirst

\* EXEC runs only if no watched key changed, in value or expire time, since
\* WATCH, whoever changed it and by which command. The exceptions of the code are
\* PERSIST, SWAPDB and the active expire cycle, which signal no key.
NoLostUpdate == part = "KsWatch" => KsWatch!NoLostUpdate


\* Every allocated value is under one key or in one job of the thread, never
\* both: RENAME, overwriting, lazy deletion and FLUSHALL ASYNC use nothing
\* after it is freed, free nothing twice and leak nothing. When
\* freeMemoryIfNeeded returns C_OK memory is within the limit, although the
\* loop never adds up what the thread frees or still holds. The exceptions of the
\* code: clients are paused, or mem_freed, which is unsigned, went below zero
\* because the messages about an evicted key took more than it gave back. The
\* eviction pool stays sorted and within its size.
EvictionIsSound ==
    /\ part = "EvictLazy" => EvictLazy!NoUseAfterFree /\ EvictLazy!OkMeansWithinLimit /\ EvictLazy!PoolSorted
    /\ part = "EvictTtl" => EvictTtl!NoUseAfterFree /\ EvictTtl!OkMeansWithinLimit /\ EvictTtl!PoolSorted
    /\ part = "EvictRandom" => EvictRandom!NoUseAfterFree /\ EvictRandom!OkMeansWithinLimit /\ EvictRandom!PoolSorted
    /\ part = "EvictNone" => EvictNone!NoUseAfterFree /\ EvictNone!OkMeansWithinLimit /\ EvictNone!PoolSorted
====
