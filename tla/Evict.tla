--------------------------------- MODULE Evict ---------------------------------
(***************************************************************************)
(* Eviction under maxmemory (evict.c) and lazy freeing (lazyfree.c), with  *)
(* the background thread that frees (bio.c).                               *)
(*   db[k]    the object of a key, or None; ttl[k]: its expire, or None    *)
(*   obj[o]   an object: size, references and time of the last access      *)
(*   jobs     bio_jobs[BIO_LAZY_FREE]: each job the set of objects it has  *)
(*            still to free; the head is being processed and stays pending *)
(*            until it is removed                                          *)
(*   pool     EvictionPoolLRU: best candidate last                         *)
(*   cmd      the command that waits in freeMemoryIfNeeded, with its       *)
(*            mem_tofree, mem_freed and keys_freed                         *)
(*   sent     memory of the messages queued to clients about evicted keys  *)
(*   paused   clients_paused                                               *)
(* The thread frees between any two steps of the main thread.  A key stands *)
(* for a database and a name.  The server is a master with no script       *)
(* running; the buffers of replicas, which the limit does not count, are   *)
(* left out.                                                               *)
(***************************************************************************)
EXTENDS Integers, Sequences, SequencesExt, FiniteSetsExt

CONSTANTS Keys, None,
          Objects,                  \* 1 .. n: what the allocator hands out
          Sizes,                    \* of values: above 1, freeing is over LAZYFREE_THRESHOLD
          Commands,                 \* records [op, k, k2, n]
          Policy,                   \* "allkeys-lru", "volatile-lru", "volatile-ttl", "allkeys-random", "noeviction"
          LazyEviction, LazyDel,    \* lazyfree-lazy-eviction, lazyfree-lazy-server-del
          MaxMemory,
          PoolSize, Samples,        \* EVPOOL_SIZE, maxmemory-samples
          CheckEvery,               \* 16 in the code
          ClockMax,                 \* LRU_CLOCK_MAX
          MaxTtl,                   \* stands for ULLONG_MAX
          SizeT,                    \* stands for 2^64, the width of mem_freed
          MayPause, MaxSent,        \* whether CLIENT PAUSE is used; bound on sent
          MaxJobs                   \* bound

VARIABLES db, ttl, obj, jobs, pool, cmd, clock, sent, paused
vars == <<db, ttl, obj, jobs, pool, cmd, clock, sent, paused>>

Unused == [size |-> 0, refs |-> 0, lru |-> 0]

Init ==
    /\ db = [k \in Keys |-> None] /\ ttl = [k \in Keys |-> None] /\ obj = [o \in Objects |-> Unused]
    /\ jobs = <<>> /\ pool = <<>> /\ cmd = None /\ clock = 0
    /\ sent = 0 /\ paused = FALSE

Memory(ob) == MapThenSumSet(LAMBDA o : ob[o].size, Objects)
UsedMemory == Memory(obj) + sent
OverLimit == UsedMemory > MaxMemory

-----------------------------------------------------------------------------
(* Objects and the keyspace; s = [db, ttl, obj, jobs] *)

State == [db |-> db, ttl |-> ttl, obj |-> obj, jobs |-> jobs]
SetState(s) == db' = s.db /\ ttl' = s.ttl /\ obj' = s.obj /\ jobs' = s.jobs

\* The last reference frees.
decrRefCount(s, o) ==
    [s EXCEPT !.obj[o] = IF s.obj[o].refs = 1 THEN Unused ELSE [@ EXCEPT !.refs = @ - 1]]

\* Much work, and nobody else holds the object: left to the thread.
freeObjAsync(s, o) ==
    IF s.obj[o].size > 1 /\ s.obj[o].refs = 1 THEN [s EXCEPT !.jobs = Append(@, {o})] ELSE decrRefCount(s, o)

Release(s, o, lazy) == IF lazy THEN freeObjAsync(s, o) ELSE decrRefCount(s, o)

\* dbSyncDelete, or dbAsyncDelete.
Delete(s, k, lazy) ==
    IF s.db[k] = None THEN s ELSE Release([s EXCEPT !.db[k] = None, !.ttl[k] = None], s.db[k], lazy)

dbDelete(s, k) == Delete(s, k, LazyDel)

\* lookupKey notes the access.
Touch(s, k) == IF s.db[k] = None THEN s ELSE [s EXCEPT !.obj[s.db[k]].lru = clock]

dbOverwrite(s, k, o) == Release([s EXCEPT !.db[k] = o], s.db[k], LazyDel)

genericSetKey(s, k, o) ==
    LET t == Touch(s, k)
    IN  [IF t.db[k] = None THEN [t EXCEPT !.db[k] = o] ELSE dbOverwrite(t, k, o) EXCEPT !.ttl[k] = None]

renameGenericCommand_unprotected(s, k1, k2) ==
    LET a == dbDelete(Touch(Touch(s, k1), k2), k2)
    IN  IF s.db[k1] = None \/ k1 = k2 THEN Touch(s, k1)
        ELSE dbDelete([a EXCEPT !.db[k2] = s.db[k1], !.ttl[k2] = s.ttl[k1]], k1)

\* RENAME: incrRefCount protects the value while two keys have it.
renameGenericCommand(s, k1, k2) ==
    LET p == [Touch(Touch(s, k1), k2) EXCEPT !.obj[s.db[k1]].refs = @ + 1]
        a == dbDelete(p, k2)
    IN  IF s.db[k1] = None \/ k1 = k2 THEN Touch(s, k1)
        ELSE dbDelete([a EXCEPT !.db[k2] = s.db[k1], !.ttl[k2] = s.ttl[k1]], k1)

\* FLUSHALL: the tables are emptied here, or the old ones are one job.
emptyDb(s, lazy) ==
    LET vals == {s.db[k] : k \in Keys} \ {None}
        e == [s EXCEPT !.db = [k \in Keys |-> None], !.ttl = [k \in Keys |-> None]]
    IN  IF lazy THEN [e EXCEPT !.jobs = Append(@, vals)] ELSE FoldLeft(decrRefCount, e, SetToSeq(vals))

-----------------------------------------------------------------------------
(* The pool of candidates *)

\* The dictionary sampled: db->dict or db->expires.
Candidates == {k \in Keys : db[k] # None /\ (Policy \in {"allkeys-lru", "allkeys-random"} \/ ttl[k] # None)}

\* The clock wraps.
estimateObjectIdleTime(o) ==
    IF clock >= obj[o].lru THEN clock - obj[o].lru ELSE clock + (ClockMax - obj[o].lru)

Idle(k) == IF Policy = "volatile-ttl" THEN MaxTtl - ttl[k] ELSE estimateObjectIdleTime(db[k])

\* One sampled key: it goes where its idle time puts it; in a full pool it
\* displaces the least idle entry, unless it would be the least idle itself.
evictionPoolPopulate(p, k) ==
    LET e == [key |-> k, idle |-> Idle(k)]
        at == Cardinality({i \in DOMAIN p : \A j \in 1 .. i : p[j].idle < e.idle})
    IN  IF Len(p) < PoolSize THEN InsertAt(p, at + 1, e)
        ELSE IF at = 0 THEN p
        ELSE InsertAt(Tail(p), at, e)

\* From the best entry down, until one names a key that is there: the entries
\* tried leave the pool.
Pick(p) ==
    LET good == {i \in DOMAIN p : p[i].key \in Candidates}
    IN  IF good = {} THEN [key |-> None, pool |-> <<>>]
        ELSE [key |-> p[Max(good)].key, pool |-> SubSeq(p, 1, Max(good) - 1)]

-----------------------------------------------------------------------------
(* processCommand: freeMemoryIfNeeded, then the command *)

Idling == cmd = None

\* SET is the command with CMD_DENYOOM.
denyoom(c) == c.op = "set"

Unallocated == {o \in Objects : obj[o] = Unused}

Run(c) ==
    CASE c.op = "set" ->
           LET o == Min(Unallocated)
           IN  genericSetKey([State EXCEPT !.obj[o] = [size |-> c.n, refs |-> 1, lru |-> clock]], c.k, o)
      [] c.op = "get" -> Touch(State, c.k)
      [] c.op = "del" -> Delete(State, c.k, FALSE)
      [] c.op = "unlink" -> Delete(State, c.k, TRUE)
      [] c.op = "rename" -> renameGenericCommand(State, c.k, c.k2)
      [] c.op = "expire" -> [Touch(State, c.k) EXCEPT !.ttl[c.k] = IF db[c.k] = None THEN None ELSE c.n]
      [] c.op = "flushall" -> emptyDb(State, c.n = 1)

Command(c) ==
    /\ Idling /\ Unallocated # {} /\ Len(jobs) < MaxJobs
    /\ IF paused \/ ~OverLimit THEN SetState(Run(c)) /\ UNCHANGED cmd
       ELSE /\ cmd' = [c |-> c, tofree |-> UsedMemory - MaxMemory, freed |-> 0, keys |-> 0,
                       wait |-> Policy = "noeviction"]
            /\ UNCHANGED <<db, ttl, obj, jobs>>
    /\ UNCHANGED <<pool, clock, sent, paused>>

\* What counts is the memory given back during the deletion, less the memory n
\* of the messages it sends: delta may be negative.
Freed(s, n) == Memory(obj) - Memory(s.obj) - n

\* A round of the loop: delete the key and count; every CheckEvery keys the
\* memory is read again, as the thread frees too.  mem_freed is unsigned.
Evicted(k, newpool) ==
    \E s \in {Delete(State, k, LazyEviction)}, n \in 0 .. MaxSent - sent :
        /\ SetState(s) /\ pool' = newpool /\ sent' = sent + n
        /\ cmd' = [cmd EXCEPT !.keys = (@ + 1) % CheckEvery,
                              !.freed = IF LazyEviction /\ (cmd.keys + 1) % CheckEvery = 0 /\ Memory(s.obj) + sent + n <= MaxMemory
                                        THEN cmd.tofree ELSE (@ + Freed(s, n)) % SizeT]

Looping == ~Idling /\ ~cmd.wait /\ cmd.freed < cmd.tofree

\* dictGetSomeKeys may return any few of the keys, even none.
Sampled == UNION {SetToSeqs(S) : S \in {T \in SUBSET Candidates : Cardinality(T) <= Samples}}

freeMemoryIfNeeded ==
    /\ Looping /\ Candidates # {} /\ UNCHANGED <<clock, paused>>
    /\ IF Policy = "allkeys-random" THEN \E k \in Candidates : Evicted(k, pool)
       ELSE \E p \in {Pick(FoldLeft(evictionPoolPopulate, pool, q)) : q \in Sampled} :
              IF p.key # None THEN Evicted(p.key, p.pool)
              ELSE pool' = p.pool /\ UNCHANGED <<db, ttl, obj, jobs, cmd, sent>>

cant_free ==
    /\ Looping /\ Candidates = {}
    /\ cmd' = [cmd EXCEPT !.wait = TRUE] /\ UNCHANGED <<db, ttl, obj, jobs, pool, clock, sent, paused>>

\* C_OK: the loop counted enough, or memory is found low enough while a job
\* is pending.
Enough == ~Idling /\ IF cmd.wait THEN jobs # <<>> /\ ~OverLimit ELSE cmd.freed >= cmd.tofree

\* C_ERR: no job is pending any more; memory is not read again.
OutOfMemory == ~Idling /\ cmd.wait /\ jobs = <<>>

Refuse == OutOfMemory /\ denyoom(cmd.c) /\ cmd' = None /\ UNCHANGED <<db, ttl, obj, jobs, pool, clock, sent, paused>>

Execute ==
    /\ Enough \/ (OutOfMemory /\ ~denyoom(cmd.c))
    /\ SetState(Run(cmd.c)) /\ cmd' = None /\ UNCHANGED <<pool, clock, sent, paused>>

-----------------------------------------------------------------------------
(* The thread: frees the objects of the first job, then removes the job *)

bioFree ==
    /\ jobs # <<>> /\ UNCHANGED <<pool, cmd, clock, sent, paused>>
    /\ \E o \in Head(jobs) : SetState([decrRefCount(State, o) EXCEPT !.jobs[1] = @ \ {o}])

bioDone ==
    /\ jobs # <<>> /\ Head(jobs) = {}
    /\ jobs' = Tail(jobs) /\ UNCHANGED <<db, ttl, obj, pool, cmd, clock, sent, paused>>

Tick == Idling /\ clock' = (clock + 1) % (ClockMax + 1) /\ UNCHANGED <<db, ttl, obj, jobs, pool, cmd, sent, paused>>

\* The clients read their messages.
Written == Idling /\ sent > 0 /\ sent' = 0 /\ UNCHANGED <<db, ttl, obj, jobs, pool, cmd, clock, paused>>

\* CLIENT PAUSE, and its end.  A command that was read before, by an I/O
\* thread, is executed all the same.
pauseClients ==
    /\ Idling /\ MayPause /\ paused' = ~paused
    /\ UNCHANGED <<db, ttl, obj, jobs, pool, cmd, clock, sent>>

Next ==
    \/ freeMemoryIfNeeded \/ cant_free \/ Refuse \/ Execute \/ bioFree \/ bioDone \/ Tick
    \/ Written \/ pauseClients
    \/ \E c \in Commands : Command(c)

Spec == Init /\ [][Next]_vars

-----------------------------------------------------------------------------
(* Properties *)

\* Every allocated value is in the keyspace under one key or in one job of
\* the thread, never both, and has one reference: RENAME, overwriting, lazy
\* deletion and FLUSHALL ASYNC use nothing after it is freed, free nothing
\* twice and leak nothing, wherever the thread is.
NoUseAfterFree ==
    \A o \in Objects :
        LET owners == Cardinality({k \in Keys : db[k] = o}) + Cardinality({i \in DOMAIN jobs : o \in jobs[i]})
        IN  owners = obj[o].refs /\ owners <= 1

\* mem_freed went below zero: the messages about an evicted key took more than
\* the key gave back, before anything else was freed.
Underflow == ~Idling /\ cmd.freed >= SizeT \div 2

\* When the loop of freeMemoryIfNeeded ends with C_OK the memory is within the
\* limit, although it never adds up what the thread frees or still holds; unless
\* mem_freed underflowed.  The C_OK it returns at once while clients are paused
\* promises nothing.
OkMeansWithinLimit == Enough => ~OverLimit \/ Underflow

\* The pool stays within its size and sorted, the best candidate last, through
\* insertions, picks and keys that vanish: the insertion relies on it.
PoolSorted == Len(pool) <= PoolSize /\ \A i \in 2 .. Len(pool) : pool[i - 1].idle <= pool[i].idle
===============================================================================
