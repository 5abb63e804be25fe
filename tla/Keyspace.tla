------------------------------- MODULE Keyspace -------------------------------
(***************************************************************************)
(* The keyspace of a master and of its replica: db.c, expire.c, the SET of *)
(* t_string.c, and the transactions of multi.c with WATCH.                 *)
(*   db[d][k]   the master's value and expire time of a key                *)
(*   rdb        the same on a replica                                      *)
(*   link       the commands propagated and not yet applied                *)
(*   rmulti     what the replica has queued of a transaction, or None      *)
(*   rseen      ghost: what the replica should hold now (Data of a state)  *)
(*   cl[c]      a client: database, transaction, watched keys; changed     *)
(*              (a ghost): those of them that are not as they were at WATCH *)
(*   lost       ghost: clients whose EXEC ran over a change they watched   *)
(* A command is atomic; time moves between commands (keyIsExpired uses the *)
(* time cached when the command started).                                  *)
(***************************************************************************)
EXTENDS Integers, Sequences, SequencesExt, FiniteSets

CONSTANTS Dbs, Keys, Clients, None,
          Commands,                 \* [op, k, k2, v, t, d] used by the clients
          Queued,                   \* and those they queue in a transaction
          UseReplica,               \* whether a replica follows
          MaxTime, MaxOps, MaxQueue, MaxLink   \* bounds

VARIABLES db, rdb, link, rmulti, rseen, cl, now, ops, lost
vars == <<db, rdb, link, rmulti, rseen, cl, now, ops, lost>>

NoExpire == 0 - 1
Data(x) == [d \in Dbs |-> [k \in Keys |-> IF x[d][k] = None THEN None ELSE x[d][k].v]]

Init ==
    /\ db = [d \in Dbs |-> [k \in Keys |-> None]] /\ rdb = db
    /\ link = <<>> /\ rmulti = None /\ rseen = Data(db)
    /\ cl = [c \in Clients |-> [db |-> 0, multi |-> FALSE, queue |-> <<>>, cas |-> FALSE,
                                watched |-> {}, changed |-> {}]]
    /\ now = 1 /\ ops = 0 /\ lost = {}

-----------------------------------------------------------------------------
(* A server executing: s = [db, out, touched, silent, master, now, block].  *)
(* out is what it propagates, touched the keys signalled as modified,       *)
(* silent (a ghost) those that may change without, block what the replica   *)
(* holds while a MULTI block is being sent, None outside one.               *)

Server(x, isMaster) ==
    [db |-> x, out |-> <<>>, touched |-> {}, silent |-> {}, master |-> isMaster, now |-> now, block |-> None]

\* Each propagated command is noted with what the replica must hold once it
\* has been executed there.
Propagate(s, d, cmd) ==
    [s EXCEPT !.out = Append(@, [d |-> d, cmd |-> cmd,
                                 snap |-> IF s.block = None THEN Data(s.db) ELSE s.block])]

signalModifiedKey(s, d, k) == [s EXCEPT !.touched = @ \cup {<<d, k>>}]

Silently(s, changed) == [s EXCEPT !.silent = @ \cup changed]

dbDelete(s, d, k) == [s EXCEPT !.db[d][k] = None]

Plain(op) == [op |-> op, k |-> None, k2 |-> None, v |-> None, t |-> 0, d |-> 0]
Del(k) == [Plain("del") EXCEPT !.k = k]

getExpire(s, d, k) == IF s.db[d][k] = None THEN NoExpire ELSE s.db[d][k].ex

keyIsExpired(s, d, k) == getExpire(s, d, k) # NoExpire /\ s.now > getExpire(s, d, k)

propagateExpire_notSent(s, d, k) == s

propagateExpire(s, d, k) == Propagate(s, d, Del(k))

\* A master deletes an expired key, telling its replicas first; a replica
\* waits for that DEL.
expireIfNeeded(s, d, k) ==
    IF keyIsExpired(s, d, k) /\ s.master
    THEN signalModifiedKey(propagateExpire(dbDelete(s, d, k), d, k), d, k) ELSE s

dbAdd(s, d, k, e) == [s EXCEPT !.db[d][k] = e]

genericSetKey(s, d, k, v, keepttl) ==
    LET x == expireIfNeeded(s, d, k)
        ex == IF keepttl /\ x.db[d][k] # None THEN x.db[d][k].ex ELSE NoExpire
    IN  signalModifiedKey(dbAdd(x, d, k, [v |-> v, ex |-> ex]), d, k)

setExpire(s, d, k, when) == [s EXCEPT !.db[d][k].ex = when]

-----------------------------------------------------------------------------
(* Commands: each returns the server with its database changed and ok: did  *)
(* the command change anything (server.dirty), so that call() propagates it *)

Done(s, cmd) == [s |-> s, ok |-> TRUE, as |-> cmd]
Nothing(s, cmd) == [s |-> s, ok |-> FALSE, as |-> cmd]

\* SET k v [NX] [KEEPTTL] [PX t]: t is 0 without PX.
setGenericCommand(s, d, cmd) ==
    LET x == expireIfNeeded(s, d, cmd.k)
        y == genericSetKey(s, d, cmd.k, cmd.v, cmd.op = "setkeepttl")
    IN  IF cmd.op = "setnx" /\ x.db[d][cmd.k] # None THEN Nothing(x, cmd)
        ELSE Done(IF cmd.t > 0 THEN setExpire(y, d, cmd.k, s.now + cmd.t) ELSE y, cmd)

getCommand(s, d, cmd) == Nothing(expireIfNeeded(s, d, cmd.k), cmd)

delGenericCommand(s, d, cmd) ==
    LET x == expireIfNeeded(s, d, cmd.k)
    IN  IF x.db[d][cmd.k] = None THEN Nothing(x, cmd)
        ELSE Done(signalModifiedKey(dbDelete(x, d, cmd.k), d, cmd.k), cmd)

\* EXPIRE sends a time to live and PEXPIREAT a time; a time in the past is a
\* DEL on a master, and is executed there only.
expireGenericCommand(s, d, cmd) ==
    LET when == IF cmd.op = "expire" THEN s.now + cmd.t ELSE cmd.t
        x == expireIfNeeded(s, d, cmd.k)
    IN  IF x.db[d][cmd.k] = None THEN Nothing(x, cmd)
        ELSE IF when <= s.now /\ s.master
        THEN Done(signalModifiedKey(dbDelete(x, d, cmd.k), d, cmd.k), Del(cmd.k))
        ELSE Done(signalModifiedKey(setExpire(x, d, cmd.k, when), d, cmd.k), cmd)

\* PERSIST does not signal the key.
persistCommand(s, d, cmd) ==
    LET x == expireIfNeeded(s, d, cmd.k)
    IN  IF getExpire(x, d, cmd.k) = NoExpire THEN Nothing(x, cmd)
        ELSE Done(Silently(setExpire(x, d, cmd.k, NoExpire), {<<d, cmd.k>>}), cmd)

\* RENAME and RENAMENX; the expire time goes with the value.
renameGenericCommand(s, d, cmd) ==
    LET x == expireIfNeeded(s, d, cmd.k)
        e == x.db[d][cmd.k]
        y == expireIfNeeded(x, d, cmd.k2)
        z == dbDelete(dbAdd(y, d, cmd.k2, e), d, cmd.k)
    IN  IF e = None \/ cmd.k = cmd.k2 THEN Nothing(x, cmd)
        ELSE IF cmd.op = "renamenx" /\ y.db[d][cmd.k2] # None THEN Nothing(y, cmd)
        ELSE Done(signalModifiedKey(signalModifiedKey(z, d, cmd.k), d, cmd.k2), cmd)

\* MOVE k to database cmd.d.
moveCommand(s, d, cmd) ==
    LET x == expireIfNeeded(s, d, cmd.k)
        e == x.db[d][cmd.k]
        y == expireIfNeeded(x, cmd.d, cmd.k)
        z == dbDelete(dbAdd(y, cmd.d, cmd.k, e), d, cmd.k)
    IN  IF d = cmd.d THEN Nothing(s, cmd)
        ELSE IF e = None THEN Nothing(x, cmd)
        ELSE IF y.db[cmd.d][cmd.k] # None THEN Nothing(y, cmd)
        ELSE Done(signalModifiedKey(signalModifiedKey(z, d, cmd.k), cmd.d, cmd.k), cmd)

\* SWAPDB d cmd.d touches no watched key.
swapdbCommand(s, d, cmd) ==
    Done(Silently([s EXCEPT !.db = [@ EXCEPT ![d] = s.db[cmd.d], ![cmd.d] = s.db[d]]], Dbs \X Keys), cmd)

\* FLUSHDB and FLUSHALL signal the keys that are there; FLUSHDB of an empty
\* database leaves server.dirty alone.
emptyDb(s, flushed) ==
    LET gone == {<<d, k>> \in flushed \X Keys : s.db[d][k] # None}
    IN  [s EXCEPT !.db = [d \in Dbs |-> IF d \in flushed THEN [k \in Keys |-> None] ELSE s.db[d]],
                  !.touched = @ \cup gone]

flushdbCommand(s, d, cmd) ==
    IF \A k \in Keys : s.db[d][k] = None THEN Nothing(s, cmd) ELSE Done(emptyDb(s, {d}), cmd)

flushallCommand(s, d, cmd) == Done(emptyDb(s, Dbs), cmd)

Execute(s, d, cmd) ==
    CASE cmd.op \in {"set", "setnx", "setkeepttl"} -> setGenericCommand(s, d, cmd)
      [] cmd.op = "get"                    -> getCommand(s, d, cmd)
      [] cmd.op = "del"                    -> delGenericCommand(s, d, cmd)
      [] cmd.op \in {"expire", "pexpireat"} -> expireGenericCommand(s, d, cmd)
      [] cmd.op = "persist"                -> persistCommand(s, d, cmd)
      [] cmd.op \in {"rename", "renamenx"} -> renameGenericCommand(s, d, cmd)
      [] cmd.op = "move"                   -> moveCommand(s, d, cmd)
      [] cmd.op = "swapdb"                 -> swapdbCommand(s, d, cmd)
      [] cmd.op = "flushdb"                -> flushdbCommand(s, d, cmd)
      [] cmd.op = "flushall"               -> flushallCommand(s, d, cmd)

\* call(): a command that changed something is propagated, after the DELs of
\* the keys it found expired.
call(s, d, cmd) ==
    LET r == Execute(s, d, cmd)
    IN  IF r.ok THEN Propagate(r.s, d, r.as) ELSE r.s

IsWrite(cmd) == cmd.op # "get"

-----------------------------------------------------------------------------
(* Transactions *)

\* The keys whose value or expire time a step changes, apart from those that
\* PERSIST, SWAPDB and the active expire cycle change, which signal no key.
Changed(s) == {x \in Dbs \X Keys : s.db[x[1]][x[2]] # db[x[1]][x[2]]} \ s.silent

touchWatchedKey_notInMulti(x, touched) ==
    [c \in Clients |-> [x[c] EXCEPT !.cas = @ \/ (~x[c].multi /\ x[c].watched \cap touched # {})]]

touchWatchedKey(x, touched) ==
    [c \in Clients |-> [x[c] EXCEPT !.cas = @ \/ x[c].watched \cap touched # {}]]

unwatchAllKeys(c) == [c EXCEPT !.watched = {}, !.changed = {}]
discardTransaction(c) ==
    [unwatchAllKeys(c) EXCEPT !.multi = FALSE, !.queue = <<>>, !.cas = FALSE]

\* The commands of EXEC, MULTI being propagated before the first that may
\* write and EXEC after the last.
ExecBlock(s, d, queue) ==
    LET Step(x, cmd) ==
            LET m == IF x.block = None /\ IsWrite(cmd)
                     THEN [Propagate(x, d, Plain("multi")) EXCEPT !.block = Data(x.db)] ELSE x
            IN  call(m, d, cmd)
        all == FoldLeft(Step, s, queue)
    IN  IF all.block = None THEN all
        ELSE Propagate([all EXCEPT !.block = None], d, Plain("exec"))

\* What a master's step leaves: its database, its link, the touched clients.
Settle(s, x) ==
    /\ db' = s.db
    /\ link' = IF UseReplica THEN link \o s.out ELSE <<>>
    /\ cl' = [c \in Clients |->
                [touchWatchedKey(x, s.touched)[c] EXCEPT !.changed = @ \cup (x[c].watched \cap Changed(s))]]
    /\ UNCHANGED <<rdb, rmulti, rseen, now>>

Ready == ops < MaxOps /\ Len(link) < MaxLink

\* A client runs a command outside a transaction.
Command(c, cmd) ==
    /\ Ready /\ ~cl[c].multi
    /\ Settle(call(Server(db, TRUE), cl[c].db, cmd), cl)
    /\ ops' = ops + 1 /\ UNCHANGED lost

\* SELECT, MULTI, the queueing of a command, WATCH, UNWATCH and DISCARD
\* change only the client.
Only(c, new) == cl' = [cl EXCEPT ![c] = new] /\ UNCHANGED <<db, rdb, link, rmulti, rseen, now, lost>>

selectCommand(c, d) == Ready /\ ~cl[c].multi /\ cl[c].db # d /\ Only(c, [cl[c] EXCEPT !.db = d]) /\ ops' = ops + 1
multiCommand(c) == ~cl[c].multi /\ Only(c, [cl[c] EXCEPT !.multi = TRUE]) /\ UNCHANGED ops
queueMultiCommand(c, cmd) ==
    /\ cl[c].multi /\ Len(cl[c].queue) < MaxQueue
    /\ Only(c, [cl[c] EXCEPT !.queue = Append(@, cmd)]) /\ UNCHANGED ops
discardCommand(c) == cl[c].multi /\ Only(c, discardTransaction(cl[c])) /\ UNCHANGED ops

watchForKey(c, k) ==
    /\ Ready /\ ~cl[c].multi /\ <<cl[c].db, k>> \notin cl[c].watched
    /\ Only(c, [cl[c] EXCEPT !.watched = @ \cup {<<cl[c].db, k>>}])
    /\ ops' = ops + 1
unwatchCommand(c) ==
    /\ ~cl[c].multi /\ cl[c].watched # {}
    /\ Only(c, [unwatchAllKeys(cl[c]) EXCEPT !.cas = FALSE]) /\ UNCHANGED ops

execCommand(c) ==
    /\ cl[c].multi /\ Ready /\ ops' = ops + 1
    /\ IF cl[c].cas THEN Only(c, discardTransaction(cl[c]))
       ELSE /\ Settle(ExecBlock(Server(db, TRUE), cl[c].db, cl[c].queue),
                      [cl EXCEPT ![c] = discardTransaction(cl[c])])
            /\ lost' = IF cl[c].changed # {} THEN lost \cup {c} ELSE lost

-----------------------------------------------------------------------------
(* Time, the active expire cycle, the replica *)

Tick == now < MaxTime /\ now' = now + 1 /\ UNCHANGED <<db, rdb, link, rmulti, rseen, cl, ops, lost>>

activeExpireCycleTryExpire(s, d, k) ==
    IF keyIsExpired(s, d, k) THEN Silently(propagateExpire(dbDelete(s, d, k), d, k), {<<d, k>>}) ELSE s

\* The cycle reaches some of the volatile keys and does not touch the watched
\* ones: the watchers of the key are not told.
activeExpireCycle(sampled) ==
    /\ Len(link) < MaxLink /\ sampled # {}
    /\ \A x \in sampled : keyIsExpired(Server(db, TRUE), x[1], x[2])
    /\ Settle(FoldLeft(LAMBDA s, x : activeExpireCycleTryExpire(s, x[1], x[2]),
                       Server(db, TRUE), SetToSeq(sampled)), cl)
    /\ UNCHANGED <<ops, lost>>

\* The replica executes the next command; what stands between MULTI and EXEC
\* is queued first.
Apply ==
    /\ link # <<>>
    /\ LET e == Head(link)
           run(s, x) == Execute(s, x.d, x.cmd).s
       IN  CASE e.cmd.op = "multi" -> rmulti' = <<>> /\ rdb' = rdb
             [] e.cmd.op = "exec"  -> /\ rmulti' = None
                                      /\ rdb' = FoldLeft(run, Server(rdb, FALSE), rmulti).db
             [] OTHER -> IF rmulti = None
                         THEN rdb' = run(Server(rdb, FALSE), e).db /\ rmulti' = None
                         ELSE rdb' = rdb /\ rmulti' = Append(rmulti, e)
    /\ link' = Tail(link) /\ rseen' = Head(link).snap
    /\ UNCHANGED <<db, cl, now, ops, lost>>

Next ==
    \/ Tick \/ Apply
    \/ \E sampled \in SUBSET (Dbs \X Keys) : activeExpireCycle(sampled)
    \/ \E c \in Clients :
        \/ multiCommand(c) \/ discardCommand(c) \/ unwatchCommand(c) \/ execCommand(c)
        \/ \E cmd \in Commands : Command(c, cmd)
        \/ \E cmd \in Queued : queueMultiCommand(c, cmd)
        \/ \E d \in Dbs : selectCommand(c, d)
        \/ \E k \in Keys : watchForKey(c, k)

Spec == Init /\ [][Next]_vars

-----------------------------------------------------------------------------
(* Properties *)

\* The replica holds, after every command it executes, exactly the keys and
\* values the master held when it propagated that command: expiry on the
\* master reaches it only as a DEL in the right place of the stream, and a
\* transaction shows as a whole or not at all.
ReplicaFollowsMaster == Data(rdb) = rseen

\* Once the stream is drained a key has an expire time on the replica exactly
\* when it has one on the master, and never an earlier one: a time to live
\* is counted again from its arrival.
ReplicaNeverExpiresFirst ==
    link = <<>> /\ UseReplica => \A d \in Dbs, k \in Keys : db[d][k] # None =>
        IF db[d][k].ex = NoExpire THEN rdb[d][k].ex = NoExpire ELSE rdb[d][k].ex >= db[d][k].ex

\* EXEC runs only if no watched key changed, in value or expire time, since
\* WATCH, whoever changed it and by which command, but for PERSIST, SWAPDB and
\* the active expire cycle.
NoLostUpdate == lost = {}

\* The steps that the server takes by itself.
Progress == Apply \/ Tick \/ \E x \in Dbs \X Keys : activeExpireCycle({x})

\* A key whose time is over and that is still there, on the master; no such
\* copy of it on either side.
Expired(d, k) == keyIsExpired(Server(db, TRUE), d, k)
Gone(d, k) == ~Expired(d, k) /\ ~keyIsExpired(Server(rdb, FALSE), d, k)
===============================================================================
