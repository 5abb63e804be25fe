-------------------------------- MODULE Blocked --------------------------------
(***************************************************************************)
(* Clients blocked on lists and sorted sets (blocked.c, the blocking       *)
(* commands of t_list.c, timeout.c).                                       *)
(*   db[k]        the value of a key: nothing, a string, a list or a       *)
(*                sorted set of elements; over (a history field) tells     *)
(*                that it was stored over a value of another type          *)
(*   blocking[k]  db->blocking_keys: the clients that wait for k, in order *)
(*   ready        server.ready_keys (db->ready_keys is its set of keys)    *)
(*   serving      the key handleClientsBlockedOnKeys works on and the      *)
(*                iterations that are left                                 *)
(*   cl[c]        a client and what it waits for                           *)
(*   pending      the clients with a pipelined command in their querybuf   *)
(*   unblocked    server.unblocked_clients                                 *)
(*   table        clients_timeout_table                                    *)
(*   mirror       the keys of a replica that applies what is propagated    *)
(* A command runs to its end, with the clients it makes ready, before the  *)
(* next one: the steps that serve them come before any other step.         *)
(***************************************************************************)
EXTENDS Integers, Sequences, SequencesExt, FiniteSets

CONSTANTS Keys, Clients, None,
          Blocks,                   \* blocking commands used: [bt, keys, where, target]
          Commands,                 \* other commands used: sequences run as one EXEC
          MaxElems, MaxTime, MaxBlocks, MaxPending, MaxFree   \* bounds

VARIABLES db, mirror, blocking, ready, serving, cl, pending, unblocked, table, now, taken, next, used
vars == <<db, mirror, blocking, ready, serving, cl, pending, unblocked, table, now, taken, next, used>>

Nothing == [t |-> "none", v |-> <<>>, over |-> FALSE]
Str == [t |-> "string", v |-> <<>>, over |-> FALSE]
\* since, moved: history fields, when it blocked and whether Rotate moved it.
Free == [bt |-> None, keys |-> <<>>, where |-> None, target |-> None, timeout |-> 0, since |-> 0, moved |-> FALSE]
Elems == 1..MaxElems

Init ==
    /\ db = [k \in Keys |-> Nothing] /\ mirror = db
    /\ blocking = [k \in Keys |-> <<>>] /\ ready = <<>> /\ serving = None
    /\ cl = [c \in Clients |-> Free] /\ unblocked = <<>> /\ table = {} /\ now = 1
    /\ taken = [e \in Elems |-> 0] /\ next = 1
    /\ pending = {} /\ used = [blocks |-> 0, pending |-> 0, free |-> 0]

IsBlocked(c) == cl[c].bt # None
Quiet == ready = <<>> /\ serving = None

-----------------------------------------------------------------------------
(* Values *)

Pop(v, where) == IF where = "head" THEN [e |-> Head(v), v |-> Tail(v)] ELSE [e |-> Last(v), v |-> Front(v)]
Push(v, e, where) == IF where = "head" THEN <<e>> \o v ELSE Append(v, e)

\* A value changed in place, or added.
Value(old, t, v) == [t |-> t, v |-> v, over |-> old.over]

\* A key is never left with an empty value.
Put(d, k, t, v) == [d EXCEPT ![k] = IF v = <<>> THEN Nothing ELSE Value(d[k], t, v)]

PopFrom(d, k, where) == Put(d, k, d[k].t, Pop(d[k].v, where).v)

rpoplpush(d, src, dst) ==
    LET e == Pop(d[src].v, "tail").e
        m == PopFrom(d, src, "tail")
    IN  Put(m, dst, "list", Push(m[dst].v, e, "head"))

-----------------------------------------------------------------------------
(* Keys become ready *)

signalKeyAsReady(r, k) ==
    IF blocking[k] = <<>> \/ \E i \in DOMAIN r : r[i] = k THEN r ELSE Append(r, k)

\* dbAdd signals a new key with a list or sorted set; dbOverwrite does not.
SignalIfAdded(r, k, old, new) ==
    IF old.t = "none" /\ new.t \in {"list", "zset"} THEN signalKeyAsReady(r, k) ELSE r

\* setKey, by SORT ... STORE and GEORADIUS ... STORE.
Overwrite(old, t, v) == [t |-> t, v |-> v, over |-> old.t # "none" /\ (old.t = t => old.over)]

\* One command on s = [db, mirror, ready, taken, next]: what it does to the
\* keys, which the replica repeats.  It replies an error on a key of the
\* wrong type.  A blocking command inside EXEC does not block: blpop is one.
Store(s, k, val, gone, new) ==
    [db |-> [s.db EXCEPT ![k] = val], mirror |-> [s.mirror EXCEPT ![k] = val],
     ready |-> SignalIfAdded(s.ready, k, s.db[k], val),
     taken |-> [e \in Elems |-> IF e \in gone THEN s.taken[e] + 1 ELSE s.taken[e]],
     next |-> s.next + new]

Run(s, cmd) ==
    LET old == s.db[cmd.k]
        is(t) == old.t \in {"none", t}
    IN  CASE cmd.op = "rpush" /\ is("list") /\ s.next <= MaxElems ->
                Store(s, cmd.k, Value(old, "list", Append(old.v, s.next)), {}, 1)
          [] cmd.op = "zadd" /\ is("zset") /\ s.next <= MaxElems ->
                Store(s, cmd.k, Value(old, "zset", Append(old.v, s.next)), {}, 1)
          [] cmd.op = "set" -> Store(s, cmd.k, Str, ToSet(old.v), 0)
          [] cmd.op = "del" -> Store(s, cmd.k, Nothing, ToSet(old.v), 0)
          [] cmd.op \in {"sortstore", "geostore"} /\ s.next <= MaxElems ->
                Store(s, cmd.k, Overwrite(old, IF cmd.op = "sortstore" THEN "list" ELSE "zset", <<s.next>>),
                      ToSet(old.v), 1)
          [] cmd.op = "blpop" /\ old.t = "list" ->
                Store(s, cmd.k, PopFrom(s.db, cmd.k, "head")[cmd.k], {Head(old.v)}, 0)
          [] OTHER -> s

Command(cmds) ==
    /\ Quiet
    /\ \E s \in {FoldLeft(Run, [db |-> db, mirror |-> mirror, ready |-> ready, taken |-> taken, next |-> next], cmds)} :
         /\ s.db # db
         /\ db' = s.db /\ mirror' = s.mirror /\ ready' = s.ready /\ taken' = s.taken /\ next' = s.next
    /\ UNCHANGED <<blocking, serving, cl, pending, unblocked, table, now, used>>

-----------------------------------------------------------------------------
(* Blocking and unblocking *)

\* New clients go before the ones that already wait.
blockForKeys_atHead(c, b, timeout) ==
    /\ blocking' = [k \in Keys |-> IF k \in ToSet(b.keys) THEN <<c>> \o blocking[k] ELSE blocking[k]]
    /\ cl' = [cl EXCEPT ![c] = [bt |-> b.bt, keys |-> b.keys, where |-> b.where, target |-> b.target,
                                timeout |-> timeout, since |-> used.blocks + 1, moved |-> FALSE]]
    /\ table' = IF timeout = 0 THEN table ELSE table \cup {<<timeout, c>>}

blockForKeys(c, b, timeout) ==
    /\ blocking' = [k \in Keys |-> IF k \in ToSet(b.keys) THEN Append(blocking[k], c) ELSE blocking[k]]
    /\ cl' = [cl EXCEPT ![c] = [bt |-> b.bt, keys |-> b.keys, where |-> b.where, target |-> b.target,
                                timeout |-> timeout, since |-> used.blocks + 1, moved |-> FALSE]]
    /\ table' = IF timeout = 0 THEN table ELSE table \cup {<<timeout, c>>}

\* unblockClient, for each of cs: off all its keys, out of the timeout table,
\* into the list of the clients whose input is to be looked at.
unblockClients(cs) ==
    /\ blocking' = [k \in Keys |-> SelectSeq(blocking[k], LAMBDA d : d \notin ToSet(cs))]
    /\ cl' = [c \in Clients |-> IF c \in ToSet(cs) THEN Free ELSE cl[c]]
    /\ table' = {x \in table : x[2] \notin ToSet(cs)}
    /\ unblocked' = unblocked \o SelectSeq(cs, LAMBDA c : c \notin ToSet(unblocked))

\* A blocking command that can be served at once, or finds a key of the wrong
\* type before one, does not block.
FirstKey(b) == SelectInSeq(b.keys, LAMBDA k : db[k].t # "none")

ServeAtOnce(b) ==
    \E i \in {FirstKey(b)} :
      /\ i > 0
      /\ UNCHANGED <<blocking, cl, table>>
      /\ \/ /\ db[b.keys[i]].t # b.bt     \* wrong type
            /\ UNCHANGED <<db, mirror, ready, taken>>
         \/ /\ db[b.keys[i]].t = b.bt /\ b.target = None
            /\ db' = PopFrom(db, b.keys[i], b.where)
            /\ mirror' = PopFrom(mirror, b.keys[i], b.where)
            /\ taken' = [taken EXCEPT ![Pop(db[b.keys[i]].v, b.where).e] = @ + 1]
            /\ UNCHANGED ready
         \/ /\ db[b.keys[i]].t = b.bt /\ b.target # None
            /\ IF db[b.target].t \in {"none", "list"}
               THEN /\ db' = rpoplpush(db, b.keys[i], b.target)
                    /\ mirror' = rpoplpush(mirror, b.keys[i], b.target)
                    /\ ready' = SignalIfAdded(ready, b.target, db[b.target], db'[b.target])
                    /\ UNCHANGED taken
               ELSE UNCHANGED <<db, mirror, ready, taken>>

BlockingCommand(c, b) ==
    \/ ServeAtOnce(b)
    \/ /\ FirstKey(b) = 0
       /\ \E timeout \in {0, now + 1} : blockForKeys(c, b, timeout)
       /\ UNCHANGED <<db, mirror, ready, taken>>

Block(c, b) ==
    /\ Quiet /\ ~IsBlocked(c) /\ c \notin pending /\ used.blocks < MaxBlocks
    /\ used' = [used EXCEPT !.blocks = @ + 1]
    /\ BlockingCommand(c, b)
    /\ UNCHANGED <<serving, pending, unblocked, now, next>>

\* A command that arrives behind the one the client is blocked in.
Pipeline(c) ==
    /\ Quiet /\ IsBlocked(c) /\ used.pending < MaxPending
    /\ pending' = pending \cup {c} /\ used' = [used EXCEPT !.pending = @ + 1]
    /\ UNCHANGED <<db, mirror, blocking, ready, serving, cl, unblocked, table, now, taken, next>>

-----------------------------------------------------------------------------
(* handleClientsBlockedOnKeys *)

ServeKey ==
    /\ serving = None /\ ready # <<>>
    /\ ready' = Tail(ready)
    /\ serving' = IF db[Head(ready)].t \in {"list", "zset"}
                  THEN [k |-> Head(ready), left |-> Len(blocking[Head(ready)])] ELSE None
    /\ UNCHANGED <<db, mirror, blocking, cl, pending, unblocked, table, now, taken, next, used>>

\* A client that waits for the other type goes to the end of the list.
Rotate(k) ==
    /\ cl[Head(blocking[k])].bt # db[k].t
    /\ blocking' = [blocking EXCEPT ![k] = Append(Tail(@), Head(@))]
    /\ cl' = [cl EXCEPT ![Head(blocking[k])].moved = TRUE]
    /\ UNCHANGED <<db, mirror, ready, unblocked, table, taken>>

\* [LR]POP or ZPOP[MIN|MAX]
ServePop(k) ==
    \E c \in {Head(blocking[k])} :
      /\ cl[c].bt = db[k].t /\ cl[c].target = None
      /\ unblockClients(<<c>>)
      /\ db' = [db EXCEPT ![k].v = Pop(@, cl[c].where).v]
      /\ mirror' = PopFrom(mirror, k, cl[c].where)
      /\ taken' = [taken EXCEPT ![Pop(db[k].v, cl[c].where).e] = @ + 1]
      /\ UNCHANGED ready

\* The failed push is not undone.
ServePushFails_notUndone(k) ==
    \E c \in {Head(blocking[k])} :
      /\ cl[c].bt = db[k].t /\ cl[c].target # None /\ db[cl[c].target].t \notin {"none", "list"}
      /\ unblockClients(<<c>>)
      /\ db' = [db EXCEPT ![k].v = Front(@)]
      /\ UNCHANGED <<mirror, taken, ready>>

\* BRPOPLPUSH whose destination is not a list: the client gets an error, the
\* element goes back.
ServePushFails(k) ==
    \E c \in {Head(blocking[k])} :
      /\ cl[c].bt = db[k].t /\ cl[c].target # None /\ db[cl[c].target].t \notin {"none", "list"}
      /\ unblockClients(<<c>>)
      /\ UNCHANGED <<db, mirror, taken, ready>>

\* BRPOPLPUSH: the element moves, and both halves are propagated.
ServePush(k) ==
    \E c \in {Head(blocking[k])} : \E dst \in {cl[c].target} :
      /\ cl[c].bt = db[k].t /\ dst # None /\ db[dst].t \in {"none", "list"}
      /\ unblockClients(<<c>>)
      /\ \E m \in {[db EXCEPT ![k].v = Front(@)]} :
           db' = [m EXCEPT ![dst] = Value(@, "list", <<Last(db[k].v)>> \o @.v)]
      /\ mirror' = rpoplpush(mirror, k, dst)
      /\ ready' = SignalIfAdded(ready, dst, db[dst], db'[dst])
      /\ UNCHANGED taken

\* There is an element to hand out; the loop for a list looks only when it
\* comes to a client that waits for one.
GoesOn(k, left) ==
    /\ left > 0
    /\ \/ db[k].v # <<>>
       \/ db[k].t = "list" /\ cl[Head(blocking[k])].bt # "list"

ServeOne ==
    /\ serving # None /\ GoesOn(serving.k, serving.left)
    /\ Rotate(serving.k) \/ ServePop(serving.k) \/ ServePushFails(serving.k) \/ ServePush(serving.k)
    /\ serving' = [serving EXCEPT !.left = @ - 1]
    /\ UNCHANGED <<pending, now, next, used>>

\* No client or no element is left; a list that is empty now is deleted.
ServeDone ==
    /\ serving # None
    /\ ~GoesOn(serving.k, serving.left)
    /\ db' = Put(db, serving.k, db[serving.k].t, db[serving.k].v)
    /\ serving' = None
    /\ UNCHANGED <<mirror, blocking, ready, cl, pending, unblocked, table, now, taken, next, used>>

-----------------------------------------------------------------------------
(* Event loop *)

Tick ==
    /\ Quiet /\ now < MaxTime /\ now' = now + 1
    /\ UNCHANGED <<db, mirror, blocking, ready, serving, cl, pending, unblocked, table, taken, next, used>>

\* Entries in order of their time; equal times in any order.
handleBlockedClientsTimeout ==
    /\ Quiet
    /\ \E x \in table :
         /\ x[1] < now /\ \A y \in table : x[1] <= y[1]
         /\ IF IsBlocked(x[2]) /\ cl[x[2]].timeout # 0 /\ cl[x[2]].timeout < now
            THEN unblockClients(<<x[2]>>)
            ELSE table' = table \ {x} /\ UNCHANGED <<blocking, cl, unblocked>>
    /\ UNCHANGED <<db, mirror, ready, serving, pending, now, taken, next, used>>

\* The input of the first unblocked client is processed: nothing, or a
\* command, which may block it again.
processUnblockedClients ==
    /\ Quiet /\ unblocked # <<>>
    /\ unblocked' = Tail(unblocked)
    /\ \E c \in {Head(unblocked)} :
         IF IsBlocked(c) \/ c \notin pending
         THEN UNCHANGED <<db, mirror, blocking, ready, cl, pending, table, taken, used>>
         ELSE /\ pending' = pending \ {c}
              /\ used' = [used EXCEPT !.blocks = @ + 1]
              /\ \/ \E b \in Blocks : BlockingCommand(c, b)
                 \/ UNCHANGED <<db, mirror, blocking, ready, cl, table, taken>>
    /\ UNCHANGED <<serving, now, next>>

\* A client that is freed is first unblocked, then taken out of the list of
\* unblocked clients.
freeClient(c) ==
    /\ Quiet /\ used.free < MaxFree
    /\ used' = [used EXCEPT !.free = @ + 1] /\ pending' = pending \ {c}
    /\ blocking' = [k \in Keys |-> SelectSeq(blocking[k], LAMBDA d : d # c)]
    /\ cl' = [cl EXCEPT ![c] = Free]
    /\ table' = {x \in table : x[2] # c}
    /\ unblocked' = SelectSeq(unblocked, LAMBDA d : d # c)
    /\ UNCHANGED <<db, mirror, ready, serving, now, taken, next>>

\* CLIENT UNBLOCK, of either kind.
clientUnblock(c) ==
    /\ Quiet /\ IsBlocked(c) /\ used.free < MaxFree
    /\ used' = [used EXCEPT !.free = @ + 1]
    /\ unblockClients(<<c>>)
    /\ UNCHANGED <<db, mirror, ready, serving, pending, now, taken, next>>

\* The server becomes a replica: every blocked client is unblocked with an
\* error, and closed without looking at what it sent behind.
disconnectAllBlockedClients ==
    /\ Quiet /\ used.free < MaxFree
    /\ used' = [used EXCEPT !.free = @ + 1]
    /\ \E cs \in {{c \in Clients : IsBlocked(c)}} :
         /\ cs # {} /\ unblockClients(SetToSeq(cs))
         /\ pending' = pending \ cs
    /\ UNCHANGED <<db, mirror, ready, serving, now, taken, next>>

Next ==
    \/ \E cmds \in Commands : Command(cmds)
    \/ \E c \in Clients, b \in Blocks : Block(c, b)
    \/ \E c \in Clients : Pipeline(c) \/ freeClient(c) \/ clientUnblock(c)
    \/ disconnectAllBlockedClients
    \/ ServeKey \/ ServeOne \/ ServeDone
    \/ Tick \/ handleBlockedClientsTimeout \/ processUnblockedClients

Spec == Init /\ [][Next]_vars

\* The event loop turns and time passes.
Progress ==
    ServeKey \/ ServeOne \/ ServeDone \/ Tick \/ handleBlockedClientsTimeout \/ processUnblockedClients

-----------------------------------------------------------------------------
\* The lists of blocked clients, the clients' own records and the timeout
\* table say the same: a client is in the list of exactly the keys it waits
\* for, once, and in the table exactly if it has a timeout.
BlockedStateAgrees ==
    /\ \A k \in Keys : IsInjective(blocking[k])
    /\ \A k \in Keys, c \in Clients : c \in ToSet(blocking[k]) <=> k \in ToSet(cl[c].keys)
    /\ table = {<<cl[c].timeout, c>> : c \in {d \in Clients : cl[d].timeout # 0}}

\* Between commands nobody waits for a list or sorted set that is there, unless
\* it was stored over a value of another type, which signals nobody.
NobodyWaitsForWhatIsThere ==
    Quiet => \A c \in Clients : \A i \in DOMAIN cl[c].keys :
               LET x == db[cl[c].keys[i]] IN x.t = cl[c].bt => x.over

\* Every element is in exactly one place: one list or sorted set, or it was
\* handed to one client or deleted, once.
ElementsAreConserved ==
    \A e \in 1..next - 1 :
       Cardinality({<<k, i>> \in Keys \X Elems : i <= Len(db[k].v) /\ db[k].v[i] = e}) + taken[e] = 1

\* A replica that applies the propagated commands has the same keys.
ReplicaAgrees == Quiet => mirror = db

\* Of the clients waiting for the same key in the same way, the one that
\* blocked first is served first, unless it was moved to the end of the list
\* when the key held a value of another type.
FirstBlockedFirstServedStep ==
    \A c, d \in Clients :
       /\ serving # None /\ serving.k \in ToSet(cl[c].keys) \cap ToSet(cl[d].keys)
       /\ cl[c].bt = cl[d].bt /\ cl[c].since < cl[d].since /\ ~cl[c].moved
       /\ cl'[d].bt = None
       => cl'[c].bt = None
FirstBlockedFirstServed == [][FirstBlockedFirstServedStep]_vars

WaitsBehindTimeout(c) ==
    c \in pending /\ IsBlocked(c) /\ cl[c].timeout # 0 /\ cl[c].timeout < MaxTime
================================================================================
