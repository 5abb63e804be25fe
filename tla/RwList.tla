------------------------------- MODULE RwList -------------------------------
(***************************************************************************)
(* The Remove-Win List of t_rlist.c.  One vector clock and one list ops of *)
(* waiting operations serve the whole list: an operation is applied when   *)
(* everything its replica had applied to the list has been.  An element    *)
(* has the identifier that places it (see ListId), the set aset of         *)
(* insertions that nothing later has replaced, each with the properties it *)
(* gave and the updates since, and the set rset of removes that no later   *)
(* insertion has replaced.                                                 *)
(*                                                                         *)
(* aset and rset are sets for the reason given in RwRpq.  As in RwfList    *)
(* every element is given a position by one insertion and may be re-added  *)
(* at will, and a missing rle behaves like a new one.                      *)
(***************************************************************************)
EXTENDS VectorClock, Replication, ListId, FiniteSets

CONSTANTS Elements,     \* the element ids
          Types,        \* the property types
          Values,       \* the property values in insertions and updates
          Rands,        \* the values of rand()
          None,         \* NULL, and "null" for the element before
          MaxOps        \* bound: client commands accepted in a behaviour

VARIABLES rle,     \* rle[p][e]: the element e at replica p
          list,    \* list[p]: the linked list that getHead(ht) starts
          len,     \* len[p]: the field "length"
          cur,     \* cur[p]: the clock in the field "current"
          ops,     \* ops[p]: the operations that are not causally ready
          net,     \* the replication streams
          done     \* history: done[p] is the set of operations applied at p

vars == <<rle, list, len, cur, ops, net, done>>

\* value is the insertion whose properties count, named by its clock.
rleNew == [pos |-> << >>, value |-> None, aset |-> {}, rset |-> {}]

\* A new entry of aset: every property has the clock of the insertion.
rl_aseNew(t, v) == [t |-> t, clock |-> [y \in Types |-> t], v |-> v]

LOOKUP(r) == r.aset # {} /\ r.rset = {}

Before(c, t) == vc_cmp(c, t) = "VC_LESS"

\* The scan for the insertion of the greatest replica.
Winner(aset) ==
  IF aset = {} THEN None
  ELSE (CHOOSE a \in aset : \A b \in aset : b.t.id <= a.t.id).t

\* value after the entries not in aset have been freed.
Kept(value, aset) == IF \E a \in aset : a.t = value THEN value ELSE None

\* All that the operations change at a replica.
State(p) == [rle |-> rle[p], list |-> list[p], len |-> len[p], cur |-> cur[p],
             ops |-> ops[p], done |-> done[p]]

\* The element e becomes r: the length follows what LOOKUP says of it, and the clock
\* of the list counts the operation.
Applied(s, m, r) ==
  LET was == LOOKUP(s.rle[m.e])
      is  == LOOKUP(r)
  IN  [s EXCEPT !.rle[m.e] = r,
                !.len = IF ~was /\ is THEN s.len + 1 ELSE IF was /\ ~is THEN s.len - 1
                        ELSE s.len,
                !.cur = vc_update(s.cur, m.t), !.done = s.done \cup {m}]

insertFunc(s, m) ==
  LET r     == s.rle[m.e]
      new   == r.pos = << >>
      older == {a \in r.aset : Before(a.t, m.t)}
      aset  == (r.aset \cup {rl_aseNew(m.t, m.v)}) \ older
      kept  == Kept(r.value, aset)
      found == IF older # {} /\ kept = None THEN Winner(aset) ELSE kept
      value == IF found = None THEN m.t ELSE IF found.id < m.t.id THEN m.t ELSE found
      ids   == [e \in Elements |-> s.rle[e].pos]
      s1    == IF new THEN [s EXCEPT !.list = Link(s.list, ids, m.pre, m.e, m.pos)] ELSE s
  IN  Applied(s1, m, [pos |-> IF new THEN m.pos ELSE r.pos, value |-> value,
                      aset |-> aset, rset |-> {c \in r.rset : ~Before(c, m.t)}])

\* vc_cmp(a.clock, t) < 0: the update is later, or concurrent and of a greater
\* replica, than the clock the property carries.
Overwrites(c, t) == vc_cmp(c, t) \in {"VC_LESS", "VC_C_LESS"}

\* The clock of the property is merged with that of the update and takes its id.
UpdatedAse(a, m) ==
  IF Before(a.t, m.t) /\ Overwrites(a.clock[m.type], m.t)
  THEN [a EXCEPT !.clock[m.type] = [vc_update(@, m.t) EXCEPT !.id = m.t.id],
                 !.v[m.type] = m.v]
  ELSE a

updateFunc(s, m) ==
  LET r == s.rle[m.e]
  IN  Applied(s, m, [r EXCEPT !.aset = {UpdatedAse(a, m) : a \in r.aset}])

removeFunc(s, m) ==
  LET r    == s.rle[m.e]
      aset == {a \in r.aset : ~Before(a.t, m.t)}
      kept == Kept(r.value, aset)
  IN  Applied(s, m, [r EXCEPT !.aset = aset, !.rset = r.rset \cup {m.t},
                              !.value = IF kept = None THEN Winner(aset) ELSE kept])

Apply(s, m) ==
  CASE m.cmd = "rlinsert" -> insertFunc(s, m)
    [] m.cmd = "rlupdate" -> updateFunc(s, m)
    [] m.cmd = "rlrem"    -> removeFunc(s, m)

ReadyAt(s) == {i \in 1 .. Len(s.ops) : vc_causally_ready(s.cur, s.ops[i].t)}

\* One round of the loop: the first operation that is ready is applied and leaves.
NotifyRound(s) ==
  IF ReadyAt(s) = {} THEN s
  ELSE [Apply(s, s.ops[Min(ReadyAt(s))]) EXCEPT !.ops = RemoveAt(s.ops, Min(ReadyAt(s)))]

\* Every round that changes something shortens ops; see RwRpq for the set.
notifyLoop(s) == FoldLeft(LAMBDA S, i : {NotifyRound(x) : x \in S}, {s}, s.ops)

\* The effect part, the same for the three commands.
Effect(s, m) ==
  IF vc_causally_ready(s.cur, m.t)
  THEN UNION {notifyLoop(x) : x \in {Apply(s, m)}}
  ELSE {[s EXCEPT !.ops = Append(s.ops, m)]}

Execute(p, m) ==
  \E s \in Effect(State(p), m) :
    /\ rle'  = [rle  EXCEPT ![p] = s.rle]
    /\ list' = [list EXCEPT ![p] = s.list]
    /\ len'  = [len  EXCEPT ![p] = s.len]
    /\ cur'  = [cur  EXCEPT ![p] = s.cur]
    /\ ops'  = [ops  EXCEPT ![p] = s.ops]
    /\ done' = [done EXCEPT ![p] = s.done]

Issued == UNION {done[p] : p \in Procs}

\* The clock of a new operation; call() runs the effect part and broadcasts.
Call(p, arg) ==
  \E m \in {[t |-> vc_now(cur[p])] @@ arg} :
    /\ Cardinality(Issued) < MaxOps
    /\ net' = replicationBroadcast(net, p, m)
    /\ Execute(p, m)
-----------------------------------------------------------------------------
Init ==
  /\ rle = [p \in Procs |-> [e \in Elements |-> rleNew]]
  /\ list = [p \in Procs |-> << >>]
  /\ len = [p \in Procs |-> 0]
  /\ cur = [p \in Procs |-> vc_new(p)]
  /\ ops = [p \in Procs |-> << >>]
  /\ net = EmptyNetwork
  /\ done = [p \in Procs |-> {}]

Ids(p) == [e \in Elements |-> rle[p][e].pos]

\* An insertion of a new element behind pre, or at the beginning.
rlinsertCommand(p, pre, e, v, r) ==
  /\ pre # None => LOOKUP(rle[p][pre]) /\ rle[p][pre].pos # << >>
  /\ ~LOOKUP(rle[p][e])
  /\ ~\E o \in Issued : o.cmd = "rlinsert" /\ o.e = e
  /\ Call(p, [cmd |-> "rlinsert", pre |-> pre, e |-> e, v |-> v,
              pos |-> NewId(list[p], Ids(p), pre, cur[p], r)])

\* The same command with "readd" for pre.
rlinsertReadd(p, e, v) ==
  /\ ~LOOKUP(rle[p][e])
  /\ rle[p][e].pos # << >>
  /\ Call(p, [cmd |-> "rlinsert", pre |-> None, e |-> e, v |-> v, pos |-> rle[p][e].pos])

rlupdateCommand(p, e, y, v) ==
  /\ LOOKUP(rle[p][e])
  /\ Call(p, [cmd |-> "rlupdate", e |-> e, type |-> y, v |-> v])

rlremCommand(p, e) ==
  /\ LOOKUP(rle[p][e])
  /\ Call(p, [cmd |-> "rlrem", e |-> e])

\* q executes the next command of the stream from p.
ReplicaExecute(p, q) ==
  /\ net[p][q] # << >>
  /\ net' = Consume(net, p, q)
  /\ Execute(q, Head(net[p][q]))

rllenCommand(p) == len[p]

Valued(r) == CHOOSE a \in r.aset : a.t = r.value

\* The elements the reply consists of, with the properties of value.
rllistCommand(p) ==
  LET shown == SelectSeq(list[p], LAMBDA e : LOOKUP(rle[p][e]))
  IN  [i \in 1 .. Len(shown) |-> <<shown[i], Valued(rle[p][shown[i]]).v>>]

ClientStep ==
  \E p \in Procs, e \in Elements :
    \/ \E v \in [Types -> Values] :
         \/ \E pre \in (Elements \ {e}) \cup {None}, r \in Rands :
              rlinsertCommand(p, pre, e, v, r)
         \/ rlinsertReadd(p, e, v)
    \/ \E y \in Types, v \in Values : rlupdateCommand(p, e, y, v)
    \/ rlremCommand(p, e)

Next == ClientStep \/ \E p, q \in Procs : ReplicaExecute(p, q)

Spec == Init /\ [][Next]_vars
-----------------------------------------------------------------------------
(***************************************************************************)
(* Correctness.                                                            *)
(***************************************************************************)

\* Every variable keeps its type, and value names an entry of aset whenever the
\* element is shown, so that RLLIST never follows a NULL or freed pointer.
TypeOK ==
  \A p \in Procs :
    /\ list[p] \in Seq(Elements) /\ len[p] \in Nat /\ cur[p] \in VC
    /\ \A e \in Elements :
         LET r == rle[p][e]
         IN  /\ r.pos \in Seq(Position)
             /\ \A a \in r.aset : a.t \in VC /\ \A y \in Types : a.v[y] \in Values
             /\ r.value # None => \E a \in r.aset : a.t = r.value
             /\ LOOKUP(r) => r.value # None

DoneOn(p, e) == {m \in done[p] : m.e = e}

HappensBefore(m1, m2) ==
  /\ m1 # m2
  /\ \A i \in Procs : m1.t.vector[i] <= m2.t.vector[i]

\* Causal delivery for the list as a whole: an operation is applied only after
\* everything applied at its replica when it was issued, on whatever element.
CausalDelivery ==
  \A p \in Procs : \A m \in done[p], o \in Issued : HappensBefore(o, m) => o \in done[p]

\* notifyLoop leaves nothing in ops that could be applied, and with nothing in
\* flight nothing waits there at all.
NothingLeftWaiting ==
  /\ \A p \in Procs : ReadyAt(State(p)) = {}
  /\ ~InFlight(net) => \A p \in Procs : ops[p] = << >>

Insertions(S) == {a \in S : a.cmd = "rlinsert" /\
                            ~\E o \in S : o.cmd # "rlupdate" /\ HappensBefore(a, o)}

Removes(S) == {r \in S : r.cmd = "rlrem" /\
                         ~\E o \in S : o.cmd = "rlinsert" /\ HappensBefore(r, o)}

\* Which elements a replica shows is a function of the operations it applied: those
\* with an insertion that nothing follows and no remove that no insertion follows.
\* The insertion of the greatest replica gives the properties.
RemoveWinMembership ==
  \A p \in Procs, e \in Elements :
    LET S == DoneOn(p, e)
        r == rle[p][e]
    IN  /\ LOOKUP(r) <=> Insertions(S) # {} /\ Removes(S) = {}
        /\ LOOKUP(r) => r.value.id = Max({a.t.id : a \in Insertions(S)})

\* The linked list is in the order of identifiers that all replicas agree on and no
\* two elements share; causal delivery means that pre is always there first.
OneTotalOrder ==
  /\ \A p \in Procs : \A i, j \in 1 .. Len(list[p]) :
       i < j => leid_less(Ids(p)[list[p][i]], Ids(p)[list[p][j]])
  /\ \A p, q \in Procs, e, f \in Elements :
       Ids(p)[e] # << >> /\ Ids(q)[f] # << >> => (Ids(p)[e] = Ids(q)[f] <=> e = f)

\* RLLEN answers, and RLLIST announces, the number of elements that RLLIST shows.
LengthIsShown == \A p \in Procs : rllenCommand(p) = Len(rllistCommand(p))

\* With nothing in flight all replicas show the same elements in the same order with
\* the same properties.
ListsAgreeAtRest ==
  ~InFlight(net) => \A p, q \in Procs : rllistCommand(p) = rllistCommand(q)

SameElements ==
  \A p, q \in Procs :
    /\ rllenCommand(p) = rllenCommand(q)
    /\ [i \in 1 .. Len(rllistCommand(p)) |-> rllistCommand(p)[i][1]]
         = [i \in 1 .. Len(rllistCommand(q)) |-> rllistCommand(q)[i][1]]
=============================================================================
