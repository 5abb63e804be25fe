------------------------------- MODULE RwRpq -------------------------------
(***************************************************************************)
(* The Remove-Win RPQ of t_rzset.c.  Every element has a vector clock of   *)
(* its own that counts every operation on it, the set aset of the adds     *)
(* that nothing later has replaced, the set rset of the removes that no    *)
(* later add has replaced, and the list ops of the operations received     *)
(* before one they depend on.                                              *)
(*                                                                         *)
(* The lists aset and rset are sets here: their order only breaks ties     *)
(* between adds of one replica, and the later of those replaces the other. *)
(* As in RwfRpq the elements do not influence each other and a missing rze *)
(* behaves like a new one.                                                 *)
(***************************************************************************)
EXTENDS VectorClock, Replication, FiniteSets

CONSTANTS Elements,     \* the elements clients name in their commands
          AddValues,    \* the initial priorities given to RZADD
          IncValues,    \* the increments given to RZINCRBY
          None,         \* NULL, and "not in the zset"
          MaxOps        \* bound: client commands accepted in a behaviour

ASSUME NoneAssumption == None \notin VC /\ None \notin Int

ASSUME ValuesAssumption == AddValues \subseteq Int /\ IncValues \subseteq Int

VARIABLES rze,     \* rze[p][e]: the metadata of e at replica p
          zset,    \* zset[p][e]: the score of e in p's zset, or None
          net,     \* the replication streams
          done     \* history: done[p] is the set of operations applied at p

vars == <<rze, zset, net, done>>

Commands == {"rzadd", "rzincrby", "rzrem"}

\* rargv: the command, its element, its value (0 for rzrem) and the clock the
\* prepare part appends.  In ops the element is the one the list belongs to.
Message == [cmd : Commands, e : Elements, v : Int, t : VC]

\* An entry of aset: the clock of the add, its priority, the increments since.
rz_ase == [t : VC, x : Int, inc : Int]

\* value is the add whose priority counts; the code points to it.
Rze == [current : VC, value : VC \cup {None}, aset : SUBSET rz_ase, rset : SUBSET VC,
        ops : Seq(Message)]
-----------------------------------------------------------------------------
rzeNew(p) ==
  [current |-> vc_new(p), value |-> None, aset |-> {}, rset |-> {}, ops |-> << >>]

LOOKUP(r) == r.aset # {} /\ r.rset = {}

Valued(r) == CHOOSE a \in r.aset : a.t = r.value

SCORE(r) == Valued(r).x + Valued(r).inc

\* The scan for the add of the replica with the greatest id; None in an empty aset.
Winner(aset) ==
  IF aset = {} THEN None
  ELSE (CHOOSE a \in aset : \A b \in aset : b.t.id <= a.t.id).t

\* value after the adds not in aset have been freed.
Kept(value, aset) == IF \E a \in aset : a.t = value THEN value ELSE None

Before(c, t) == vc_cmp(c, t) = "VC_LESS"

\* What a replica holds about one element, and the operations applied to it so far.
Entry == [meta : Rze, score : Int \cup {None}, done : SUBSET Message]

\* The end of each of the three functions: current counts the operation.
Applied(x, r, score, m) ==
  [meta  |-> [r EXCEPT !.current = vc_update(r.current, m.t)],
   score |-> score,
   done  |-> x.done \cup {m}]

addFunc(x, m) ==
  LET r     == x.meta
      a     == [t |-> m.t, x |-> m.v, inc |-> 0]
      older == {b \in r.aset : Before(b.t, m.t)}
      aset  == (r.aset \cup {a}) \ older
      kept  == Kept(r.value, aset)
      found == IF older # {} /\ kept = None THEN Winner(aset) ELSE kept
      value == IF found = None THEN m.t ELSE IF found.id < m.t.id THEN m.t ELSE found
      new   == [r EXCEPT !.aset = aset, !.value = value,
                         !.rset = {c \in r.rset : ~Before(c, m.t)}]
  IN  Applied(x, new, IF LOOKUP(new) THEN SCORE(new) ELSE x.score, m)

increaseFunc(x, m) ==
  LET r   == x.meta
      new == [r EXCEPT !.aset =
                {IF Before(a.t, m.t) THEN [a EXCEPT !.inc = a.inc + m.v] ELSE a :
                   a \in r.aset}]
  IN  Applied(x, new,
              IF LOOKUP(new) /\ Before(new.value, m.t) THEN SCORE(new) ELSE x.score, m)

\* Variant: the remove is not remembered, so a concurrent add survives it.
removeFunc_forgets(x, m) ==
  LET r    == x.meta
      aset == {a \in r.aset : ~Before(a.t, m.t)}
      kept == Kept(r.value, aset)
      new  == [r EXCEPT !.aset = aset,
                        !.value = IF kept = None THEN Winner(aset) ELSE kept]
  IN  Applied(x, new, IF LOOKUP(new) THEN x.score ELSE None, m)

removeFunc(x, m) ==
  LET r    == x.meta
      aset == {a \in r.aset : ~Before(a.t, m.t)}
      kept == Kept(r.value, aset)
      new  == [r EXCEPT !.aset = aset, !.rset = r.rset \cup {m.t},
                        !.value = IF kept = None THEN Winner(aset) ELSE kept]
  IN  Applied(x, new, IF LOOKUP(new) THEN x.score ELSE None, m)

Apply(x, m) ==
  CASE m.cmd = "rzadd"    -> addFunc(x, m)
    [] m.cmd = "rzincrby" -> increaseFunc(x, m)
    [] m.cmd = "rzrem"    -> removeFunc(x, m)

ReadyAt(r) == {i \in 1 .. Len(r.ops) : vc_causally_ready(r.current, r.ops[i].t)}

listDelNode(s, i) == SubSeq(s, 1, i - 1) \o SubSeq(s, i + 1, Len(s))

\* One round of the loop: the first operation that is ready is applied and
\* leaves ops.
NotifyRound(x) ==
  IF ReadyAt(x.meta) = {} THEN x
  ELSE LET i == CHOOSE j \in ReadyAt(x.meta) : \A k \in ReadyAt(x.meta) : j <= k
       IN  [Apply(x, x.meta.ops[i]) EXCEPT !.meta.ops = listDelNode(x.meta.ops, i)]

\* Variant: one pass instead of one after every change.
notifyLoop_once(x) == {NotifyRound(x)}

\* Every round that changes something shortens ops.  The result is a set with the
\* entry at the end of the loop, as TLC would otherwise redo each round for every
\* use of its result.
notifyLoop(x) ==
  LET after[n \in 0 .. Len(x.meta.ops)] ==
        IF n = 0 THEN {x} ELSE {NotifyRound(y) : y \in after[n - 1]}
  IN  after[Len(x.meta.ops)]

\* The effect part, the same for the three commands.
Effect(x, m) ==
  IF vc_causally_ready(x.meta.current, m.t)
  THEN UNION {notifyLoop(y) : y \in {Apply(x, m)}}
  ELSE {[x EXCEPT !.meta.ops = Append(x.meta.ops, m)]}

EntryOf(p, e) == [meta |-> rze[p][e], score |-> zset[p][e], done |-> done[p]]

Execute(p, m) ==
  \E x \in Effect(EntryOf(p, m.e), m) :
    /\ rze'  = [rze  EXCEPT ![p][m.e] = x.meta]
    /\ zset' = [zset EXCEPT ![p][m.e] = x.score]
    /\ done' = [done EXCEPT ![p] = x.done]

Issued == UNION {done[p] : p \in Procs}

\* The clock of a new operation is the same for the three commands; call() then
\* runs the effect part and broadcasts.
Call(p, cmd, e, v) ==
  LET m == [cmd |-> cmd, e |-> e, v |-> v, t |-> vc_now(rze[p][e].current)]
  IN  /\ Cardinality(Issued) < MaxOps
      /\ Execute(p, m)
      /\ net' = replicationBroadcast(net, p, m)
-----------------------------------------------------------------------------
Init ==
  /\ rze = [p \in Procs |-> [e \in Elements |-> rzeNew(p)]]
  /\ zset = [p \in Procs |-> [e \in Elements |-> None]]
  /\ net = EmptyNetwork
  /\ done = [p \in Procs |-> {}]

rzaddCommand(p, e, v) == ~LOOKUP(rze[p][e]) /\ Call(p, "rzadd", e, v)

rzincrbyCommand(p, e, v) == LOOKUP(rze[p][e]) /\ Call(p, "rzincrby", e, v)

rzremCommand(p, e) == LOOKUP(rze[p][e]) /\ Call(p, "rzrem", e, 0)

\* q executes the next command of the stream from p.
ReplicaExecute(p, q) ==
  /\ net[p][q] # << >>
  /\ net' = Consume(net, p, q)
  /\ Execute(q, Head(net[p][q]))

\* The reads look at the zset of their own replica.
rzscoreCommand(p, e) == zsetScore(zset[p], e)

rzmaxCommand(p) == zsetLast(zset[p], None)

ClientStep ==
  \E p \in Procs, e \in Elements :
    \/ \E v \in AddValues : rzaddCommand(p, e, v)
    \/ \E v \in IncValues : rzincrbyCommand(p, e, v)
    \/ rzremCommand(p, e)

Next == ClientStep \/ \E p, q \in Procs : ReplicaExecute(p, q)

Spec == Init /\ [][Next]_vars
-----------------------------------------------------------------------------
(***************************************************************************)
(* Correctness.                                                            *)
(***************************************************************************)

\* Every variable keeps its type; an element has at most one entry per replica in
\* aset, which is what lets value be named by its clock.
TypeOK ==
  /\ \A p \in Procs, e \in Elements :
       LET r == rze[p][e]
       IN  /\ r.current \in VC /\ r.value \in VC \cup {None}
           /\ \A a \in r.aset : a.t \in VC /\ a.x \in Int /\ a.inc \in Int
           /\ \A a, b \in r.aset : a.t.id = b.t.id => a = b
           /\ \A c \in r.rset : c \in VC
           /\ r.ops \in Seq(Message)
  /\ zset \in [Procs -> [Elements -> Int \cup {None}]]
  /\ net \in Network(Message)
  /\ \A p \in Procs : \A m \in done[p] : m \in Message

DoneOn(p, e) == {m \in done[p] : m.e = e}

\* Everything clock c counts, d counts too.
Below(c, d) == \A i \in Procs : c.vector[i] <= d.vector[i]

\* The order of the operations on one element: m1 was applied where m2 was issued
\* before m2 was (ClockCountsDone is why the clocks say so).
HappensBefore(m1, m2) == m1 # m2 /\ Below(m1.t, m2.t)

\* The clock of an element counts the operations applied to it, replica by
\* replica: neither a late operation nor one that waited in ops is counted twice
\* or skipped by vc_update.
ClockCountsDone ==
  \A p, i \in Procs, e \in Elements :
    rze[p][e].current.vector[i] = Cardinality({m \in DoneOn(p, e) : m.t.id = i})

\* Causal delivery: an operation is applied only after everything that was applied
\* at its replica when it was issued, although the streams do not deliver in
\* causal order.
CausalDelivery ==
  \A p \in Procs : \A m \in done[p], o \in Issued :
    o.e = m.e /\ HappensBefore(o, m) => o \in done[p]

\* notifyLoop leaves nothing in ops that could be applied, so nothing waits there
\* for the next command to arrive.
NothingReadyWaits ==
  \A p \in Procs, e \in Elements : ReadyAt(rze[p][e]) = {}

\* With nothing in flight nothing waits in ops either.
NoOpWaitsAtRest ==
  ~InFlight(net) => \A p \in Procs, e \in Elements : rze[p][e].ops = << >>

Adds(S) == {a \in S : a.cmd = "rzadd" /\
                      ~\E o \in S : o.cmd # "rzincrby" /\ HappensBefore(a, o)}

Removes(S) == {r \in S : r.cmd = "rzrem" /\
                         ~\E o \in S : o.cmd = "rzadd" /\ HappensBefore(r, o)}

\* The increments of S that follow a.
Increments(S, a) == {m \in S : m.cmd = "rzincrby" /\ HappensBefore(a, m)}

\* The value of an element after the operations S, whatever the order they were
\* applied in.  It is there iff some add is not followed by an add or a remove,
\* and every remove is followed by an add.  Its score is the priority given by the
\* add of the greatest replica plus the increments that follow this add.
RemoveWinValue(S) ==
  IF Adds(S) = {} \/ Removes(S) # {} THEN None
  ELSE LET w == CHOOSE a \in Adds(S) : \A b \in Adds(S) : b.t.id <= a.t.id
       IN  w.v + Total(Increments(S, w))

\* What a replica shows for an element is a function of the set of operations it
\* applied to it, and a remove beats every add it does not know of.  In particular
\* replicas that applied the same operations show the same score.
RemoveWinSemantics ==
  \A p \in Procs, e \in Elements : zset[p][e] = RemoveWinValue(DoneOn(p, e))

\* The part of it that is about membership: an element is shown iff some add is
\* not followed by an add or a remove and every remove is followed by an add.
RemoveWins ==
  \A p \in Procs, e \in Elements :
    zset[p][e] # None <=> Adds(DoneOn(p, e)) # {} /\ Removes(DoneOn(p, e)) = {}

\* All replicas answer RZSCORE and RZMAX alike.
AnswersAlike ==
  \A p, q \in Procs :
    /\ \A e \in Elements : rzscoreCommand(p, e) = rzscoreCommand(q, e)
    /\ rzmaxCommand(p) = rzmaxCommand(q)

\* Once every stream is empty they do: the safety half of convergence.
AlikeAtRest == ~InFlight(net) => AnswersAlike
-----------------------------------------------------------------------------
(***************************************************************************)
(* The inductive invariant behind these properties.  x is what a replica   *)
(* holds about element e.                                                  *)
(***************************************************************************)

\* The number of an operation among those its replica issued on the element.
Own(m) == m.t.vector[m.t.id]

OpsOn(x, e) == {m \in x.done : m.e = e}

\* The clock counts exactly what was applied: nothing more, and without gaps.
Counted(x, e) ==
  /\ \A m \in OpsOn(x, e) : Own(m) >= 1 /\ Below(m.t, x.meta.current)
  /\ \A i \in Procs : \A k \in 1 .. x.meta.current.vector[i] :
       \E m \in OpsOn(x, e) : m.t.id = i /\ Own(m) = k

\* What waits in ops is on this element, waits once, and was not applied.
Waiting(x, e) ==
  /\ IsInjective(x.meta.ops)
  /\ \A m \in Range(x.meta.ops) : m.e = e /\ m \notin x.done

\* Every add of aset has its priority and the increments that follow it in D.
Scored(aset, D) ==
  \A a \in aset, m \in Adds(D) :
    m.t = a.t => a.x = m.v /\ a.inc = Total(Increments(D, m))

\* aset holds the adds and rset the removes that nothing later replaced, value is
\* the add of the greatest replica, and the zset shows its score.
Shown(x, e) ==
  /\ \A a, b \in x.meta.aset : a.t.id = b.t.id => a = b
  /\ {a.t : a \in x.meta.aset} = {m.t : m \in Adds(OpsOn(x, e))}
  /\ x.meta.rset = {m.t : m \in Removes(OpsOn(x, e))}
  /\ Scored(x.meta.aset, OpsOn(x, e))
  /\ x.meta.aset # {} =>
       /\ \E a \in x.meta.aset : a.t = x.meta.value
       /\ \A a \in x.meta.aset : a.t.id <= x.meta.value.id
  /\ x.score = IF LOOKUP(x.meta) THEN SCORE(x.meta) ELSE None

\* Of two operations on an element, the one that is counted by the clock of the
\* other is before it, and not the other way round.
Causal(M) ==
  \A o, m \in M :
    o.e = m.e /\ o # m /\ Own(o) <= m.t.vector[o.t.id] =>
      Below(o.t, m.t) /\ o.t.vector[m.t.id] < Own(m)

\* Every operation was applied by the replica that issued it, and every other
\* replica has applied it, keeps it in ops or has yet to receive it, once.
Delivered ==
  /\ \A p \in Procs : \A m \in done[p] : m \in done[m.t.id]
  /\ \A p \in Procs, e \in Elements : \A m \in Range(rze[p][e].ops) : m \in done[m.t.id]
  /\ \A p \in Procs : net[p][p] = << >>
  /\ \A p, q \in Procs :
       /\ IsInjective(net[p][q])
       /\ \A m \in Range(net[p][q]) :
            m.t.id = p /\ m \in done[p] /\ m \notin done[q] /\ m \notin Range(rze[q][m.e].ops)
  /\ \A m \in Issued, q \in Procs :
       m \in done[q] \/ m \in Range(net[m.t.id][q]) \/ m \in Range(rze[q][m.e].ops)

Types ==
  /\ rze \in [Procs -> [Elements -> Rze]]
  /\ zset \in [Procs -> [Elements -> Int \cup {None}]]
  /\ net \in Network(Message)
  /\ done \in [Procs -> SUBSET Message]
  /\ \A p \in Procs, e \in Elements : rze[p][e].current.id = p
  /\ \A p \in Procs : IsFiniteSet(done[p])

\* What holds of an element of a replica whatever the others do.
Sound(x, e) == Counted(x, e) /\ Waiting(x, e) /\ ReadyAt(x.meta) = {} /\ Shown(x, e)

\* The invariant of the proof: clocks and histories agree at every replica, and no
\* operation is lost or delivered twice on its way through net and ops.
IInv ==
  /\ Types
  /\ \A p \in Procs, e \in Elements : Sound(EntryOf(p, e), e)
  /\ Causal(Issued)
  /\ Delivered
=============================================================================
