--------------------------- MODULE RemoveWinQueue ---------------------------
(***************************************************************************)
(* What a Remove-Win priority queue promises, with no clock, header or     *)
(* message in sight.  The value of a queue at a replica is a function of   *)
(* the SET of operations the replica has executed, whatever their order.   *)
(* An operation carries the removes it knows of; it counts at a replica    *)
(* iff it knows every remove the replica knows of, so that a remove beats  *)
(* whatever is concurrent with it.                                         *)
(***************************************************************************)
EXTENDS Integers, FiniteSets, FiniteSetsExt

CONSTANTS Procs, Elements, AddValues, IncValues, None

VARIABLES ops,     \* every operation issued so far
          seen,    \* seen[p]: the operations executed at p
          score    \* score[p][e]: what a client of p reads, None if e is absent

vars == <<ops, seen, score>>

\* The removes of e that a replica knows of after executing the operations in S.
\* The k-th remove of e by replica p is <<p, k>>.
Known(S, e) == UNION {o.removes : o \in {s \in S : s.e = e}}

Live(S, e) == {o \in S : o.e = e /\ o.kind # "rem" /\ o.removes = Known(S, e)}

\* Of concurrent adds the one by the replica with the greatest id counts.
Innate(L) ==
  LET adds == {o \in L : o.kind = "add"}
  IN  IF adds = {} THEN 0
      ELSE (CHOOSE o \in adds : \A a \in adds : a.by <= o.by).v

Acquired(L) == MapThenSumSet(LAMBDA o : o.v, {o \in L : o.kind = "inc"})

Value(S, e) ==
  LET L == Live(S, e)
  IN  IF L = {} THEN None ELSE Innate(L) + Acquired(L)

Perform(p, o) ==
  /\ seen' = [seen EXCEPT ![p] = seen[p] \cup {o}]
  /\ score' = [score EXCEPT ![p][o.e] = Value(seen[p] \cup {o}, o.e)]

Issue(p, kind, e, v, removes) ==
  LET o == [kind |-> kind, e |-> e, v |-> v, by |-> p, removes |-> removes,
            n |-> Cardinality({x \in seen[p] : x.by = p})]
  IN  ops' = ops \cup {o} /\ Perform(p, o)
-----------------------------------------------------------------------------
Init ==
  /\ ops = {}
  /\ seen = [p \in Procs |-> {}]
  /\ score = [p \in Procs |-> [e \in Elements |-> None]]

Add(p, e, v) ==
  score[p][e] = None /\ Issue(p, "add", e, v, Known(seen[p], e))

Increase(p, e, v) ==
  score[p][e] # None /\ Issue(p, "inc", e, v, Known(seen[p], e))

Remove(p, e) ==
  LET known == Known(seen[p], e)
      k == Cardinality({r \in known : r[1] = p}) + 1
  IN  score[p][e] # None /\ Issue(p, "rem", e, 0, known \cup {<<p, k>>})

Deliver(p, o) == o \notin seen[p] /\ Perform(p, o) /\ UNCHANGED ops

Next ==
  \E p \in Procs :
    \/ \E e \in Elements :
         \/ \E v \in AddValues : Add(p, e, v)
         \/ \E v \in IncValues : Increase(p, e, v)
         \/ Remove(p, e)
    \/ \E o \in ops : Deliver(p, o)

Spec == Init /\ [][Next]_vars
=============================================================================
