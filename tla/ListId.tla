------------------------------- MODULE ListId -------------------------------
(***************************************************************************)
(* The identifiers that order the elements of the replicated lists         *)
(* (list_basics.h and list_basics.c).  An identifier (struct leid) is a    *)
(* sequence of positions; NULL, the missing neighbour at either end of a   *)
(* list, is the empty sequence.  Indices start at 1 here and at 0 in C.    *)
(***************************************************************************)
EXTENDS VectorClock, SequencesExt, FiniteSetsExt

CONSTANTS BASE,       \* 2^24 in the code: positions are below it
          RDM_STEP    \* 128 in the code: how far rand() may move a position

Position == [pos : 0 .. BASE - 1, pid : Nat, count : Nat]

pos_less(x, y) ==
  \/ x.pos < y.pos
  \/ x.pos = y.pos /\ x.pid < y.pid
  \/ x.pos = y.pos /\ x.pid = y.pid /\ x.count < y.count

Agree(a, b, k) == \A i \in 1 .. k : a[i] = b[i]

\* leid_cmp(a, b) < 0: the first position in which they differ decides, and a
\* prefix comes first.
leid_less(a, b) ==
  \/ Len(a) < Len(b) /\ Agree(a, b, Len(a))
  \/ \E k \in 1 .. Len(a) :
       k <= Len(b) /\ Agree(a, b, k - 1) /\ pos_less(a[k], b[k])

lprefix(p, i) == IF i > Len(p) THEN 0 ELSE p[i].pos

rprefix(q, i) == IF i > Len(q) THEN BASE ELSE q[i].pos

\* The test of the loop: there is a position strictly between the neighbours.
Gap(p, q, i) == rprefix(q, i) - lprefix(p, i) >= 2

\* The first level with a gap.  Past both identifiers the gap is BASE.
Level(p, q) ==
  CHOOSE i \in 1 .. Len(p) + Len(q) + 1 :
    Gap(p, q, i) /\ \A j \in 1 .. i - 1 : ~Gap(p, q, j)

ZeroPosition == [pos |-> 0, pid |-> 0, count |-> 0]

\* What is added to the left neighbour; r is what rand() returned.
RandomStep(gap, r) ==
  IF gap = 0 THEN 0 ELSE r % (IF gap < RDM_STEP THEN gap ELSE RDM_STEP)

SumVector(t) == MapThenSumSet(LAMBDA i : t.vector[i], Procs)

\* Variant: the identifier does not say whose it is.
constructLeid_anonymous(p, q, t, r) ==
  LET k    == Level(p, q)
      left == lprefix(p, k)
      step == RandomStep(rprefix(q, k) - left - 2, r)
  IN  [i \in 1 .. k |->
         IF i = k THEN [pos |-> left + step + 1, pid |-> 0, count |-> SumVector(t)]
         ELSE IF i <= Len(p) THEN p[i] ELSE ZeroPosition]

\* An identifier between p and q for the replica with the clock t.
constructLeid(p, q, t, r) ==
  LET k    == Level(p, q)
      left == lprefix(p, k)
      step == RandomStep(rprefix(q, k) - left - 2, r)
  IN  [i \in 1 .. k |->
         IF i = k THEN [pos |-> left + step + 1, pid |-> t.id, count |-> SumVector(t)]
         ELSE IF i <= Len(p) THEN p[i] ELSE ZeroPosition]
-----------------------------------------------------------------------------
(***************************************************************************)
(* The linked list of a replica, a sequence of elements.  ids[e] is the    *)
(* identifier of e, << >> if the replica has none for it yet.              *)
(***************************************************************************)
PlaceOf(s, e) == CHOOSE i \in 1 .. Len(s) : s[i] = e

\* Where the new element e goes: before the head if it is less, else behind pre, if
\* the replica has a position for pre, or the head, past all elements that are less.
Link(s, ids, pre, e, pos) ==
  LET first == IF Contains(s, pre) THEN PlaceOf(s, pre) ELSE 1
      stop  == {i \in first + 1 .. Len(s) : ~leid_less(ids[s[i]], pos)}
  IN  IF s = << >> \/ leid_less(pos, ids[Head(s)]) THEN <<e>> \o s
      ELSE InsertAt(s, IF stop = {} THEN Len(s) + 1 ELSE Min(stop), e)

\* The identifiers on either side of the place behind pre; None is the front.
LeftId(s, ids, pre) == IF Contains(s, pre) THEN ids[pre] ELSE << >>

RightId(s, ids, pre) ==
  LET i == IF Contains(s, pre) THEN PlaceOf(s, pre) + 1 ELSE 1
  IN  IF i > Len(s) THEN << >> ELSE ids[s[i]]

\* Variant: the identifier is drawn between pre and the end of the list.
NewId_ignores_right(s, ids, pre, t, r) == constructLeid(LeftId(s, ids, pre), << >>, t, r)

NewId(s, ids, pre, t, r) == constructLeid(LeftId(s, ids, pre), RightId(s, ids, pre), t, r)
=============================================================================
