---------------------------- MODULE VectorClock ----------------------------
(***************************************************************************)
(* The vector clocks of vector_clock.h and vector_clock.c.  A clock is the *)
(* struct vc: a vector with one counter per replica and the id of the      *)
(* replica it belongs to.  Its size field is N (server.p2p_count) in every *)
(* clock, so the size tests of the C functions are always passed.          *)
(***************************************************************************)
EXTENDS Integers

CONSTANT N    \* server.p2p_count, the number of replicas

ASSUME NAssumption == N \in Nat \ {0}

\* The values of server.p2p_id.
Procs == 0 .. N - 1

Vector == [Procs -> Nat]

VC == [vector : Vector, id : Procs]

\* A clock that counts nothing yet, owned by replica p.
vc_new(p) == [vector |-> [i \in Procs |-> 0], id |-> p]

\* The ids are not compared.
vc_equal(c1, c2) == c1.vector = c2.vector

\* Variant: the merge copies m over tar.
vc_update_overwrites(tar, m) == [tar EXCEPT !.vector = m.vector]

\* tar becomes the componentwise maximum and keeps its id.
vc_update(tar, m) ==
  [tar EXCEPT !.vector = [i \in Procs |-> IF m.vector[i] > tar.vector[i]
                                          THEN m.vector[i]
                                          ELSE tar.vector[i]]]

\* The clock of the owner's next event; c itself is left alone.
vc_now(c) == [c EXCEPT !.vector[c.id] = c.vector[c.id] + 1]

\* What vc_cmp tells apart.  Clocks that neither contains the other are ordered by
\* their ids (VC_C_LESS, VC_C_GREATER); if the ids are equal too, the comparison
\* falls through to the order of the first component in which they differ.
vc_cmp(c1, c2) ==
  LET below == {i \in Procs : c1.vector[i] < c2.vector[i]}
      above == {i \in Procs : c1.vector[i] > c2.vector[i]}
      byId  == IF c1.id > c2.id THEN "VC_C_GREATER" ELSE "VC_C_LESS"
      first == CHOOSE i \in below \cup above : \A j \in below \cup above : i <= j
  IN  IF below \cup above = {}
      THEN IF c1.id = c2.id THEN "VC_CMP_ERR" ELSE byId
      ELSE IF below # {} /\ above # {} /\ c1.id # c2.id THEN byId
      ELSE IF first \in below THEN "VC_LESS" ELSE "VC_GREATER"

\* Variant: does not wait for what other replicas did before next.
vc_causally_ready_fifo(current, next) ==
  next.vector[next.id] = current.vector[next.id] + 1

\* next is the event of its owner that follows current, and depends on nothing
\* that current does not already count.
vc_causally_ready(current, next) ==
  /\ \A i \in Procs \ {next.id} : next.vector[i] <= current.vector[i]
  /\ next.vector[next.id] = current.vector[next.id] + 1
=============================================================================
