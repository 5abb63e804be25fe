---------------------------- MODULE RWFramework ----------------------------
(***************************************************************************)
(* The Remove-Win framework of RWFramework.h: the header (struct reh) that *)
(* every element of an RWF data type starts with, and the checks each      *)
(* operation makes on it.  current counts, per replica, the removes of the *)
(* element this replica knows of.  pid is the id of the replica whose add  *)
(* won since the last of them, PID_NEXIST if there is no element, or       *)
(* PID_WAIT_INNATE if an update overtook the add it depends on.            *)
(***************************************************************************)
EXTENDS VectorClock

PID_NEXIST == -1
PID_WAIT_INNATE == -2

Header == [pid : Procs \cup {PID_NEXIST, PID_WAIT_INNATE}, current : VC]

REH_INIT(p) == [pid |-> PID_NEXIST, current |-> vc_new(p)]

EXISTS(h) == h.pid # PID_NEXIST

\* t counts a remove that current does not.
removeCheck(h, t) == \E i \in Procs : h.current.vector[i] < t.vector[i]

\* The header after a remove history t that passed removeCheck.
REH_RMV_FUNC(h, t) == [pid |-> PID_NEXIST, current |-> vc_update(h.current, t)]

\* Variant: the last add to arrive wins.
addCheck_last_wins(h, t) == vc_equal(t, h.current)

\* Variant: an add only counts for an element that does not exist.
addCheck_first_wins(h, t) == vc_equal(t, h.current) /\ ~EXISTS(h)

\* t knows the same removes, and its replica beats the adds seen so far.
addCheck(h, t) == vc_equal(t, h.current) /\ h.pid < t.id

\* The header after addCheck passed.
addHeader(h, t) == [h EXCEPT !.pid = t.id]

\* Variant: an update that overtook its add is dropped.
updateCheck_existing(h, t) == vc_equal(t, h.current) /\ EXISTS(h)

updateCheck(h, t) == vc_equal(t, h.current)

\* The header after updateCheck passed.
updateHeader(h) == IF EXISTS(h) THEN h ELSE [h EXCEPT !.pid = PID_WAIT_INNATE]
=============================================================================
