------------------------------- MODULE KeySet -------------------------------
(***************************************************************************)
(* What a hash table promises its callers: a set of keys, and the answer   *)
(* of the last call.                                                       *)
(***************************************************************************)
EXTENDS FiniteSets

CONSTANT Keys

VARIABLES keys, answer

Init == keys = {} /\ answer = "none"

Add(k) ==
  /\ keys' = keys \cup {k}
  /\ answer' = IF k \in keys THEN "err" ELSE "ok"

Delete(k) ==
  /\ keys' = keys \ {k}
  /\ answer' = IF k \in keys THEN "ok" ELSE "err"

Find(k) ==
  /\ answer' = IF k \in keys THEN "ok" ELSE "err"
  /\ UNCHANGED keys

\* A random key is one of the keys, if there are any.
Random ==
  /\ answer' \in (IF keys = {} THEN {"err"} ELSE keys)
  /\ UNCHANGED keys

Empty == keys' = {} /\ answer' = "ok"

Next == (\E k \in Keys : Add(k) \/ Delete(k) \/ Find(k)) \/ Random \/ Empty

Spec == Init /\ [][Next]_<<keys, answer>>
=============================================================================
