---------------------------- MODULE RwRpqEffect -----------------------------
(***************************************************************************)
(* The effect part of an operation of the Remove-Win RPQ.  First what      *)
(* addFunc, increaseFunc and removeFunc of t_rzset.c do to the entry of an *)
(* element, whatever the other replicas do: the entry keeps showing        *)
(* exactly what the operations applied to it say (Shown), and its clock    *)
(* counts them.  Then causal readiness, one round of notifyLoop, the whole *)
(* loop, which is unfolded by induction over its rounds, and with them all *)
(* that an operation does to the entry of its element when it reaches a    *)
(* replica.                                                                *)
(***************************************************************************)
EXTENDS RwRpq, BasicLemmas

\* The provers in the order they are tried; the last ones are for slow machines.
USE SMT, Zenon, SMTT(30), ZenonT(30), SMTT(60)

\* What vc_cmp calls VC_LESS, for clocks of different replicas and for comparable
\* ones: the first counts nothing the second does not, and less.
LEMMA BeforeIffBelow ==
  ASSUME NEW c \in VC, NEW d \in VC, c.id # d.id \/ Below(c, d) \/ Below(d, c)
  PROVE  Before(c, d) <=> Below(c, d) /\ \E i \in Procs : c.vector[i] < d.vector[i]
<1> DEFINE below == {i \in Procs : c.vector[i] < d.vector[i]}
           above == {i \in Procs : c.vector[i] > d.vector[i]}
           first == CHOOSE i \in below \cup above : \A j \in below \cup above : i <= j
<1>1. \A i \in Procs : c.vector[i] \in Nat /\ d.vector[i] \in Nat
  BY DEF VC, Vector
<1>2. Below(c, d) <=> above = {}
  BY <1>1 DEF Below
<1>3. Below(d, c) <=> below = {}
  BY <1>1 DEF Below
<1>4. ASSUME below # {}, above = {} PROVE first \in below
  <2>1. below \cup above \in SUBSET Nat /\ below \cup above # {}
    BY <1>4, NAssumption DEF Procs
  <2>2. \E i \in below \cup above : \A j \in below \cup above : i <= j
    <3> HIDE DEF below, above
    <3> QED
      BY <2>1, LeastNat
  <2>3. first \in below \cup above
    <3> HIDE DEF below, above
    <3> QED
      BY <2>2
  <2> QED
    BY <2>3, <1>4
<1>5. vc_cmp(c, d) = IF below \cup above = {}
                     THEN IF c.id = d.id THEN "VC_CMP_ERR"
                          ELSE IF c.id > d.id THEN "VC_C_GREATER" ELSE "VC_C_LESS"
                     ELSE IF below # {} /\ above # {} /\ c.id # d.id
                          THEN IF c.id > d.id THEN "VC_C_GREATER" ELSE "VC_C_LESS"
                     ELSE IF first \in below THEN "VC_LESS" ELSE "VC_GREATER"
  BY DEF vc_cmp
<1>6. (\E i \in Procs : c.vector[i] < d.vector[i]) <=> below # {}
  OBVIOUS
<1> HIDE DEF below, above, first
<1>7. CASE below # {} /\ above = {}
  BY <1>2, <1>4, <1>5, <1>6, <1>7 DEF Before
<1>8. CASE below = {}
  BY <1>5, <1>6, <1>8 DEF Before
<1>9. CASE below # {} /\ above # {}
  BY <1>2, <1>3, <1>5, <1>9 DEF Before
<1> QED
  BY <1>7, <1>8, <1>9

-----------------------------------------------------------------------------
(***************************************************************************)
(* The effect of one operation on the entry of its element.                *)
(***************************************************************************)

\* The scan for the add of the greatest replica finds one.
LEMMA WinnerFacts ==
  ASSUME NEW aset \in SUBSET rz_ase, aset # {}
  PROVE  /\ \E a \in aset : a.t = Winner(aset)
         /\ \A b \in aset : b.t.id <= Winner(aset).id
<1> DEFINE T == {N - 1 - a.t.id : a \in aset}
<1>1. \A a \in aset : a.t.id \in Nat /\ N - 1 - a.t.id \in Nat
  BY NAssumption DEF rz_ase, VC, Procs
<1>2. T \in SUBSET Nat /\ T # {}
  BY <1>1
<1>3. PICK n \in T : \A k \in T : n <= k
  <2> HIDE DEF T
  <2> QED
    BY <1>2, LeastNat
<1>4. PICK a \in aset : n = N - 1 - a.t.id
  OBVIOUS
<1>5. ASSUME NEW b \in aset PROVE b.t.id <= a.t.id
  <2>1. n <= N - 1 - b.t.id
    BY <1>3
  <2> QED
    BY <1>1, <1>4, <2>1, NAssumption
<1> DEFINE w == CHOOSE c \in aset : \A b \in aset : b.t.id <= c.t.id
<1>6. w \in aset /\ \A b \in aset : b.t.id <= w.t.id
  BY <1>5
<1>7. Winner(aset) = w.t
  BY DEF Winner
<1> QED
  BY <1>6, <1>7

\* The priority that counts is one of aset, so that its score is a number.
LEMMA ScoreIsInt ==
  ASSUME NEW r, r.aset \in SUBSET rz_ase, \E a \in r.aset : a.t = r.value
  PROVE  Valued(r) \in r.aset /\ Valued(r).t = r.value /\ SCORE(r) \in Int
<1>1. Valued(r) \in r.aset /\ Valued(r).t = r.value
  BY DEF Valued
<1> QED
  BY <1>1 DEF SCORE, rz_ase

\* m is later than, or concurrent with, the operations D, and vc_cmp says which.
NewTo(m, D) ==
  \A o \in D : /\ o # m /\ ~HappensBefore(m, o)
               /\ Before(o.t, m.t) <=> HappensBefore(o, m)
               /\ o.t.id = m.t.id => HappensBefore(o, m)

\* What a later operation leaves of the adds and removes that count.
LEMMA HistoryStep ==
  ASSUME NEW D, NEW m, NewTo(m, D)
  PROVE  /\ m.cmd = "rzadd" =>
              /\ Adds(D \cup {m}) = {o \in Adds(D) : ~HappensBefore(o, m)} \cup {m}
              /\ Removes(D \cup {m}) = {o \in Removes(D) : ~HappensBefore(o, m)}
         /\ m.cmd = "rzincrby" => Adds(D \cup {m}) = Adds(D) /\ Removes(D \cup {m}) = Removes(D)
         /\ m.cmd = "rzrem" =>
              /\ Adds(D \cup {m}) = {o \in Adds(D) : ~HappensBefore(o, m)}
              /\ Removes(D \cup {m}) = Removes(D) \cup {m}
<1>1. \A o \in D : o # m /\ ~HappensBefore(m, o)
  BY DEF NewTo
<1>2. ~HappensBefore(m, m)
  BY DEF HappensBefore
<1>3. ASSUME m.cmd = "rzadd"
      PROVE  /\ Adds(D \cup {m}) = {o \in Adds(D) : ~HappensBefore(o, m)} \cup {m}
             /\ Removes(D \cup {m}) = {o \in Removes(D) : ~HappensBefore(o, m)}
  BY <1>1, <1>2, <1>3 DEF Adds, Removes
<1>4. ASSUME m.cmd = "rzincrby"
      PROVE  Adds(D \cup {m}) = Adds(D) /\ Removes(D \cup {m}) = Removes(D)
  BY <1>1, <1>2, <1>4 DEF Adds, Removes
<1>5. ASSUME m.cmd = "rzrem"
      PROVE  /\ Adds(D \cup {m}) = {o \in Adds(D) : ~HappensBefore(o, m)}
             /\ Removes(D \cup {m}) = Removes(D) \cup {m}
  BY <1>1, <1>2, <1>5 DEF Adds, Removes
<1> QED
  BY <1>3, <1>4, <1>5

\* The clock comparison of an add in aset with m is that of the operation behind it.
LEMMA AsetStep ==
  ASSUME NEW x, NEW e, NEW m, Shown(x, e), NewTo(m, OpsOn(x, e))
  PROVE  /\ \A b \in x.meta.aset : \E o \in Adds(OpsOn(x, e)) :
              o.t = b.t /\ (Before(b.t, m.t) <=> HappensBefore(o, m))
         /\ \A o \in Adds(OpsOn(x, e)) : \E b \in x.meta.aset :
              o.t = b.t /\ (Before(b.t, m.t) <=> HappensBefore(o, m))
         /\ \A b \in x.meta.aset : b.t.id = m.t.id => Before(b.t, m.t)
         /\ \A c \in x.meta.rset : \E o \in Removes(OpsOn(x, e)) :
              o.t = c /\ (Before(c, m.t) <=> HappensBefore(o, m))
         /\ \A o \in Removes(OpsOn(x, e)) :
              o.t \in x.meta.rset /\ (Before(o.t, m.t) <=> HappensBefore(o, m))
<1> DEFINE D == OpsOn(x, e)
<1>1. /\ {a.t : a \in x.meta.aset} = {o.t : o \in Adds(D)}
      /\ x.meta.rset = {o.t : o \in Removes(D)}
  BY DEF Shown
<1>2. Adds(D) \subseteq D /\ Removes(D) \subseteq D
  BY DEF Adds, Removes
<1>3. \A o \in D : /\ Before(o.t, m.t) <=> HappensBefore(o, m)
                   /\ o.t.id = m.t.id => HappensBefore(o, m)
  BY DEF NewTo
<1> HIDE DEF D
<1>4. ASSUME NEW b \in x.meta.aset
      PROVE  \E o \in Adds(D) :
               o.t = b.t /\ (Before(b.t, m.t) <=> HappensBefore(o, m))
  <2>1. PICK o \in Adds(D) : o.t = b.t
    BY <1>1
  <2> QED
    BY <1>2, <1>3, <2>1
<1>5. ASSUME NEW o \in Adds(D)
      PROVE  \E b \in x.meta.aset :
               o.t = b.t /\ (Before(b.t, m.t) <=> HappensBefore(o, m))
  <2>1. PICK b \in x.meta.aset : o.t = b.t
    BY <1>1
  <2> QED
    BY <1>2, <1>3, <2>1
<1>6. ASSUME NEW b \in x.meta.aset, b.t.id = m.t.id PROVE Before(b.t, m.t)
  <2>1. PICK o \in Adds(D) : o.t = b.t /\ (Before(b.t, m.t) <=> HappensBefore(o, m))
    BY <1>4
  <2> QED
    BY <1>2, <1>3, <1>6, <2>1
<1>7. ASSUME NEW o \in Removes(D)
      PROVE  o.t \in x.meta.rset /\ (Before(o.t, m.t) <=> HappensBefore(o, m))
  BY <1>1, <1>2, <1>3
<1>8. ASSUME NEW c \in x.meta.rset
      PROVE  \E o \in Removes(D) : o.t = c /\ (Before(c, m.t) <=> HappensBefore(o, m))
  BY <1>1, <1>7
<1> QED
  BY <1>4, <1>5, <1>6, <1>7, <1>8 DEF D

\* What every function does besides aset, rset and value: the operation is counted,
\* and ops is left alone.
Counts(x, y, m) ==
  /\ y.meta.current = vc_update(x.meta.current, m.t)
  /\ y.meta.ops = x.meta.ops
  /\ y.done = x.done \cup {m}

\* Which increments follow an add once m has been applied.
LEMMA IncrementsStep ==
  ASSUME NEW D, NEW m, NewTo(m, D), NEW o \in D
  PROVE  /\ m.cmd # "rzincrby" => Increments(D \cup {m}, o) = Increments(D, o)
         /\ ~HappensBefore(o, m) => Increments(D \cup {m}, o) = Increments(D, o)
         /\ m.cmd = "rzincrby" /\ HappensBefore(o, m) =>
              Increments(D \cup {m}, o) = Increments(D, o) \cup {m}
BY DEF Increments

LEMMA NoIncrements ==
  ASSUME NEW D, NEW m, NewTo(m, D)
  PROVE  Increments(D \cup {m}, m) = {}
<1>1. (\A o \in D : ~HappensBefore(m, o)) /\ ~HappensBefore(m, m)
  BY DEF NewTo, HappensBefore
<1> QED
  BY <1>1 DEF Increments

LEMMA AppliedFacts ==
  ASSUME NEW x \in Entry, NEW r \in Rze, NEW score \in Int \cup {None}, NEW m \in Message,
         r.current = x.meta.current, r.ops = x.meta.ops
  PROVE  LET y == Applied(x, r, score, m)
         IN  /\ y \in Entry /\ Counts(x, y, m) /\ y.score = score
             /\ y.meta.aset = r.aset /\ y.meta.rset = r.rset /\ y.meta.value = r.value
             /\ LOOKUP(y.meta) <=> LOOKUP(r)
             /\ SCORE(y.meta) = SCORE(r)
<1> DEFINE y == Applied(x, r, score, m)
<1>1. vc_update(r.current, m.t) \in VC
  BY UpdateIsJoin DEF Rze, Message
<1>2. /\ y.meta = [r EXCEPT !.current = vc_update(r.current, m.t)]
      /\ y.score = score /\ y.done = x.done \cup {m}
  BY DEF Applied
<1>3. y \in Entry
  BY <1>1 DEF Applied, Entry, Rze
<1>4. /\ y.meta.aset = r.aset /\ y.meta.rset = r.rset /\ y.meta.value = r.value
      /\ y.meta.ops = r.ops /\ y.meta.current = vc_update(r.current, m.t)
  BY <1>2 DEF Rze
<1>5. SCORE(y.meta) = SCORE(r)
  BY <1>4 DEF SCORE, Valued
<1> QED
  BY <1>2, <1>3, <1>4, <1>5 DEF Counts, LOOKUP

LEMMA AddKeepsShown ==
  ASSUME NEW x \in Entry, NEW e, NEW m \in Message, m.e = e, m.cmd = "rzadd",
         Shown(x, e), NewTo(m, OpsOn(x, e))
  PROVE  /\ addFunc(x, m) \in Entry
         /\ Counts(x, addFunc(x, m), m)
         /\ Shown(addFunc(x, m), e)
<1> DEFINE r     == x.meta
           a     == [t |-> m.t, x |-> m.v, inc |-> 0]
           older == {b \in r.aset : Before(b.t, m.t)}
           aset  == (r.aset \cup {a}) \ older
           kept  == Kept(r.value, aset)
           found == IF older # {} /\ kept = None THEN Winner(aset) ELSE kept
           value == IF found = None THEN m.t ELSE IF found.id < m.t.id THEN m.t ELSE found
           rset  == {c \in r.rset : ~Before(c, m.t)}
           new   == [r EXCEPT !.aset = aset, !.value = value, !.rset = rset]
           score == IF LOOKUP(new) THEN SCORE(new) ELSE x.score
           y     == addFunc(x, m)
           D     == OpsOn(x, e)
<1>1. /\ r \in Rze /\ r.aset \in SUBSET rz_ase /\ r.rset \in SUBSET VC /\ r.current \in VC
      /\ r.value \in VC \cup {None} /\ r.ops \in Seq(Message)
      /\ x.score \in Int \cup {None} /\ x.done \in SUBSET Message
  BY DEF Entry, Rze
<1>2. m.t \in VC /\ m.v \in Int /\ a \in rz_ase /\ a.t = m.t
  BY DEF Message, rz_ase
<1>3. y = Applied(x, new, score, m)
  BY DEF addFunc
<1>4. a \in aset /\ aset \in SUBSET rz_ase
  <2>1. ~Before(a.t, m.t)
    BY <1>2, BeforeIffBelow DEF Below, VC, Vector
  <2> QED
    BY <1>1, <1>2, <2>1
<1> HIDE DEF a, older, aset, kept, found, value, rset, score
<1>5. aset = (r.aset \cup {a}) \ older /\ older = {b \in r.aset : Before(b.t, m.t)}
  BY DEF aset, older
<1>6. /\ \E b \in aset : b.t = value
      /\ \A b \in aset : b.t.id <= value.id
  <2>1. \A b \in rz_ase : b.t \in VC /\ b.t # None /\ b.t.id \in Int
    BY NoneAssumption DEF rz_ase, VC, Procs
  <2>2. r.aset # {} => /\ \E b \in r.aset : b.t = r.value
                       /\ \A b \in r.aset : b.t.id <= r.value.id
    BY DEF Shown
  <2>3. CASE \E b \in aset : b.t = r.value
    <3>1. found = r.value /\ r.value # None /\ r.value \in VC
      BY <1>4, <2>1, <2>3 DEF found, kept, Kept
    <3>2. value = IF r.value.id < m.t.id THEN m.t ELSE r.value
      BY <3>1 DEF value
    <3>3. r.value.id \in Int /\ m.t.id \in Int
      BY <1>2, <3>1 DEF VC, Procs
    <3>4. \E b \in aset : b.t = value
      BY <1>2, <1>4, <2>3, <3>2
    <3>5. r.aset # {} => \A b \in r.aset : b.t.id <= value.id
      BY <1>1, <2>1, <2>2, <3>2, <3>3
    <3> QED
      BY <1>2, <1>5, <3>2, <3>3, <3>4, <3>5
  <2>4. CASE /\ ~\E b \in aset : b.t = r.value
             /\ older # {}
    <3>1. found = Winner(aset)
      BY <2>4 DEF found, kept, Kept
    <3>2. /\ \E b \in aset : b.t = Winner(aset)
          /\ \A b \in aset : b.t.id <= Winner(aset).id
      BY <1>4, WinnerFacts
    <3>3. value = Winner(aset)
      BY <1>2, <1>4, <2>1, <3>1, <3>2 DEF value
    <3> QED
      BY <3>2, <3>3
  <2>5. CASE /\ ~\E b \in aset : b.t = r.value
             /\ older = {}
    <3>1. r.aset = {}
      BY <1>5, <2>2, <2>5
    <3>2. aset = {a}
      BY <1>4, <1>5, <3>1
    <3>3. value = m.t
      BY <2>5 DEF value, found, kept, Kept
    <3> QED
      BY <1>2, <2>1, <3>2, <3>3
  <2> QED
    BY <2>3, <2>4, <2>5
<1>7. value \in VC
  BY <1>4, <1>6 DEF rz_ase
<1>8. rset \in SUBSET VC
  BY <1>1 DEF rset
<1>9. new \in Rze /\ new.current = r.current /\ new.ops = r.ops
      /\ new.aset = aset /\ new.rset = rset /\ new.value = value
  BY <1>1, <1>4, <1>7, <1>8 DEF Rze
<1>10. SCORE(new) \in Int
  <2> HIDE DEF new
  <2> QED
    BY <1>4, <1>6, <1>9, ScoreIsInt
<1>11. score = IF LOOKUP(new) THEN SCORE(new) ELSE None
  <2>1. CASE LOOKUP(new)
    BY <2>1 DEF score
  <2>2. CASE ~LOOKUP(new)
    <3>1. rset # {}
      BY <1>4, <1>9, <2>2 DEF LOOKUP
    <3>2. ~LOOKUP(r)
      BY <3>1 DEF LOOKUP, rset
    <3> QED
      BY <2>2, <3>2 DEF score, Shown
  <2> QED
    BY <2>1, <2>2
<1> HIDE DEF new, r
<1>12. /\ y \in Entry /\ Counts(x, y, m) /\ y.score = score
       /\ y.meta.aset = aset /\ y.meta.rset = rset /\ y.meta.value = value
       /\ LOOKUP(y.meta) <=> LOOKUP(new)
       /\ SCORE(y.meta) = SCORE(new)
  <2>1. score \in Int \cup {None}
    BY <1>10, <1>11
  <2> QED
    BY <1>3, <1>9, <2>1, AppliedFacts DEF r
<1>13. OpsOn(y, e) = D \cup {m}
  BY <1>12 DEF Counts, OpsOn
<1>14. /\ Adds(D \cup {m}) = {o \in Adds(D) : ~HappensBefore(o, m)} \cup {m}
       /\ Removes(D \cup {m}) = {o \in Removes(D) : ~HappensBefore(o, m)}
  <2>1. NewTo(m, D)
    OBVIOUS
  <2> HIDE DEF D
  <2> QED
    BY <2>1, HistoryStep, Zenon
<1>15. \A b, c \in aset : b.t.id = c.t.id => b = c
  <2>1. \A b, c \in r.aset : b.t.id = c.t.id => b = c
    BY DEF Shown, r
  <2>2. \A b \in r.aset : b.t.id = m.t.id => Before(b.t, m.t)
    BY AsetStep DEF r
  <2> QED
    BY <1>2, <1>5, <2>1, <2>2
<1> HIDE DEF D, y
<1>16. {b.t : b \in aset} = {o.t : o \in Adds(D \cup {m})}
  <2>1. ASSUME NEW b \in aset PROVE \E o \in Adds(D \cup {m}) : o.t = b.t
    <3>1. CASE b = a
      BY <1>2, <1>14, <3>1
    <3>2. CASE b # a
      <4>1. b \in r.aset /\ ~Before(b.t, m.t)
        BY <1>5, <3>2
      <4>2. PICK o \in Adds(D) : o.t = b.t /\ (Before(b.t, m.t) <=> HappensBefore(o, m))
        BY <4>1, AsetStep DEF r, D
      <4> QED
        BY <1>14, <4>1, <4>2
    <3> QED
      BY <3>1, <3>2
  <2>2. ASSUME NEW o \in Adds(D \cup {m}) PROVE \E b \in aset : o.t = b.t
    <3>1. CASE o = m
      BY <1>2, <1>4, <3>1
    <3>2. CASE o # m
      <4>1. o \in Adds(D) /\ ~HappensBefore(o, m)
        BY <1>14, <3>2
      <4>2. PICK b \in r.aset : o.t = b.t /\ (Before(b.t, m.t) <=> HappensBefore(o, m))
        BY <4>1, AsetStep DEF r, D
      <4> QED
        BY <1>5, <4>1, <4>2
    <3> QED
      BY <3>1, <3>2
  <2>3. {b.t : b \in aset} \subseteq {o.t : o \in Adds(D \cup {m})}
    BY <2>1
  <2>4. {o.t : o \in Adds(D \cup {m})} \subseteq {b.t : b \in aset}
    BY <2>2
  <2> QED
    BY <2>3, <2>4, SetsEqual, Zenon
<1>17. rset = {o.t : o \in Removes(D \cup {m})}
  <2>1. ASSUME NEW c \in rset PROVE \E o \in Removes(D \cup {m}) : o.t = c
    <3>1. c \in r.rset /\ ~Before(c, m.t)
      BY DEF rset
    <3>2. PICK o \in Removes(D) : o.t = c /\ (Before(c, m.t) <=> HappensBefore(o, m))
      BY <3>1, AsetStep DEF r, D
    <3> QED
      BY <1>14, <3>1, <3>2
  <2>2. ASSUME NEW o \in Removes(D \cup {m}) PROVE o.t \in rset
    <3>1. o \in Removes(D) /\ ~HappensBefore(o, m)
      BY <1>14
    <3>2. o.t \in r.rset /\ (Before(o.t, m.t) <=> HappensBefore(o, m))
      BY <3>1, AsetStep DEF r, D
    <3> QED
      BY <3>1, <3>2 DEF rset
  <2> QED
    BY <2>1, <2>2
<1>18. ASSUME NEW b \in aset, NEW o \in Adds(D \cup {m}), o.t = b.t
       PROVE  b.x = o.v /\ b.inc = Total(Increments(D \cup {m}, o))
  <2>1. \A u \in D : u.t.id = m.t.id => HappensBefore(u, m)
    BY DEF NewTo, D
  <2>2. NewTo(m, D) /\ m.cmd # "rzincrby"
    BY DEF D
  <2>3. CASE b = a
    <3>1. o = m
      <4>1. o # m => o \in D /\ ~HappensBefore(o, m)
        BY <1>14 DEF Adds
      <4> QED
        BY <1>2, <1>18, <2>1, <2>3, <4>1
    <3>2. Total(Increments(D \cup {m}, m)) = 0
      BY <2>2, NoIncrements, TotalFacts, FS_EmptySet
    <3>3. b.x = m.v /\ b.inc = 0
      BY <2>3 DEF a
    <3> QED
      BY <3>1, <3>2, <3>3
  <2>4. CASE b # a
    <3>1. b \in r.aset /\ ~Before(b.t, m.t)
      BY <1>5, <2>4
    <3>2. b.t.id # m.t.id
      BY <3>1, AsetStep DEF r
    <3>3. o \in Adds(D) /\ o \in D
      BY <1>14, <1>18, <3>2 DEF Adds
    <3>4. b.x = o.v /\ b.inc = Total(Increments(D, o))
      BY <1>18, <3>1, <3>3 DEF Shown, Scored, r, D
    <3>5. Increments(D \cup {m}, o) = Increments(D, o)
      BY <2>2, <3>3, IncrementsStep
    <3> QED
      BY <3>4, <3>5
  <2> QED
    BY <2>3, <2>4
<1>19. Scored(aset, D \cup {m})
  BY <1>18 DEF Scored
<1>20. Shown(y, e)
  BY <1>6, <1>11, <1>12, <1>13, <1>15, <1>16, <1>17, <1>19, Zenon DEF Shown
<1> QED
  BY <1>12, <1>20 DEF y

LEMMA IncreaseKeepsShown ==
  ASSUME NEW x \in Entry, NEW e, NEW m \in Message, m.e = e, m.cmd = "rzincrby",
         Shown(x, e), NewTo(m, OpsOn(x, e)), IsFiniteSet(x.done)
  PROVE  /\ increaseFunc(x, m) \in Entry
         /\ Counts(x, increaseFunc(x, m), m)
         /\ Shown(increaseFunc(x, m), e)
<1> DEFINE r     == x.meta
           Up(b) == IF Before(b.t, m.t) THEN [b EXCEPT !.inc = b.inc + m.v] ELSE b
           aset  == {Up(b) : b \in r.aset}
           new   == [r EXCEPT !.aset = aset]
           score == IF LOOKUP(new) /\ Before(new.value, m.t) THEN SCORE(new) ELSE x.score
           y     == increaseFunc(x, m)
           D     == OpsOn(x, e)
<1>1. /\ r \in Rze /\ r.aset \in SUBSET rz_ase
      /\ x.score \in Int \cup {None} /\ m.v \in Int
  BY DEF Entry, Rze, Message
<1>2. y = Applied(x, new, score, m)
  BY DEF increaseFunc
<1>3. \A b \in r.aset : Up(b) \in rz_ase /\ Up(b).t = b.t
  BY <1>1 DEF rz_ase
<1>4. \A b \in r.aset : ~Before(b.t, m.t) => Up(b) = b
  OBVIOUS
<1>5. new \in Rze /\ new.current = r.current /\ new.ops = r.ops
      /\ new.aset = aset /\ new.rset = r.rset /\ new.value = r.value
  <2>1. aset \in SUBSET rz_ase
    BY <1>3
  <2> HIDE DEF aset
  <2> QED
    BY <1>1, <2>1 DEF Rze
<1> HIDE DEF Up, new, r, score
<1>6. /\ \A b, c \in r.aset : b.t.id = c.t.id => b = c
      /\ r.aset # {} => /\ \E b \in r.aset : b.t = r.value
                        /\ \A b \in r.aset : b.t.id <= r.value.id
      /\ x.score = IF LOOKUP(r) THEN SCORE(r) ELSE None
      /\ {b.t : b \in r.aset} = {o.t : o \in Adds(D)}
      /\ r.rset = {o.t : o \in Removes(D)}
  BY DEF Shown, r
<1>7. /\ \A b, c \in aset : b.t.id = c.t.id => b = c
      /\ aset # {} => /\ \E b \in aset : b.t = r.value
                      /\ \A b \in aset : b.t.id <= r.value.id
  BY <1>3, <1>6
<1>8. {b.t : b \in aset} = {o.t : o \in Adds(D)}
  <2>1. {b.t : b \in aset} \subseteq {b.t : b \in r.aset}
    BY <1>3
  <2>2. {b.t : b \in r.aset} \subseteq {b.t : b \in aset}
    BY <1>3
  <2> QED
    BY <1>6, <2>1, <2>2
<1>9. LOOKUP(new) <=> LOOKUP(r)
  BY <1>5 DEF LOOKUP
<1>10. ASSUME LOOKUP(new) PROVE SCORE(new) \in Int /\ (~Before(r.value, m.t) => SCORE(new) = SCORE(r))
  <2>1. aset # {} /\ r.aset # {}
    BY <1>5, <1>9, <1>10 DEF LOOKUP
  <2>2. Valued(new) \in aset /\ Valued(new).t = r.value /\ SCORE(new) \in Int
    <3>1. new.aset \in SUBSET rz_ase
      BY <1>5 DEF Rze
    <3> QED
      BY <1>5, <1>7, <2>1, <3>1, ScoreIsInt
  <2>3. Valued(r) \in r.aset /\ Valued(r).t = r.value
    BY <1>1, <1>6, <2>1, ScoreIsInt
  <2>4. ASSUME ~Before(r.value, m.t) PROVE Valued(new) = Valued(r)
    <3>1. Valued(r) \in aset
      BY <1>4, <2>3, <2>4
    <3> QED
      BY <1>7, <2>2, <2>3, <3>1
  <2> QED
    BY <2>2, <2>4 DEF SCORE
<1>11. score = IF LOOKUP(new) THEN SCORE(new) ELSE None
  BY <1>5, <1>6, <1>9, <1>10 DEF score
<1>12. /\ y \in Entry /\ Counts(x, y, m) /\ y.score = score
       /\ y.meta.aset = aset /\ y.meta.rset = r.rset /\ y.meta.value = r.value
       /\ LOOKUP(y.meta) <=> LOOKUP(new)
       /\ SCORE(y.meta) = SCORE(new)
  <2>1. score \in Int \cup {None}
    BY <1>10, <1>11
  <2> HIDE DEF aset
  <2> QED
    BY <1>2, <1>5, <2>1, AppliedFacts DEF r
<1>13. OpsOn(y, e) = D \cup {m}
  BY <1>12 DEF Counts, OpsOn
<1>14. Adds(D \cup {m}) = Adds(D) /\ Removes(D \cup {m}) = Removes(D)
  <2>1. NewTo(m, D)
    OBVIOUS
  <2> HIDE DEF D
  <2> QED
    BY <2>1, HistoryStep, Zenon
<1> HIDE DEF D, y, aset
<1>15. ASSUME NEW b \in aset, NEW o \in Adds(D \cup {m}), o.t = b.t
       PROVE  b.x = o.v /\ b.inc = Total(Increments(D \cup {m}, o))
  <2>1. PICK c \in r.aset : b = Up(c)
    BY DEF aset
  <2>2. o \in Adds(D) /\ o \in D /\ o.t = c.t
    BY <1>3, <1>14, <1>15, <2>1 DEF Adds
  <2>3. c.x = o.v /\ c.inc = Total(Increments(D, o))
    BY <2>2 DEF Shown, Scored, r, D
  <2>4. NewTo(m, D)
    BY DEF D
  <2>5. Before(c.t, m.t) <=> HappensBefore(o, m)
    BY <2>2, <2>4 DEF NewTo
  <2>6. CASE HappensBefore(o, m)
    <3>1. Increments(D \cup {m}, o) = Increments(D, o) \cup {m}
      BY <2>2, <2>4, <2>6, IncrementsStep
    <3>2. /\ Increments(D, o) \in SUBSET Message /\ IsFiniteSet(Increments(D, o))
          /\ m \notin Increments(D, o)
      <4>1. D \in SUBSET x.done /\ x.done \in SUBSET Message /\ m \notin D
        BY <2>4 DEF D, OpsOn, NewTo, Entry
      <4>2. Increments(D, o) \in SUBSET D
        BY DEF Increments
      <4> QED
        BY <4>1, <4>2, FS_Subset
    <3>3. Total(Increments(D \cup {m}, o)) = Total(Increments(D, o)) + m.v
      <4> DEFINE I == Increments(D, o)
      <4>1. IsFiniteSet(I) /\ m \notin I /\ (\A k \in I : k.v \in Int) /\ m.v \in Int
        BY <3>2 DEF Message
      <4> HIDE DEF I
      <4>2. Total(I \cup {m}) = Total(I) + m.v
        BY <4>1, TotalFacts
      <4> QED
        BY <3>1, <4>2 DEF I
    <3>4. b = [c EXCEPT !.inc = c.inc + m.v]
      BY <2>1, <2>5, <2>6 DEF Up
    <3>5. b.x = c.x /\ b.inc = c.inc + m.v
      BY <1>1, <3>4 DEF rz_ase
    <3> QED
      BY <2>3, <3>3, <3>5
  <2>7. CASE ~HappensBefore(o, m)
    <3>1. b = c
      BY <2>1, <2>5, <2>7 DEF Up
    <3>2. Increments(D \cup {m}, o) = Increments(D, o)
      BY <2>2, <2>4, <2>7, IncrementsStep
    <3> QED
      BY <2>3, <3>1, <3>2
  <2> QED
    BY <2>6, <2>7
<1>16. Scored(aset, D \cup {m})
  BY <1>15 DEF Scored
<1>17. Shown(y, e)
  BY <1>6, <1>7, <1>8, <1>11, <1>12, <1>13, <1>14, <1>16, Zenon DEF Shown
<1> QED
  BY <1>12, <1>17 DEF y

LEMMA RemoveKeepsShown ==
  ASSUME NEW x \in Entry, NEW e, NEW m \in Message, m.e = e, m.cmd = "rzrem",
         Shown(x, e), NewTo(m, OpsOn(x, e))
  PROVE  /\ removeFunc(x, m) \in Entry
         /\ Counts(x, removeFunc(x, m), m)
         /\ Shown(removeFunc(x, m), e)
<1> DEFINE r     == x.meta
           aset  == {b \in r.aset : ~Before(b.t, m.t)}
           kept  == Kept(r.value, aset)
           value == IF kept = None THEN Winner(aset) ELSE kept
           rset  == r.rset \cup {m.t}
           new   == [r EXCEPT !.aset = aset, !.rset = rset, !.value = value]
           score == IF LOOKUP(new) THEN x.score ELSE None
           y     == removeFunc(x, m)
           D     == OpsOn(x, e)
<1>1. /\ r \in Rze /\ r.aset \in SUBSET rz_ase /\ r.rset \in SUBSET VC
      /\ m.t \in VC /\ r.value \in VC \cup {None}
  BY DEF Entry, Rze, Message
<1>2. y = Applied(x, new, score, m)
  BY DEF removeFunc
<1>3. aset \in SUBSET rz_ase /\ aset \subseteq r.aset /\ rset \in SUBSET VC /\ rset # {}
  BY <1>1
<1>4. /\ \A b, c \in r.aset : b.t.id = c.t.id => b = c
      /\ r.aset # {} => /\ \E b \in r.aset : b.t = r.value
                        /\ \A b \in r.aset : b.t.id <= r.value.id
  BY DEF Shown
<1> HIDE DEF aset, kept, value, rset, score
<1>5. aset # {} => /\ \E b \in aset : b.t = value
                   /\ \A b \in aset : b.t.id <= value.id
  <2>1. CASE kept # None
    <3>1. value = r.value
      BY <2>1 DEF value, kept, Kept
    <3>2. \E b \in aset : b.t = r.value
      BY <2>1 DEF kept, Kept
    <3> QED
      BY <1>3, <1>4, <3>1, <3>2
  <2>2. CASE kept = None
    BY <1>3, <2>2, WinnerFacts DEF value
  <2> QED
    BY <2>1, <2>2
<1>6. value \in VC \cup {None}
  <2>1. CASE aset # {}
    BY <1>3, <1>5, <2>1 DEF rz_ase
  <2>2. CASE aset = {}
    BY <2>2 DEF value, kept, Kept, Winner
  <2> QED
    BY <2>1, <2>2
<1>7. new \in Rze /\ new.current = r.current /\ new.ops = r.ops
      /\ new.aset = aset /\ new.rset = rset /\ new.value = value
  BY <1>1, <1>3, <1>6 DEF Rze
<1> HIDE DEF new
<1>8. ~LOOKUP(new) /\ score = None
  BY <1>3, <1>7 DEF LOOKUP, score
<1> HIDE DEF r
<1>9. /\ y \in Entry /\ Counts(x, y, m) /\ y.score = score
      /\ y.meta.aset = aset /\ y.meta.rset = rset /\ y.meta.value = value
      /\ LOOKUP(y.meta) <=> LOOKUP(new)
  <2>1. score \in Int \cup {None}
    BY <1>8
  <2> QED
    BY <1>2, <1>7, <2>1, AppliedFacts DEF r
<1>10. OpsOn(y, e) = D \cup {m}
  BY <1>9 DEF Counts, OpsOn
<1>11. /\ Adds(D \cup {m}) = {o \in Adds(D) : ~HappensBefore(o, m)}
       /\ Removes(D \cup {m}) = Removes(D) \cup {m}
  <2>1. NewTo(m, D)
    OBVIOUS
  <2> HIDE DEF D
  <2> QED
    BY <2>1, HistoryStep, Zenon
<1> HIDE DEF D, y
<1>12. {b.t : b \in aset} = {o.t : o \in Adds(D \cup {m})}
  <2>1. ASSUME NEW b \in aset PROVE \E o \in Adds(D \cup {m}) : o.t = b.t
    <3>1. b \in r.aset /\ ~Before(b.t, m.t)
      BY DEF aset
    <3>2. PICK o \in Adds(D) : o.t = b.t /\ (Before(b.t, m.t) <=> HappensBefore(o, m))
      BY <3>1, AsetStep DEF r, D
    <3> QED
      BY <1>11, <3>1, <3>2
  <2>2. ASSUME NEW o \in Adds(D \cup {m}) PROVE \E b \in aset : o.t = b.t
    <3>1. o \in Adds(D) /\ ~HappensBefore(o, m)
      BY <1>11
    <3>2. PICK b \in r.aset : o.t = b.t /\ (Before(b.t, m.t) <=> HappensBefore(o, m))
      BY <3>1, AsetStep DEF r, D
    <3> QED
      BY <3>1, <3>2 DEF aset
  <2>3. {b.t : b \in aset} \subseteq {o.t : o \in Adds(D \cup {m})}
    BY <2>1
  <2>4. {o.t : o \in Adds(D \cup {m})} \subseteq {b.t : b \in aset}
    BY <2>2
  <2> QED
    BY <2>3, <2>4, SetsEqual, Zenon
<1>13. rset = {o.t : o \in Removes(D \cup {m})}
  <2>1. r.rset = {o.t : o \in Removes(D)}
    BY DEF Shown, r, D
  <2> QED
    BY <1>11, <2>1 DEF rset
<1>14. \A b, c \in aset : b.t.id = c.t.id => b = c
  BY <1>3, <1>4 DEF r
<1>15. ASSUME NEW b \in aset, NEW o \in Adds(D \cup {m}), o.t = b.t
       PROVE  b.x = o.v /\ b.inc = Total(Increments(D \cup {m}, o))
  <2>1. b \in r.aset /\ o \in Adds(D) /\ o \in D
    BY <1>3, <1>11 DEF Adds, r
  <2>2. b.x = o.v /\ b.inc = Total(Increments(D, o))
    BY <1>15, <2>1 DEF Shown, Scored, r, D
  <2>3. NewTo(m, D) /\ m.cmd # "rzincrby"
    BY DEF D
  <2>4. Increments(D \cup {m}, o) = Increments(D, o)
    BY <2>1, <2>3, IncrementsStep
  <2> QED
    BY <2>2, <2>4
<1>16. Scored(aset, D \cup {m})
  BY <1>15 DEF Scored
<1>17. Shown(y, e)
  BY <1>5, <1>8, <1>9, <1>10, <1>12, <1>13, <1>14, <1>16, Zenon DEF Shown
<1> QED
  BY <1>9, <1>17 DEF y

\* Each of the three functions applies the operation and shows its outcome.
LEMMA ApplyKeepsShown ==
  ASSUME NEW x \in Entry, NEW e, NEW m \in Message, m.e = e, Shown(x, e),
         NewTo(m, OpsOn(x, e)), IsFiniteSet(x.done)
  PROVE  Apply(x, m) \in Entry /\ Counts(x, Apply(x, m), m) /\ Shown(Apply(x, m), e)
<1>1. m.cmd \in Commands
  BY DEF Message
<1>2. CASE m.cmd = "rzadd"
  BY <1>2, AddKeepsShown DEF Apply
<1>3. CASE m.cmd = "rzincrby"
  BY <1>3, IncreaseKeepsShown DEF Apply
<1>4. CASE m.cmd = "rzrem"
  BY <1>4, RemoveKeepsShown DEF Apply
<1> QED
  BY <1>1, <1>2, <1>3, <1>4 DEF Commands

-----------------------------------------------------------------------------
\* What is left of ops when an operation leaves it.
LEMMA DeleteFacts ==
  ASSUME NEW S, NEW s \in Seq(S), NEW i \in 1 .. Len(s), IsInjective(s)
  PROVE  /\ listDelNode(s, i) \in Seq(S) /\ Len(listDelNode(s, i)) = Len(s) - 1
         /\ IsInjective(listDelNode(s, i))
         /\ Range(listDelNode(s, i)) = Range(s) \ {s[i]}
<1> DEFINE u == SubSeq(s, 1, i - 1)
           v == SubSeq(s, i + 1, Len(s))
           w == listDelNode(s, i)
<1>1. Len(s) \in Nat /\ DOMAIN s = 1 .. Len(s) /\ \A j \in 1 .. Len(s) : s[j] \in S
  BY LenProperties, ElementOfSeq
<1>2. /\ u \in Seq(S) /\ Len(u) = i - 1 /\ \A j \in 1 .. i - 1 : u[j] = s[j]
  <2>1. \A j \in 1 .. i - 1 : s[j] \in S
    BY <1>1
  <2>2. /\ u \in Seq(S) /\ Len(u) = IF 1 <= i - 1 THEN (i - 1) - 1 + 1 ELSE 0
        /\ \A j \in 1 .. (i - 1) - 1 + 1 : u[j] = s[1 + j - 1]
    BY <1>1, <2>1, SubSeqProperties
  <2> QED
    BY <1>1, <2>2
<1>3. /\ v \in Seq(S) /\ Len(v) = Len(s) - i /\ \A j \in 1 .. Len(s) - i : v[j] = s[i + j]
  <2>1. \A j \in i + 1 .. Len(s) : s[j] \in S
    BY <1>1
  <2>2. /\ v \in Seq(S) /\ Len(v) = IF i + 1 <= Len(s) THEN Len(s) - (i + 1) + 1 ELSE 0
        /\ \A j \in 1 .. Len(s) - (i + 1) + 1 : v[j] = s[(i + 1) + j - 1]
    BY <1>1, <2>1, SubSeqProperties
  <2>3. ASSUME NEW j \in 1 .. Len(s) - i PROVE v[j] = s[i + j]
    <3>1. j \in 1 .. Len(s) - (i + 1) + 1 /\ (i + 1) + j - 1 = i + j
      BY <1>1
    <3> QED
      BY <2>2, <3>1
  <2> HIDE DEF v
  <2>4. Len(v) = IF i + 1 <= Len(s) THEN Len(s) - (i + 1) + 1 ELSE 0
    BY <2>2
  <2>5. Len(s) \in Int /\ i \in Int /\ i <= Len(s)
    BY <1>1
  <2>6. Len(v) = Len(s) - i
    BY <2>4, <2>5
  <2> QED
    BY <2>2, <2>3, <2>6
<1>4. /\ w \in Seq(S) /\ Len(w) = Len(s) - 1 /\ DOMAIN w = 1 .. Len(s) - 1
      /\ \A j \in 1 .. Len(s) - 1 : w[j] = IF j < i THEN s[j] ELSE s[j + 1]
  <2> HIDE DEF u, v
  <2>1. /\ u \o v \in Seq(S) /\ Len(u \o v) = Len(u) + Len(v)
        /\ \A j \in 1 .. Len(u) + Len(v) :
             (u \o v)[j] = IF j <= Len(u) THEN u[j] ELSE v[j - Len(u)]
    BY <1>2, <1>3, ConcatProperties
  <2>2. w = u \o v
    BY DEF listDelNode, u, v
  <2> HIDE DEF w
  <2>0. Len(u) + Len(v) = Len(s) - 1
    BY <1>1, <1>2, <1>3
  <2>3. /\ w \in Seq(S) /\ Len(w) = Len(s) - 1 /\ DOMAIN w = 1 .. Len(s) - 1
    BY <1>1, <2>0, <2>1, <2>2, LenProperties
  <2>4. ASSUME NEW j \in 1 .. Len(s) - 1
        PROVE  w[j] = IF j < i THEN s[j] ELSE s[j + 1]
    <3>1. j \in 1 .. Len(u) + Len(v)
      BY <2>0
    <3>2. w[j] = IF j <= i - 1 THEN u[j] ELSE v[j - (i - 1)]
      BY <1>2, <2>1, <2>2, <3>1
    <3>3. CASE j < i
      BY <1>1, <1>2, <3>2, <3>3
    <3>4. CASE ~(j < i)
      <4>1. j - (i - 1) \in 1 .. Len(s) - i /\ i + (j - (i - 1)) = j + 1 /\ ~(j <= i - 1)
        BY <1>1, <3>4
      <4> QED
        BY <1>3, <3>2, <3>4, <4>1
    <3> QED
      BY <3>3, <3>4
  <2> QED
    BY <2>3, <2>4
<1> HIDE DEF u, v, w
<1>5. \A j, k \in 1 .. Len(s) : s[j] = s[k] => j = k
  BY <1>1 DEF IsInjective
<1>6. ASSUME NEW j \in 1 .. Len(s) - 1, NEW k \in 1 .. Len(s) - 1, w[j] = w[k]
      PROVE  j = k
  <2>1. /\ j \in 1 .. Len(s) /\ j + 1 \in 1 .. Len(s) /\ k \in 1 .. Len(s) /\ k + 1 \in 1 .. Len(s)
        /\ j \in Int /\ k \in Int /\ i \in Int
    BY <1>1
  <2>2. /\ w[j] = IF j < i THEN s[j] ELSE s[j + 1]
        /\ w[k] = IF k < i THEN s[k] ELSE s[k + 1]
    BY <1>4
  <2>3. CASE j < i /\ k < i
    BY <1>5, <1>6, <2>1, <2>2, <2>3
  <2>4. CASE j < i /\ ~(k < i)
    <3>1. s[j] = s[k + 1]
      BY <1>6, <2>2, <2>4
    <3>2. j = k + 1
      BY <1>5, <2>1, <3>1
    <3> QED
      BY <2>1, <2>4, <3>2
  <2>5. CASE ~(j < i) /\ k < i
    <3>1. s[j + 1] = s[k]
      BY <1>6, <2>2, <2>5
    <3>2. j + 1 = k
      BY <1>5, <2>1, <3>1
    <3> QED
      BY <2>1, <2>5, <3>2
  <2>6. CASE ~(j < i) /\ ~(k < i)
    <3>1. s[j + 1] = s[k + 1]
      BY <1>6, <2>2, <2>6
    <3>2. j + 1 = k + 1
      BY <1>5, <2>1, <3>1
    <3> QED
      BY <2>1, <3>2
  <2> QED
    BY <2>3, <2>4, <2>5, <2>6
<1>7. ASSUME NEW j \in 1 .. Len(s) - 1 PROVE w[j] \in Range(s) /\ w[j] # s[i]
  <2>1. /\ j \in 1 .. Len(s) /\ j + 1 \in 1 .. Len(s) /\ j \in Int /\ i \in Int
    BY <1>1
  <2>2. w[j] = IF j < i THEN s[j] ELSE s[j + 1]
    BY <1>4
  <2> QED
    BY <1>1, <1>5, <2>1, <2>2 DEF Range
<1>8. ASSUME NEW j \in 1 .. Len(s), s[j] # s[i] PROVE \E k \in 1 .. Len(s) - 1 : w[k] = s[j]
  <2>1. j < i \/ j > i
    BY <1>1, <1>8
  <2>2. CASE j < i
    <3>1. j \in 1 .. Len(s) - 1
      BY <1>1, <2>2
    <3> QED
      BY <1>4, <2>2, <3>1
  <2>3. CASE j > i
    <3>1. j - 1 \in 1 .. Len(s) - 1 /\ ~(j - 1 < i) /\ (j - 1) + 1 = j
      BY <1>1, <2>3
    <3>2. w[j - 1] = s[j]
      BY <1>4, <3>1
    <3> QED
      BY <3>1, <3>2
  <2> QED
    BY <2>1, <2>2, <2>3
<1>9. IsInjective(w)
  BY <1>4, <1>6 DEF IsInjective
<1>10. Range(w) = Range(s) \ {s[i]}
  <2>1. Range(w) \subseteq Range(s) \ {s[i]}
    BY <1>4, <1>7 DEF Range
  <2>2. ASSUME NEW m \in Range(s), m # s[i] PROVE m \in Range(w)
    <3>1. PICK j \in 1 .. Len(s) : m = s[j]
      BY <1>1 DEF Range
    <3> QED
      BY <1>4, <1>8, <2>2, <3>1 DEF Range
  <2> QED
    BY <2>1, <2>2
<1> QED
  BY <1>4, <1>9, <1>10 DEF w

\* notifyLoop is a sequence of rounds, each from what the one before left.
LEMMA NotifyLoopUnfolds ==
  ASSUME NEW x, Len(x.meta.ops) \in Nat
  PROVE  \E f : /\ f[0] = {x}
                /\ \A n \in 1 .. Len(x.meta.ops) : f[n] = {NotifyRound(y) : y \in f[n - 1]}
                /\ notifyLoop(x) = f[Len(x.meta.ops)]
<1> DEFINE L == Len(x.meta.ops)
           Round(S) == {NotifyRound(y) : y \in S}
           Eq(f, k) == f = [n \in 0 .. k |-> IF n = 0 THEN {x} ELSE Round(f[n - 1])]
           T == {k \in 0 .. L : ~ \E f : Eq(f, k)}
<1>1. notifyLoop(x) = (CHOOSE f : Eq(f, L))[L]
  BY DEF notifyLoop
<1> HIDE DEF Round
<1>2. T = {}
  <2>1. SUFFICES ASSUME T # {} PROVE FALSE
    OBVIOUS
  <2>2. T \in SUBSET Nat
    OBVIOUS
  <2>3. PICK k \in T : \A j \in T : k <= j
    <3> HIDE DEF T
    <3> QED
      BY <2>1, <2>2, LeastNat
  <2>4. k \in 0 .. L /\ ~ \E f : Eq(f, k)
    OBVIOUS
  <2>5. k # 0
    <3>1. Eq([n \in 0 .. 0 |-> {x}], 0)
      OBVIOUS
    <3> QED
      BY <2>4, <3>1
  <2>6. k - 1 \in 0 .. L /\ k - 1 \notin T
    <3> HIDE DEF T
    <3> QED
      BY <2>3, <2>4, <2>5
  <2>7. PICK f : Eq(f, k - 1)
    <3> HIDE DEF Eq
    <3> QED
      BY <2>6
  <2> DEFINE g == [n \in 0 .. k |-> IF n = k THEN Round(f[k - 1]) ELSE f[n]]
  <2>8. \A n \in 0 .. k - 1 : f[n] = IF n = 0 THEN {x} ELSE Round(f[n - 1])
    BY <2>7
  <2>9. ASSUME NEW n \in 0 .. k PROVE g[n] = IF n = 0 THEN {x} ELSE Round(g[n - 1])
    <3>1. CASE n = k
      <4>1. g[n] = Round(f[k - 1]) /\ k - 1 \in 0 .. k /\ k - 1 # k /\ g[k - 1] = f[k - 1]
        BY <2>4, <2>5, <3>1
      <4> QED
        BY <2>5, <3>1, <4>1
    <3>2. CASE n # k
      <4>1. n \in 0 .. k - 1 /\ g[n] = f[n]
        BY <2>4, <3>2
      <4>2. n # 0 => n - 1 \in 0 .. k /\ n - 1 # k /\ g[n - 1] = f[n - 1]
        BY <2>4, <4>1
      <4> QED
        BY <2>8, <4>1, <4>2
    <3> QED
      BY <3>1, <3>2
  <2>10. Eq(g, k)
    BY <2>9
  <2> QED
    BY <2>4, <2>10
<1>3. \E f : Eq(f, L)
  <2>1. L \in 0 .. L
    OBVIOUS
  <2> HIDE DEF Eq
  <2> QED
    BY <1>2, <2>1
<1> DEFINE g == CHOOSE f : Eq(f, L)
<1>4. Eq(g, L)
  <2> HIDE DEF Eq
  <2> QED
    BY <1>3
<1> HIDE DEF g
<1>5. g[0] = {x} /\ \A n \in 1 .. L : g[n] = Round(g[n - 1])
  <2>1. 0 \in 0 .. L /\ \A n \in 1 .. L : n \in 0 .. L /\ n # 0
    OBVIOUS
  <2> QED
    BY <1>4, <2>1
<1> QED
  BY <1>1, <1>5, Zenon DEF Round, g

-----------------------------------------------------------------------------
(***************************************************************************)
(* Causal readiness.                                                       *)
(***************************************************************************)

\* An operation that is ready moves its own component of the clock, by one.
LEMMA ReadyMovesOne ==
  ASSUME NEW c \in VC, NEW t \in VC, vc_causally_ready(c, t)
  PROVE  /\ vc_update(c, t) \in VC /\ vc_update(c, t).id = c.id
         /\ \A i \in Procs : vc_update(c, t).vector[i] =
              IF i = t.id THEN c.vector[i] + 1 ELSE c.vector[i]
         /\ Below(t, vc_update(c, t))
<1>1. /\ t.id \in Procs /\ \A i \in Procs : c.vector[i] \in Nat /\ t.vector[i] \in Nat
  BY DEF VC, Vector
<1>2. /\ \A i \in Procs \ {t.id} : t.vector[i] <= c.vector[i]
      /\ t.vector[t.id] = c.vector[t.id] + 1
  BY DEF vc_causally_ready
<1>3. /\ vc_update(c, t) \in VC /\ vc_update(c, t).id = c.id
      /\ \A i \in Procs : vc_update(c, t).vector[i] =
           IF t.vector[i] > c.vector[i] THEN t.vector[i] ELSE c.vector[i]
  BY UpdateIsJoin
<1>4. ASSUME NEW i \in Procs
      PROVE  vc_update(c, t).vector[i] = IF i = t.id THEN c.vector[i] + 1 ELSE c.vector[i]
  BY <1>1, <1>2, <1>3
<1>5. Below(t, vc_update(c, t))
  BY <1>1, <1>2, <1>4 DEF Below
<1> QED
  BY <1>3, <1>4, <1>5

\* An operation that is ready is later than, or concurrent with, all that was
\* applied, and vc_cmp tells which.
LEMMA ReadyIsNew ==
  ASSUME NEW x \in Entry, NEW e, NEW M \in SUBSET Message, NEW m \in M, m.e = e,
         x.done \subseteq M, Counted(x, e), Causal(M),
         vc_causally_ready(x.meta.current, m.t)
  PROVE  NewTo(m, OpsOn(x, e))
<1> DEFINE c == x.meta.current
<1>1. c \in VC /\ m \in Message /\ m.t \in VC /\ m.t.id \in Procs
  BY DEF Entry, Rze, Message, VC
<1>2. \A i \in Procs : c.vector[i] \in Nat /\ m.t.vector[i] \in Nat
  BY <1>1 DEF VC, Vector
<1>3. Own(m) = c.vector[m.t.id] + 1
  BY DEF vc_causally_ready, Own
<1> SUFFICES ASSUME NEW o \in OpsOn(x, e)
             PROVE  /\ o # m /\ ~HappensBefore(m, o)
                    /\ Before(o.t, m.t) <=> HappensBefore(o, m)
                    /\ o.t.id = m.t.id => HappensBefore(o, m)
  BY DEF NewTo
<1>4. o \in M /\ o \in Message /\ o.e = e /\ o.t \in VC /\ o.t.id \in Procs
  BY DEF OpsOn, Message, VC
<1>5. \A i \in Procs : o.t.vector[i] \in Nat /\ o.t.vector[i] <= c.vector[i]
  <2>1. Below(o.t, c)
    BY DEF Counted
  <2> QED
    BY <1>4, <2>1 DEF Below, VC, Vector
<1> HIDE DEF c
<1>6. o.t.vector[m.t.id] < m.t.vector[m.t.id]
  BY <1>1, <1>2, <1>3, <1>5 DEF Own
<1>7. o # m
  BY <1>1, <1>2, <1>6
<1>8. ~Below(m.t, o.t)
  BY <1>1, <1>2, <1>5, <1>6 DEF Below
<1>9. ASSUME o.t.id = m.t.id PROVE Below(o.t, m.t)
  <2>1. Own(o) <= m.t.vector[o.t.id]
    BY <1>1, <1>2, <1>5, <1>6, <1>9 DEF Own
  <2> QED
    BY <1>4, <1>7, <2>1 DEF Causal
<1>10. Before(o.t, m.t) <=> Below(o.t, m.t)
  <2>1. o.t.id # m.t.id \/ Below(o.t, m.t)
    BY <1>9
  <2> QED
    BY <1>1, <1>4, <1>6, <2>1, BeforeIffBelow
<1> QED
  BY <1>7, <1>8, <1>9, <1>10 DEF HappensBefore

\* What the entry of an element satisfies before and after every step of the effect
\* part, also in the middle of notifyLoop: M is what was issued so far.
Local(x, e, M) ==
  /\ x \in Entry /\ IsFiniteSet(x.done)
  /\ x.done \subseteq M /\ Range(x.meta.ops) \subseteq M
  /\ Counted(x, e) /\ Waiting(x, e) /\ Shown(x, e)

\* Applying an operation that is ready, from ops or not.
LEMMA ApplyKeepsLocal ==
  ASSUME NEW x \in Entry, NEW e, NEW M \in SUBSET Message, NEW m \in M, m.e = e,
         x.done \subseteq M, IsFiniteSet(x.done), Counted(x, e), Shown(x, e), Causal(M),
         vc_causally_ready(x.meta.current, m.t)
  PROVE  /\ Apply(x, m) \in Entry /\ Counted(Apply(x, m), e) /\ Shown(Apply(x, m), e)
         /\ Apply(x, m).meta.ops = x.meta.ops
         /\ Apply(x, m).meta.current.id = x.meta.current.id
         /\ Apply(x, m).done = x.done \cup {m} /\ IsFiniteSet(Apply(x, m).done)
<1> DEFINE c == x.meta.current
           y == Apply(x, m)
           d == y.meta.current
<1>1. y \in Entry /\ Counts(x, y, m) /\ Shown(y, e)
  BY ReadyIsNew, ApplyKeepsShown
<1>2. c \in VC /\ m.t \in VC /\ m.t.id \in Procs
  BY DEF Entry, Rze, Message, VC
<1>3. d = vc_update(c, m.t) /\ y.meta.ops = x.meta.ops /\ y.done = x.done \cup {m}
  BY <1>1 DEF Counts
<1> HIDE DEF y
<1>4. OpsOn(y, e) = OpsOn(x, e) \cup {m}
  BY <1>3 DEF OpsOn
<1>5. /\ d \in VC /\ d.id = c.id /\ Below(m.t, d)
      /\ \A i \in Procs : d.vector[i] = IF i = m.t.id THEN c.vector[i] + 1 ELSE c.vector[i]
  <2> HIDE DEF c, d
  <2> QED
    BY <1>2, <1>3, ReadyMovesOne DEF c
<1>6. \A i \in Procs : c.vector[i] \in Nat /\ d.vector[i] \in Nat
  BY <1>2, <1>5 DEF VC, Vector
<1>7. Own(m) = c.vector[m.t.id] + 1
  BY DEF vc_causally_ready, Own
<1> HIDE DEF c, d
<1>8. ASSUME NEW o \in OpsOn(y, e) PROVE Own(o) >= 1 /\ Below(o.t, d)
  <2>1. CASE o = m
    BY <1>2, <1>5, <1>6, <1>7, <2>1
  <2>2. CASE o \in OpsOn(x, e)
    <3>1. Own(o) >= 1 /\ Below(o.t, c) /\ o.t \in VC
      BY <2>2 DEF Counted, c, OpsOn, Message
    <3> QED
      BY <1>5, <1>6, <3>1 DEF Below, VC, Vector
  <2> QED
    BY <1>4, <2>1, <2>2
<1>9. ASSUME NEW i \in Procs, NEW k \in 1 .. d.vector[i]
      PROVE  \E o \in OpsOn(y, e) : o.t.id = i /\ Own(o) = k
  <2>1. CASE i = m.t.id /\ k = c.vector[i] + 1
    BY <1>4, <1>7, <2>1
  <2>2. CASE ~(i = m.t.id /\ k = c.vector[i] + 1)
    <3>1. k \in 1 .. c.vector[i]
      BY <1>5, <1>6, <2>2
    <3>2. \E o \in OpsOn(x, e) : o.t.id = i /\ Own(o) = k
      BY <3>1 DEF Counted, c
    <3> QED
      BY <1>4, <3>2
  <2> QED
    BY <2>1, <2>2
<1>10. Counted(y, e)
  BY <1>8, <1>9 DEF Counted, d
<1>11. IsFiniteSet(y.done)
  BY <1>3, FS_AddElement
<1> QED
  BY <1>1, <1>3, <1>5, <1>10, <1>11 DEF y, c, d

\* y differs from x in ops only.
SameButOps(x, y) ==
  /\ x.done = y.done /\ x.score = y.score /\ x.meta.current = y.meta.current
  /\ x.meta.aset = y.meta.aset /\ x.meta.rset = y.meta.rset /\ x.meta.value = y.meta.value

\* Neither the clock nor what is shown depends on ops.
LEMMA OpsAside ==
  ASSUME NEW x, NEW y, NEW e, SameButOps(x, y), Counted(x, e), Shown(x, e)
  PROVE  Counted(y, e) /\ Shown(y, e)
<1>1. OpsOn(y, e) = OpsOn(x, e)
  BY DEF OpsOn, SameButOps
<1>2. Counted(y, e)
  BY <1>1 DEF Counted, SameButOps
<1>3. SCORE(y.meta) = SCORE(x.meta) /\ (LOOKUP(y.meta) <=> LOOKUP(x.meta))
  BY DEF SCORE, Valued, LOOKUP, SameButOps
<1>4. Shown(y, e)
  BY <1>1, <1>3, Zenon DEF Shown, SameButOps
<1> QED
  BY <1>2, <1>4

LEMMA ReplaceOps ==
  ASSUME NEW x \in Entry, NEW s \in Seq(Message)
  PROVE  /\ [x EXCEPT !.meta.ops = s] \in Entry
         /\ [x EXCEPT !.meta.ops = s].meta.ops = s
         /\ SameButOps(x, [x EXCEPT !.meta.ops = s])
<1> DEFINE y == [x EXCEPT !.meta.ops = s]
<1>1. y = [meta |-> [x.meta EXCEPT !.ops = s], score |-> x.score, done |-> x.done]
  BY DEF Entry
<1>2. /\ [x.meta EXCEPT !.ops = s] \in Rze /\ x.score \in Int \cup {None}
      /\ x.done \in SUBSET Message
  BY DEF Entry, Rze
<1>3. y \in Entry
  <2> HIDE DEF y
  <2> QED
    BY <1>1, <1>2 DEF Entry
<1>4. /\ x.meta \in Rze /\ y.meta = [x.meta EXCEPT !.ops = s] /\ y.score = x.score
      /\ y.done = x.done
  BY <1>1 DEF Entry
<1> HIDE DEF y
<1>5. y.meta.ops = s /\ SameButOps(x, y)
  BY <1>4 DEF Rze, SameButOps
<1> QED
  BY <1>3, <1>5 DEF y

-----------------------------------------------------------------------------
(***************************************************************************)
(* The loop and the effect part.                                           *)
(***************************************************************************)

\* From x to y operations only move from ops to what is applied.
Moved(x, y) ==
  /\ y.meta.current.id = x.meta.current.id
  /\ x.done \subseteq y.done
  /\ y.done \cup Range(y.meta.ops) = x.done \cup Range(x.meta.ops)

\* A round that finds an operation that is ready moves this one.
LEMMA RoundKeepsLocal ==
  ASSUME NEW x, NEW e, NEW M \in SUBSET Message, Causal(M), Local(x, e, M),
         ReadyAt(x.meta) # {}
  PROVE  /\ Local(NotifyRound(x), e, M) /\ Moved(x, NotifyRound(x))
         /\ Len(NotifyRound(x).meta.ops) = Len(x.meta.ops) - 1
<1> DEFINE s == x.meta.ops
           i == CHOOSE j \in ReadyAt(x.meta) : \A k \in ReadyAt(x.meta) : j <= k
           m == s[i]
           z == Apply(x, m)
           u == listDelNode(s, i)
           y == NotifyRound(x)
<1>1. /\ x \in Entry /\ s \in Seq(Message) /\ Len(s) \in Nat /\ DOMAIN s = 1 .. Len(s)
      /\ x.done \subseteq M /\ Range(s) \subseteq M
      /\ IsInjective(s) /\ \A o \in Range(s) : o.e = e /\ o \notin x.done
  BY DEF Local, Entry, Rze, Waiting
<1>2. i \in ReadyAt(x.meta)
  <2>1. ReadyAt(x.meta) \in SUBSET Nat
    BY DEF ReadyAt
  <2>2. \E j \in ReadyAt(x.meta) : \A k \in ReadyAt(x.meta) : j <= k
    BY <2>1, LeastNat
  <2> QED
    BY <2>2
<1> HIDE DEF i
<1>3. i \in 1 .. Len(s) /\ vc_causally_ready(x.meta.current, m.t)
  BY <1>2 DEF ReadyAt
<1>4. m \in Range(s) /\ m \in M /\ m.e = e
  BY <1>1, <1>3 DEF Range
<1>5. y = [z EXCEPT !.meta.ops = u]
  BY DEF NotifyRound, i
<1> HIDE DEF m, s, u
<1>6. /\ z \in Entry /\ Counted(z, e) /\ Shown(z, e) /\ z.meta.ops = s
      /\ z.meta.current.id = x.meta.current.id
      /\ z.done = x.done \cup {m} /\ IsFiniteSet(z.done)
  <2>1. /\ x \in Entry /\ m \in M /\ m.e = e /\ x.done \subseteq M /\ IsFiniteSet(x.done)
        /\ Counted(x, e) /\ Shown(x, e) /\ Causal(M) /\ vc_causally_ready(x.meta.current, m.t)
    BY <1>1, <1>3, <1>4 DEF Local
  <2>2. ASSUME NEW w \in M, w.e = e, vc_causally_ready(x.meta.current, w.t)
        PROVE  /\ Apply(x, w) \in Entry /\ Counted(Apply(x, w), e) /\ Shown(Apply(x, w), e)
               /\ Apply(x, w).meta.ops = x.meta.ops
               /\ Apply(x, w).meta.current.id = x.meta.current.id
               /\ Apply(x, w).done = x.done \cup {w} /\ IsFiniteSet(Apply(x, w).done)
    <3> HIDE DEF z, y
    <3> QED
      BY <2>1, <2>2, ApplyKeepsLocal, Zenon
  <2> QED
    BY <2>1, <2>2, Zenon DEF s
<1>7. /\ u \in Seq(Message) /\ Len(u) = Len(s) - 1 /\ IsInjective(u)
      /\ Range(u) = Range(s) \ {m}
  BY <1>1, <1>3, DeleteFacts DEF u, m
<1> HIDE DEF z
<1>8. /\ y \in Entry /\ Counted(y, e) /\ Shown(y, e)
      /\ y.meta.ops = u /\ y.meta.current = z.meta.current /\ y.done = z.done
  <2>1. y \in Entry /\ y.meta.ops = u /\ SameButOps(z, y)
    <3>1. u \in Seq(Message) /\ z \in Entry
      BY <1>6, <1>7
    <3>2. /\ [z EXCEPT !.meta.ops = u] \in Entry
          /\ [z EXCEPT !.meta.ops = u].meta.ops = u
          /\ SameButOps(z, [z EXCEPT !.meta.ops = u])
      BY <3>1, ReplaceOps, Zenon
    <3> QED
      BY <1>5, <3>2
  <2> QED
    BY <1>6, <2>1, OpsAside DEF SameButOps
<1> HIDE DEF y
<1>9. Waiting(y, e)
  BY <1>1, <1>6, <1>7, <1>8 DEF Waiting
<1>10. Local(y, e, M)
  BY <1>1, <1>4, <1>6, <1>7, <1>8, <1>9 DEF Local
<1>12. Moved(x, y)
  <2>1. y.done \cup Range(y.meta.ops) = x.done \cup Range(x.meta.ops)
    BY <1>4, <1>6, <1>7, <1>8 DEF s
  <2> QED
    BY <1>6, <1>8, <2>1 DEF Moved
<1> QED
  BY <1>7, <1>8, <1>10, <1>12 DEF s, y

\* The loop ends with nothing left that could be applied.
LEMMA LoopKeepsLocal ==
  ASSUME NEW x, NEW e, NEW M \in SUBSET Message, Causal(M), Local(x, e, M)
  PROVE  \E y : /\ notifyLoop(x) = {y}
                /\ Local(y, e, M) /\ Moved(x, y) /\ ReadyAt(y.meta) = {}
<1> DEFINE L == Len(x.meta.ops)
<1>1. L \in Nat
  BY DEF Local, Entry, Rze
<1>2. PICK f : /\ f[0] = {x}
               /\ \A n \in 1 .. L : f[n] = {NotifyRound(y) : y \in f[n - 1]}
               /\ notifyLoop(x) = f[L]
  BY <1>1, NotifyLoopUnfolds, Zenon
<1> DEFINE Good(y, n) == /\ f[n] = {y} /\ Local(y, e, M) /\ Moved(x, y)
                         /\ ReadyAt(y.meta) = {} \/ Len(y.meta.ops) = L - n
           T == {n \in 0 .. L : ~\E y : Good(y, n)}
<1>4. Moved(x, x)
  BY DEF Moved
<1>5. Good(x, 0)
  BY <1>1, <1>2, <1>4
<1>6. ASSUME NEW n \in 1 .. L, NEW y, Good(y, n - 1) PROVE \E z : Good(z, n)
  <2>1. f[n] = {NotifyRound(y)}
    BY <1>2, <1>6
  <2>2. CASE ReadyAt(y.meta) = {}
    <3>1. NotifyRound(y) = y
      BY <2>2 DEF NotifyRound
    <3> QED
      BY <1>6, <2>1, <2>2, <3>1
  <2>3. CASE ReadyAt(y.meta) # {}
    <3> DEFINE z == NotifyRound(y)
    <3>1. /\ Local(z, e, M) /\ Moved(y, z) /\ Len(z.meta.ops) = Len(y.meta.ops) - 1
      BY <1>6, <2>3, RoundKeepsLocal
    <3>2. Len(y.meta.ops) = L - (n - 1)
      BY <1>6, <2>3
    <3> HIDE DEF z
    <3>3. Len(z.meta.ops) = L - n
      BY <1>1, <3>1, <3>2
    <3>4. Moved(x, z)
      BY <1>6, <3>1 DEF Moved
    <3> QED
      BY <2>1, <3>1, <3>3, <3>4 DEF z
  <2> QED
    BY <2>2, <2>3
<1>7. T = {}
  <2> SUFFICES ASSUME T # {} PROVE FALSE
    OBVIOUS
  <2>1. T \in SUBSET Nat
    OBVIOUS
  <2>2. PICK n \in T : \A k \in T : n <= k
    <3> HIDE DEF T
    <3> QED
      BY <2>1, LeastNat
  <2>3. n \in 0 .. L /\ ~\E y : Good(y, n)
    OBVIOUS
  <2> HIDE DEF Good
  <2>4. n # 0
    BY <1>5, <2>3
  <2>5. n \in 1 .. L /\ n - 1 \in 0 .. L /\ n - 1 \notin T
    <3> HIDE DEF T
    <3> QED
      BY <1>1, <2>2, <2>3, <2>4
  <2>6. \E y : Good(y, n - 1)
    BY <2>5
  <2> QED
    BY <1>6, <2>3, <2>5, <2>6
<1>8. PICK y : Good(y, L)
  <2>1. L \in 0 .. L
    BY <1>1
  <2> HIDE DEF Good
  <2> QED
    BY <1>7, <2>1
<1>9. ReadyAt(y.meta) = {}
  <2>1. CASE Len(y.meta.ops) = L - L
    <3>1. 1 .. Len(y.meta.ops) = {}
      BY <1>1, <2>1
    <3> QED
      BY <3>1 DEF ReadyAt
  <2> QED
    BY <1>8, <2>1
<1> QED
  BY <1>2, <1>8, <1>9

\* The effect part of an operation that was not received before.  Either it is
\* applied, with what waited for it, or it waits itself.
LEMMA EffectKeepsLocal ==
  ASSUME NEW x, NEW e, NEW M \in SUBSET Message, Causal(M), Local(x, e, M),
         ReadyAt(x.meta) = {}, NEW m \in M, m.e = e,
         m \notin x.done, m \notin Range(x.meta.ops)
  PROVE  \E y : /\ Effect(x, m) = {y}
                /\ Local(y, e, M) /\ ReadyAt(y.meta) = {}
                /\ y.meta.current.id = x.meta.current.id
                /\ x.done \subseteq y.done
                /\ y.done \cup Range(y.meta.ops) = x.done \cup Range(x.meta.ops) \cup {m}
                /\ vc_causally_ready(x.meta.current, m.t) => m \in y.done
<1> DEFINE s == x.meta.ops
           c == x.meta.current
<1>1. /\ x \in Entry /\ s \in Seq(Message) /\ x.done \subseteq M /\ Range(s) \subseteq M
      /\ Counted(x, e) /\ Shown(x, e) /\ Waiting(x, e) /\ m \in Message
      /\ IsFiniteSet(x.done)
  BY DEF Local, Entry, Rze
<1>2. CASE vc_causally_ready(c, m.t)
  <2> DEFINE z == Apply(x, m)
  <2>1. /\ z \in Entry /\ Counted(z, e) /\ Shown(z, e) /\ z.meta.ops = s
        /\ z.meta.current.id = c.id /\ z.done = x.done \cup {m} /\ IsFiniteSet(z.done)
    <3>1. /\ x \in Entry /\ x.done \subseteq M /\ IsFiniteSet(x.done) /\ Counted(x, e) /\ Shown(x, e)
          /\ m \in M /\ m.e = e /\ Causal(M) /\ vc_causally_ready(x.meta.current, m.t)
      BY <1>1, <1>2, Zenon
    <3>2. /\ Apply(x, m) \in Entry /\ Counted(Apply(x, m), e) /\ Shown(Apply(x, m), e)
          /\ Apply(x, m).meta.ops = x.meta.ops
          /\ Apply(x, m).meta.current.id = x.meta.current.id
          /\ Apply(x, m).done = x.done \cup {m} /\ IsFiniteSet(Apply(x, m).done)
      <4> HIDE DEF z, s, c
      <4> QED
        BY <3>1, ApplyKeepsLocal, Zenon
    <3> QED
      BY <3>2, Zenon
  <2> HIDE DEF z
  <2>2. Local(z, e, M)
    <3>1. Waiting(z, e)
      BY <1>1, <2>1 DEF Waiting
    <3> QED
      BY <1>1, <2>1, <3>1 DEF Local
  <2>3. PICK y : /\ notifyLoop(z) = {y}
                 /\ Local(y, e, M) /\ Moved(z, y) /\ ReadyAt(y.meta) = {}
    BY <2>2, LoopKeepsLocal
  <2>4. Effect(x, m) = {y}
    BY <1>2, <2>3 DEF Effect, z
  <2>6. /\ y.meta.current.id = x.meta.current.id /\ x.done \subseteq y.done /\ m \in y.done
        /\ y.done \cup Range(y.meta.ops) = x.done \cup Range(x.meta.ops) \cup {m}
    BY <2>1, <2>3 DEF Moved
  <2> QED
    BY <2>3, <2>4, <2>6
<1>3. CASE ~vc_causally_ready(c, m.t)
  <2> DEFINE u == Append(s, m)
             y == [x EXCEPT !.meta.ops = u]
  <2>1. /\ u \in Seq(Message) /\ Len(u) = Len(s) + 1 /\ Len(s) \in Nat
        /\ \A i \in 1 .. Len(s) : u[i] = s[i]
        /\ u[Len(s) + 1] = m
    BY <1>1, AppendProperties, LenProperties
  <2>2. Range(u) = Range(s) \cup {m}
    BY <1>1, RangeAppend
  <2>3. IsInjective(u)
    BY <1>1, InjectiveAppend DEF Waiting
  <2>4. Effect(x, m) = {y}
    BY <1>3 DEF Effect
  <2> HIDE DEF u
  <2>5. /\ y \in Entry /\ Counted(y, e) /\ Shown(y, e)
        /\ y.meta.ops = u /\ y.meta.current = c /\ y.done = x.done
    <3>1. y \in Entry /\ y.meta.ops = u /\ SameButOps(x, y)
      BY <1>1, <2>1, ReplaceOps, Zenon
    <3> QED
      BY <1>1, <3>1, OpsAside DEF SameButOps
  <2> HIDE DEF y
  <2>6. Local(y, e, M)
    <3>1. Waiting(y, e)
      BY <1>1, <2>2, <2>3, <2>5 DEF Waiting
    <3> QED
      BY <1>1, <2>2, <2>5, <3>1 DEF Local
  <2>7. ReadyAt(y.meta) = {}
    <3>1. ASSUME NEW i \in 1 .. Len(s) PROVE ~vc_causally_ready(c, s[i].t)
      BY DEF ReadyAt
    <3>2. ASSUME NEW i \in 1 .. Len(u) PROVE ~vc_causally_ready(c, u[i].t)
      BY <1>3, <2>1, <3>1
    <3> QED
      BY <2>5, <3>2 DEF ReadyAt
  <2> QED
    BY <1>3, <2>2, <2>4, <2>5, <2>6, <2>7
<1> QED
  BY <1>2, <1>3

=============================================================================
