---------------------------- MODULE RwRpqResults ----------------------------
(***************************************************************************)
(* What the inductive invariant of the Remove-Win RPQ implies: the         *)
(* properties of RwRpq, for any number of replicas, elements, values and   *)
(* commands.                                                               *)
(***************************************************************************)
EXTENDS RwRpqProofs, FunctionTheorems

\* The provers in the order they are tried; the last ones are for slow machines.
USE SMT, Zenon, SMTT(30), ZenonT(30), SMTT(60)

-----------------------------------------------------------------------------
(***************************************************************************)
(* What the invariant implies.                                             *)
(***************************************************************************)

\* Shown, in terms of the variables.
LEMMA ShownFacts ==
  ASSUME IInv, NEW p \in Procs, NEW e \in Elements
  PROVE  /\ rze[p][e].aset \in SUBSET rz_ase
         /\ \A a, b \in rze[p][e].aset : a.t.id = b.t.id => a = b
         /\ {a.t : a \in rze[p][e].aset} = {m.t : m \in Adds(DoneOn(p, e))}
         /\ rze[p][e].rset = {m.t : m \in Removes(DoneOn(p, e))}
         /\ Scored(rze[p][e].aset, DoneOn(p, e))
         /\ rze[p][e].aset # {} =>
              /\ \E a \in rze[p][e].aset : a.t = rze[p][e].value
              /\ \A a \in rze[p][e].aset : a.t.id <= rze[p][e].value.id
         /\ zset[p][e] = IF LOOKUP(rze[p][e]) THEN SCORE(rze[p][e]) ELSE None
<1> DEFINE x == EntryOf(p, e)
<1>1. x.meta = rze[p][e] /\ x.score = zset[p][e] /\ OpsOn(x, e) = DoneOn(p, e)
  BY DEF EntryOf, OpsOn, DoneOn
<1>2. Shown(x, e)
  BY DEF IInv, Sound
<1>3. rze[p][e].aset \in SUBSET rz_ase
  BY DEF IInv, Types, Rze
<1> HIDE DEF x
<1> QED
  BY <1>1, <1>2, <1>3, Zenon DEF Shown

\* aset and rset against the history, clock by clock.
LEMMA ClocksMatch ==
  ASSUME IInv, NEW p \in Procs, NEW e \in Elements
  PROVE  /\ rze[p][e].aset = {} <=> Adds(DoneOn(p, e)) = {}
         /\ rze[p][e].rset = {} <=> Removes(DoneOn(p, e)) = {}
         /\ \A a \in rze[p][e].aset : \E m \in Adds(DoneOn(p, e)) : m.t = a.t
         /\ \A m \in Adds(DoneOn(p, e)) : \E a \in rze[p][e].aset : a.t = m.t
<1> DEFINE A == rze[p][e].aset
           C == rze[p][e].rset
           M == Adds(DoneOn(p, e))
           R == Removes(DoneOn(p, e))
<1> SUFFICES /\ A = {} <=> M = {}
             /\ C = {} <=> R = {}
             /\ \A a \in A : \E m \in M : m.t = a.t
             /\ \A m \in M : \E a \in A : a.t = m.t
  BY Zenon
<1>1. {a.t : a \in A} = {m.t : m \in M} /\ C = {m.t : m \in R}
  BY ShownFacts, Zenon
<1> HIDE DEF A, C, M, R
<1>2. ASSUME NEW a \in A PROVE \E m \in M : m.t = a.t
  <2>1. a.t \in {m.t : m \in M}
    BY <1>1
  <2> QED
    BY <2>1
<1>3. ASSUME NEW m \in M PROVE \E a \in A : a.t = m.t
  <2>1. m.t \in {a.t : a \in A}
    BY <1>1
  <2> QED
    BY <2>1
<1>4. C = {} <=> R = {}
  <2>1. ASSUME NEW m \in R PROVE m.t \in C
    BY <1>1
  <2>2. ASSUME NEW t \in C PROVE \E m \in R : m.t = t
    BY <1>1
  <2> QED
    BY <2>1, <2>2
<1>5. A = {} <=> M = {}
  BY <1>2, <1>3
<1> QED
  BY <1>2, <1>3, <1>4, <1>5, Zenon

LEMMA TypesHold == IInv => TypeOK
<1> SUFFICES ASSUME IInv PROVE TypeOK
  OBVIOUS
<1>1. ASSUME NEW p \in Procs, NEW e \in Elements
      PROVE  /\ rze[p][e].current \in VC /\ rze[p][e].value \in VC \cup {None}
             /\ \A a \in rze[p][e].aset : a.t \in VC /\ a.x \in Int /\ a.inc \in Int
             /\ \A a, b \in rze[p][e].aset : a.t.id = b.t.id => a = b
             /\ \A c \in rze[p][e].rset : c \in VC
             /\ rze[p][e].ops \in Seq(Message)
  <2>1. rze[p][e] \in Rze
    BY DEF IInv, Types
  <2>2. \A a, b \in rze[p][e].aset : a.t.id = b.t.id => a = b
    BY ShownFacts, Zenon
  <2> QED
    BY <2>1, <2>2 DEF Rze, rz_ase
<1>2. \A p \in Procs : \A m \in done[p] : m \in Message
  BY DEF IInv, Types
<1> QED
  BY <1>1, <1>2 DEF IInv, Types, TypeOK

LEMMA CausalityHolds == IInv => CausalDelivery
<1> SUFFICES ASSUME IInv, NEW p \in Procs, NEW m \in done[p], NEW o \in Issued,
                    o.e = m.e, HappensBefore(o, m)
             PROVE  o \in done[p]
  BY DEF CausalDelivery
<1> DEFINE e == m.e
           c == rze[p][e].current
<1>1. /\ o \in Message /\ m \in Message /\ e \in Elements /\ o.t.id \in Procs
  BY IssuedFacts DEF Message
<1>2. c \in VC
  BY <1>1 DEF IInv, Types, Rze
<1>3. Below(m.t, c)
  BY <1>1, EntryFacts DEF DoneOn
<1>4. Below(o.t, m.t)
  BY DEF HappensBefore
<1>5. \A i \in Procs : o.t.vector[i] \in Nat /\ m.t.vector[i] \in Nat /\ c.vector[i] \in Nat
  BY <1>1, <1>2 DEF Message, VC, Vector
<1>6. Own(o) <= c.vector[o.t.id]
  BY <1>1, <1>3, <1>4, <1>5 DEF Below, Own
<1> QED
  BY <1>6, CountedIsApplied

LEMMA CountsHold == IInv => ClockCountsDone
<1> SUFFICES ASSUME IInv, NEW p \in Procs, NEW i \in Procs, NEW e \in Elements
             PROVE  rze[p][e].current.vector[i]
                      = Cardinality({m \in DoneOn(p, e) : m.t.id = i})
  BY DEF ClockCountsDone
<1> DEFINE B == {m \in DoneOn(p, e) : m.t.id = i}
           n == rze[p][e].current.vector[i]
           f == [k \in 1 .. n |-> CHOOSE m \in B : Own(m) = k]
<1>1. n \in Nat
  BY DEF IInv, Types, Rze, VC, Vector
<1>2. \A m \in B : m \in Issued /\ m \in Message /\ m.e = e /\ m.t.id = i
  BY IssuedFacts DEF DoneOn
<1>3. \A k \in 1 .. n : f[k] \in B /\ Own(f[k]) = k
  <2>1. \A k \in 1 .. n : \E m \in B : Own(m) = k
    BY EntryFacts
  <2> QED
    BY <2>1
<1>4. \A m \in B : Own(m) \in 1 .. n
  <2> SUFFICES ASSUME NEW m \in B PROVE Own(m) \in 1 .. n
    OBVIOUS
  <2>1. Own(m) >= 1 /\ Below(m.t, rze[p][e].current)
    BY EntryFacts
  <2>2. Own(m) = m.t.vector[i] /\ Own(m) \in Nat
    BY <1>2 DEF Own, Message, VC, Vector
  <2> QED
    BY <1>1, <2>1, <2>2 DEF Below
<1>5. \A m \in B : f[Own(m)] = m
  BY <1>2, <1>3, <1>4, OneOpPerNumber
<1>6. f \in [1 .. n -> B]
  BY <1>3
<1>7. \A k, l \in 1 .. n : f[k] = f[l] => k = l
  BY <1>3
<1> HIDE DEF B, n, f
<1>8. f \in Bijection(1 .. n, B)
  BY <1>4, <1>5, <1>6, <1>7, Fun_IsBij
<1>9. ExistsBijection(1 .. n, B)
  BY <1>8 DEF ExistsBijection
<1>10. Cardinality(B) = n
  BY <1>1, <1>9, FS_CountingElements
<1> QED
  BY <1>10 DEF B, n

LEMMA NoneReadyHolds == IInv => NothingReadyWaits
BY EntryFacts DEF NothingReadyWaits

LEMMA RemoveWinsHolds == IInv => RemoveWins
<1> SUFFICES ASSUME IInv, NEW p \in Procs, NEW e \in Elements
             PROVE  zset[p][e] # None <=>
                      Adds(DoneOn(p, e)) # {} /\ Removes(DoneOn(p, e)) = {}
  BY DEF RemoveWins
<1> DEFINE r == rze[p][e]
           D == DoneOn(p, e)
<1>1. r.aset # {} <=> Adds(D) # {}
  BY ClocksMatch, Zenon
<1>2. r.rset = {} <=> Removes(D) = {}
  BY ClocksMatch, Zenon
<1>3. LOOKUP(r) <=> Adds(D) # {} /\ Removes(D) = {}
  BY <1>1, <1>2 DEF LOOKUP
<1>4. zset[p][e] = IF LOOKUP(r) THEN SCORE(r) ELSE None
  BY ShownFacts, Zenon
<1>5. r.aset # {} => SCORE(r) \in Int
  <2>1. r.aset \in SUBSET rz_ase /\ (r.aset # {} => \E a \in r.aset : a.t = r.value)
    BY ShownFacts, Zenon
  <2> HIDE DEF r
  <2> QED
    BY <2>1, ScoreIsInt
<1> QED
  BY <1>1, <1>3, <1>4, <1>5, NoneAssumption

LEMMA SemanticsHolds == IInv => RemoveWinSemantics
<1> SUFFICES ASSUME IInv, NEW p \in Procs, NEW e \in Elements
             PROVE  zset[p][e] = RemoveWinValue(DoneOn(p, e))
  BY DEF RemoveWinSemantics
<1> DEFINE r == rze[p][e]
           D == DoneOn(p, e)
<1>1. r.aset # {} <=> Adds(D) # {}
  BY ClocksMatch, Zenon
<1>2. r.rset = {} <=> Removes(D) = {}
  BY ClocksMatch, Zenon
<1>3. LOOKUP(r) <=> Adds(D) # {} /\ Removes(D) = {}
  BY <1>1, <1>2 DEF LOOKUP
<1>4. zset[p][e] = IF LOOKUP(r) THEN SCORE(r) ELSE None
  BY ShownFacts, Zenon
<1>5. CASE ~(Adds(D) # {} /\ Removes(D) = {})
  BY <1>3, <1>4, <1>5 DEF RemoveWinValue
<1>6. CASE Adds(D) # {} /\ Removes(D) = {}
  <2> DEFINE v == Valued(r)
             T == Adds(D)
             w == CHOOSE a \in T : \A b \in T : b.t.id <= a.t.id
  <2>1. /\ r.aset \in SUBSET rz_ase /\ \E a \in r.aset : a.t = r.value
        /\ \A a \in r.aset : a.t.id <= r.value.id
        /\ \A a, b \in r.aset : a.t.id = b.t.id => a = b
    BY <1>1, <1>6, ShownFacts, Zenon
  <2>2. v \in r.aset /\ v.t = r.value
    <3> HIDE DEF r
    <3> QED
      BY <2>1, ScoreIsInt
  <2>3. PICK m \in T : m.t = v.t
    BY <2>2, ClocksMatch, Zenon
  <2>4. \A b \in T : \E a \in r.aset : a.t = b.t
    BY ClocksMatch, Zenon
  <2>5. \A b \in T : b.t.id <= m.t.id
    BY <2>1, <2>2, <2>3, <2>4
  <2>6. T \in SUBSET Issued /\ \A b \in T : b.e = e /\ b.t.id \in Procs
    BY IssuedFacts DEF Adds, DoneOn
  <2>7. \A b \in T : b.t.id = m.t.id => b = m
    <3> SUFFICES ASSUME NEW b \in T, b.t.id = m.t.id PROVE b = m
      OBVIOUS
    <3>1. b.t = m.t
      BY <2>1, <2>2, <2>3, <2>4
    <3>2. Own(b) = Own(m)
      BY <3>1 DEF Own
    <3> QED
      BY <2>6, <3>2, OneOpPerNumber
  <2>8. w = m
    <3>1. w \in T /\ \A b \in T : b.t.id <= w.t.id
      BY <2>5
    <3>2. w.t.id <= m.t.id /\ m.t.id <= w.t.id /\ w.t.id \in Int /\ m.t.id \in Int
      BY <2>5, <2>6, <3>1 DEF Procs
    <3> QED
      BY <2>7, <3>1, <3>2
  <2>9. v.x = m.v /\ v.inc = Total(Increments(D, m))
    <3>1. Scored(r.aset, D)
      BY ShownFacts, Zenon
    <3> QED
      BY <2>2, <2>3, <3>1 DEF Scored
  <2>10. zset[p][e] = m.v + Total(Increments(D, m))
    BY <1>3, <1>4, <1>6, <2>9 DEF SCORE
  <2>11. RemoveWinValue(D) = w.v + Total(Increments(D, w))
    BY <1>6 DEF RemoveWinValue
  <2> HIDE DEF w, D
  <2> QED
    BY <2>8, <2>10, <2>11 DEF D
<1> QED
  BY <1>5, <1>6

LEMMA NoneWaitsHolds == IInv => NoOpWaitsAtRest
<1> SUFFICES ASSUME IInv, ~InFlight(net), NEW p \in Procs, NEW e \in Elements,
                    rze[p][e].ops # << >>
             PROVE  FALSE
  BY DEF NoOpWaitsAtRest
<1> DEFINE ops     == rze[p][e].ops
           U       == Range(ops)
           c       == rze[p][e].current
           Past(o) == {w \in Issued : w.e = e /\ HappensBefore(w, o)}
           sizes   == {Cardinality(Past(o)) : o \in U}
<1>1. /\ ops \in Seq(Message) /\ c \in VC /\ U # {} /\ U \subseteq Issued
      /\ \A o \in U : o.e = e /\ o \notin done[p]
  <2>1. rze[p][e] \in Rze
    BY DEF IInv, Types
  <2>2. U # {}
    <3>1. ops \in Seq(Message) /\ ops # << >>
      BY <2>1 DEF Rze
    <3> HIDE DEF ops
    <3>2. 1 \in DOMAIN ops
      BY <3>1
    <3> QED
      BY <3>2 DEF Range
  <2> QED
    BY <2>1, <2>2, IssuedFacts, EntryFacts DEF Rze
<1>2. \A o \in Issued : o \in Message /\ o.t \in VC /\ o.t.id \in Procs /\ o \in done[o.t.id]
  BY IssuedFacts DEF Message
<1>3. \A o \in Issued, i \in Procs : o.t.vector[i] \in Nat /\ c.vector[i] \in Nat
  BY <1>1, <1>2 DEF VC, Vector
<1>4. ASSUME NEW w \in Issued, w.e = e, w \notin done[p] PROVE w \in U
  <2>1. net[w.t.id][p] = << >>
    BY <1>2 DEF InFlight
  <2>2. Range(net[w.t.id][p]) = {}
    BY <2>1 DEF Range
  <2> QED
    BY <1>4, <2>2 DEF IInv, Delivered
<1>5. ASSUME NEW o \in Issued, o.e = e
      PROVE  IsFiniteSet(Past(o)) /\ Cardinality(Past(o)) \in Nat
  <2>1. IsFiniteSet(done[o.t.id])
    BY <1>2 DEF IInv, Types
  <2>2. Past(o) \in SUBSET done[o.t.id]
    BY <1>2, <1>5, CausalityHolds DEF CausalDelivery
  <2> QED
    BY <2>1, <2>2, FS_Subset, FS_CardinalityType
<1>6. PICK o \in U : \A w \in U : Cardinality(Past(o)) <= Cardinality(Past(w))
  <2>1. sizes \in SUBSET Nat /\ sizes # {}
    BY <1>1, <1>5
  <2>2. PICK n \in sizes : \A k \in sizes : n <= k
    BY <2>1, LeastNat
  <2> QED
    BY <2>2
<1>7. ASSUME NEW w \in Past(o) PROVE w \in done[p]
  <2> SUFFICES ASSUME w \in U PROVE FALSE
    BY <1>4
  <2>1. /\ w \in Issued /\ o \in Issued /\ w.e = e /\ o.e = e /\ w # o
        /\ w.t.id \in Procs /\ o.t.id \in Procs /\ Below(w.t, o.t)
    BY <1>1, <1>2 DEF HappensBefore
  <2>2. w.t.vector[o.t.id] < Own(o)
    BY <2>1 DEF IInv, Causal, Own, Below
  <2>3. o \notin Past(w)
    BY <1>3, <2>1, <2>2 DEF HappensBefore, Below, Own
  <2>4. Past(w) \subseteq Past(o)
    <3> SUFFICES ASSUME NEW v \in Past(w) PROVE v \in Past(o)
      OBVIOUS
    <3>1. v # o
      BY <2>3
    <3>2. Below(v.t, o.t)
      <4> SUFFICES ASSUME NEW i \in Procs PROVE v.t.vector[i] <= o.t.vector[i]
        BY DEF Below
      <4>1. v \in Issued /\ Below(v.t, w.t)
        BY DEF HappensBefore
      <4>2. v.t.vector[i] <= w.t.vector[i] /\ w.t.vector[i] <= o.t.vector[i]
        BY <2>1, <4>1 DEF Below
      <4>3. v.t.vector[i] \in Nat /\ w.t.vector[i] \in Nat /\ o.t.vector[i] \in Nat
        BY <1>3, <2>1, <4>1
      <4> QED
        BY <4>2, <4>3
    <3> QED
      BY <3>1, <3>2 DEF HappensBefore
  <2>5. w \notin Past(w)
    BY DEF HappensBefore
  <2> HIDE DEF Past
  <2>6. Cardinality(Past(w)) <= Cardinality(Past(o)) /\ Past(w) # Past(o)
    BY <1>5, <2>1, <2>4, <2>5, FS_Subset
  <2>7. Cardinality(Past(w)) # Cardinality(Past(o))
    BY <1>5, <2>1, <2>4, <2>6, FS_Subset
  <2> QED
    BY <1>5, <1>6, <2>1, <2>6, <2>7
<1>8. ASSUME NEW i \in Procs, NEW k \in Nat, k <= o.t.vector[i], i = o.t.id => k < Own(o)
      PROVE  k <= c.vector[i]
  <2> SUFFICES ASSUME k # 0 PROVE k <= c.vector[i]
    BY <1>1, <1>3
  <2> DEFINE q == o.t.id
             d == rze[q][e].current
  <2>1. o \in DoneOn(q, e) /\ q \in Procs /\ o \in Issued
    BY <1>1, <1>2 DEF DoneOn
  <2>2. o.t.vector[i] <= d.vector[i]
    BY <2>1, EntryFacts DEF Below
  <2>3. d.vector[i] \in Nat
    BY <2>1 DEF IInv, Types, Rze, VC, Vector
  <2>4. k \in 1 .. d.vector[i]
    <3> DEFINE a == o.t.vector[i]
               b == d.vector[i]
    <3>1. a \in Nat /\ k <= a
      BY <1>3, <1>8, <2>1
    <3>2. a <= b /\ b \in Nat
      BY <2>2, <2>3
    <3> HIDE DEF a, b
    <3>3. k \in 1 .. b
      BY <3>1, <3>2
    <3> QED
      BY <3>3 DEF b
  <2>5. PICK w \in DoneOn(q, e) : w.t.id = i /\ Own(w) = k
    BY <2>1, <2>4, EntryFacts
  <2>6. w \in Issued /\ w.e = e /\ o.e = e
    BY <1>1, <2>1, <2>5, IssuedFacts DEF DoneOn
  <2>7. w # o
    BY <1>3, <1>8, <2>1, <2>5
  <2>8. Below(w.t, o.t)
    BY <1>8, <2>1, <2>5, <2>6, <2>7 DEF IInv, Causal
  <2>9. w \in done[p]
    BY <1>7, <2>6, <2>7, <2>8 DEF HappensBefore
  <2>10. Below(w.t, c)
    BY <2>6, <2>9, EntryFacts DEF DoneOn
  <2> QED
    BY <2>5, <2>10 DEF Below, Own
<1>9. vc_causally_ready(c, o.t)
  <2>1. o \in Issued /\ o.t.id \in Procs /\ o.e = e /\ o \notin done[p]
    BY <1>1, <1>2
  <2>2. \A i \in Procs \ {o.t.id} : o.t.vector[i] <= c.vector[i]
    BY <1>3, <1>8, <2>1
  <2>3. Own(o) \in Nat /\ Own(o) >= 1 /\ Own(o) = o.t.vector[o.t.id]
    BY <1>2, <1>3, <2>1, EntryFacts DEF DoneOn, Own
  <2>4. Own(o) - 1 <= c.vector[o.t.id]
    <3>1. Own(o) - 1 \in Nat /\ Own(o) - 1 < Own(o) /\ Own(o) - 1 <= o.t.vector[o.t.id]
      BY <2>3
    <3> QED
      BY <1>8, <2>1, <3>1
  <2>5. ~(Own(o) <= c.vector[o.t.id])
    BY <2>1, CountedIsApplied
  <2>6. o.t.vector[o.t.id] = c.vector[o.t.id] + 1
    <3>1. c.vector[o.t.id] \in Nat
      BY <1>3, <2>1
    <3> QED
      BY <2>3, <2>4, <2>5, <3>1
  <2> QED
    BY <2>2, <2>6 DEF vc_causally_ready
<1>10. PICK i \in 1 .. Len(ops) : ops[i] = o
  BY <1>1, <1>6 DEF Range
<1> QED
  BY <1>9, <1>10, EntryFacts DEF ReadyAt

LEMMA AlikeHolds == IInv => AlikeAtRest
<1> SUFFICES ASSUME IInv, ~InFlight(net), NEW p \in Procs, NEW q \in Procs
             PROVE  /\ \A e \in Elements : rzscoreCommand(p, e) = rzscoreCommand(q, e)
                    /\ rzmaxCommand(p) = rzmaxCommand(q)
  BY DEF AlikeAtRest, AnswersAlike
<1>1. ASSUME NEW i \in Procs PROVE done[i] = Issued
  <2>1. done[i] \subseteq Issued
    BY <1>1, IssuedFacts
  <2>2. ASSUME NEW m \in Issued PROVE m \in done[i]
    <3>1. m.t.id \in Procs /\ m.e \in Elements
      BY IssuedFacts DEF Message
    <3>2. net[m.t.id][i] = << >> /\ rze[i][m.e].ops = << >>
      BY <1>1, <3>1, NoneWaitsHolds DEF InFlight, NoOpWaitsAtRest
    <3>3. m \notin Range(net[m.t.id][i]) /\ m \notin Range(rze[i][m.e].ops)
      BY <3>2 DEF Range
    <3> QED
      BY <1>1, <3>3 DEF IInv, Delivered
  <2> QED
    BY <2>1, <2>2
<1>2. ASSUME NEW e \in Elements PROVE zset[p][e] = zset[q][e]
  <2>1. DoneOn(p, e) = DoneOn(q, e)
    BY <1>1 DEF DoneOn
  <2> QED
    BY <2>1, SemanticsHolds DEF RemoveWinSemantics
<1>3. zset[p] \in [Elements -> Int \cup {None}] /\ zset[q] \in [Elements -> Int \cup {None}]
  BY DEF IInv, Types
<1>4. zset[p] = zset[q]
  BY <1>2, <1>3
<1> QED
  BY <1>4 DEF rzscoreCommand, rzmaxCommand

\* Types: clocks are vectors over the replicas, aset has at most one entry per
\* replica, and the streams and ops carry operations.
THEOREM TypeCorrectness == Spec => []TypeOK
  BY Invariance, TypesHold, PTL

\* Each clock counts the applied operations of each replica: no operation is counted
\* twice or skipped.
THEOREM ClocksCount == Spec => []ClockCountsDone
  BY Invariance, CountsHold, PTL

\* Operations are applied in causal order although the streams do not deliver them so.
THEOREM DeliveryIsCausal == Spec => []CausalDelivery
  BY Invariance, CausalityHolds, PTL

\* notifyLoop applies everything in ops that can be applied.
THEOREM LoopLeavesNothingReady == Spec => []NothingReadyWaits
  BY Invariance, NoneReadyHolds, PTL

\* No operation is stuck in ops once the streams are empty.
THEOREM NothingIsStuck == Spec => []NoOpWaitsAtRest
  BY Invariance, NoneWaitsHolds, PTL

\* A remove wins over every add it does not know of.
THEOREM RemovesWin == Spec => []RemoveWins
  BY Invariance, RemoveWinsHolds, PTL

\* The score a replica shows is the one the set of applied operations defines, in
\* whatever order they were applied: strong eventual consistency.
THEOREM ScoresFollowHistory == Spec => []RemoveWinSemantics
  BY Invariance, SemanticsHolds, PTL

\* With nothing in flight all replicas answer RZSCORE and RZMAX alike.
THEOREM ReplicasConverge == Spec => []AlikeAtRest
  BY Invariance, AlikeHolds, PTL
=============================================================================
