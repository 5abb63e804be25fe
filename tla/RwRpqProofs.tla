---------------------------- MODULE RwRpqProofs -----------------------------
(***************************************************************************)
(* The inductive invariant IInv of the Remove-Win RPQ, for any number of   *)
(* replicas, elements, values and commands: it holds initially and         *)
(* executing an operation anywhere preserves it.                           *)
(***************************************************************************)
EXTENDS RwRpqEffect

\* The provers in the order they are tried; the last ones are for slow machines.
USE SMT, Zenon, SMTT(30), ZenonT(30), SMTT(60)

-----------------------------------------------------------------------------
(***************************************************************************)
(* Executing an operation at a replica.                                    *)
(***************************************************************************)

\* Of the entries of a replica, only the one of the operation's element notices it.
LEMMA OtherElement ==
  ASSUME NEW x, NEW z, NEW e, z.meta = x.meta, z.score = x.score,
         OpsOn(z, e) = OpsOn(x, e), Sound(x, e)
  PROVE  Sound(z, e)
<1>1. Counted(z, e) /\ Shown(z, e) /\ ReadyAt(z.meta) = {}
  <2>1. Counted(x, e) /\ Shown(x, e) /\ ReadyAt(x.meta) = {}
    BY DEF Sound
  <2>2. Counted(z, e)
    BY <2>1 DEF Counted
  <2>3. Shown(z, e)
    BY <2>1, Zenon DEF Shown
  <2> QED
    BY <2>1, <2>2, <2>3
<1>2. Waiting(z, e)
  BY DEF Sound, Waiting, OpsOn
<1> QED
  BY <1>1, <1>2 DEF Sound

\* What was issued is a message and was applied where it was issued.
LEMMA IssuedFacts ==
  ASSUME IInv
  PROVE  /\ Issued \in SUBSET Message
         /\ \A o \in Issued : o.t.id \in Procs /\ o \in done[o.t.id]
         /\ \A p \in Procs : done[p] \subseteq Issued
         /\ \A p \in Procs, e \in Elements : Range(rze[p][e].ops) \subseteq Issued
         /\ \A p, q \in Procs : Range(net[p][q]) \subseteq Issued
<1>1. /\ done \in [Procs -> SUBSET Message]
      /\ rze \in [Procs -> [Elements -> Rze]]
      /\ net \in [Procs -> [Procs -> Seq(Message)]]
  BY DEF IInv, Types, Network
<1>2. \A m \in Message : m.t.id \in Procs
  BY DEF Message, VC
<1>3. ASSUME NEW p \in Procs, NEW e \in Elements PROVE Range(rze[p][e].ops) \subseteq Message
  BY <1>1 DEF Rze, Range
<1>4. ASSUME NEW p \in Procs, NEW q \in Procs PROVE Range(net[p][q]) \subseteq Message
  BY <1>1 DEF Range
<1>5. /\ Issued \in SUBSET Message
      /\ \A o \in Issued : o.t.id \in Procs /\ o \in done[o.t.id]
      /\ \A p \in Procs : done[p] \subseteq Issued
  BY <1>1, <1>2 DEF Issued, IInv, Delivered
<1>6. \A p \in Procs, e \in Elements : Range(rze[p][e].ops) \subseteq Issued
  BY <1>2, <1>3, <1>5 DEF IInv, Delivered
<1>7. \A p, q \in Procs : Range(net[p][q]) \subseteq Issued
  BY <1>2, <1>4, <1>5 DEF IInv, Delivered
<1> QED
  BY <1>5, <1>6, <1>7

\* Soundness in terms of the variables.
LEMMA EntryFacts ==
  ASSUME IInv, NEW p \in Procs, NEW e \in Elements
  PROVE  /\ \A m \in DoneOn(p, e) : Own(m) >= 1 /\ Below(m.t, rze[p][e].current)
         /\ \A i \in Procs : \A k \in 1 .. rze[p][e].current.vector[i] :
              \E m \in DoneOn(p, e) : m.t.id = i /\ Own(m) = k
         /\ IsInjective(rze[p][e].ops)
         /\ \A m \in Range(rze[p][e].ops) : m.e = e /\ m \notin done[p]
         /\ ReadyAt(rze[p][e]) = {}
<1> DEFINE x == EntryOf(p, e)
<1>1. x.meta = rze[p][e] /\ x.done = done[p]
  BY DEF EntryOf
<1>2. Counted(x, e) /\ Waiting(x, e) /\ ReadyAt(x.meta) = {}
  BY DEF IInv, Sound
<1> HIDE DEF x
<1>3. OpsOn(x, e) = DoneOn(p, e)
  BY <1>1 DEF OpsOn, DoneOn
<1> QED
  BY <1>1, <1>2, <1>3 DEF Counted, Waiting

\* The effect of executing m at q, without net: every entry is sound again, and m
\* and what waited for it are applied or wait.
Executed(q, m) ==
  /\ rze' \in [Procs -> [Elements -> Rze]]
  /\ zset' \in [Procs -> [Elements -> Int \cup {None}]]
  /\ done' \in [Procs -> SUBSET Message]
  /\ \A p \in Procs, e \in Elements : rze'[p][e].current.id = p
  /\ \A p \in Procs : IsFiniteSet(done'[p])
  /\ \A p \in Procs, e \in Elements :
       Sound([meta |-> rze'[p][e], score |-> zset'[p][e], done |-> done'[p]], e)
  /\ \A p \in Procs : p # q => rze'[p] = rze[p] /\ done'[p] = done[p]
  /\ done[q] \subseteq done'[q]
  /\ \A e \in Elements : e # m.e => rze'[q][e] = rze[q][e]
  /\ done'[q] \cup Range(rze'[q][m.e].ops) = done[q] \cup Range(rze[q][m.e].ops) \cup {m}
  /\ vc_causally_ready(rze[q][m.e].current, m.t) => m \in done'[q]

LEMMA ExecuteFacts ==
  ASSUME IInv, NEW q \in Procs, NEW m \in Message, Causal(Issued \cup {m}),
         m \notin done[q], m \notin Range(rze[q][m.e].ops), Execute(q, m)
  PROVE  Executed(q, m)
<1> DEFINE M == Issued \cup {m}
           e == m.e
           x == EntryOf(q, e)
<1>1. /\ rze \in [Procs -> [Elements -> Rze]]
      /\ zset \in [Procs -> [Elements -> Int \cup {None}]]
      /\ done \in [Procs -> SUBSET Message]
      /\ \A p \in Procs, f \in Elements : rze[p][f].current.id = p
      /\ \A p \in Procs : IsFiniteSet(done[p])
      /\ \A p \in Procs, f \in Elements : Sound(EntryOf(p, f), f)
      /\ e \in Elements
  BY DEF IInv, Types, Message
<1>2. /\ x.meta = rze[q][e] /\ x.score = zset[q][e] /\ x.done = done[q]
      /\ x.meta \in Rze /\ x.score \in Int \cup {None} /\ x.done \in SUBSET Message
      /\ x \in Entry
  BY <1>1 DEF EntryOf, Entry
<1>3. M \in SUBSET Message /\ m \in M
  BY IssuedFacts
<1>4. Local(x, e, M) /\ ReadyAt(x.meta) = {}
  <2>1. Sound(x, e)
    BY <1>1
  <2>2. x.done \subseteq M /\ Range(x.meta.ops) \subseteq M
    BY <1>1, <1>2, IssuedFacts
  <2> QED
    BY <1>1, <1>2, <2>1, <2>2 DEF Local, Sound
<1>5. Causal(M)
  OBVIOUS
<1>6. /\ m \notin x.done /\ m \notin Range(x.meta.ops) /\ m.e = e
  BY <1>2
<1> HIDE DEF M
<1>7. PICK y : /\ Effect(x, m) = {y}
               /\ Local(y, e, M) /\ ReadyAt(y.meta) = {}
               /\ y.meta.current.id = x.meta.current.id
               /\ x.done \subseteq y.done
               /\ y.done \cup Range(y.meta.ops) = x.done \cup Range(x.meta.ops) \cup {m}
               /\ vc_causally_ready(x.meta.current, m.t) => m \in y.done
  <2> HIDE DEF x, e
  <2> QED
    BY <1>3, <1>4, <1>5, <1>6, EffectKeepsLocal, Zenon
<1>8. /\ rze'  = [rze  EXCEPT ![q][e] = y.meta]
      /\ zset' = [zset EXCEPT ![q][e] = y.score]
      /\ done' = [done EXCEPT ![q] = y.done]
  BY <1>7 DEF Execute
<1>9. /\ y.meta \in Rze /\ y.score \in Int \cup {None} /\ y.done \in SUBSET Message
      /\ y = [meta |-> y.meta, score |-> y.score, done |-> y.done]
      /\ Sound(y, e) /\ IsFiniteSet(y.done)
  BY <1>7 DEF Local, Entry, Sound
<1> HIDE DEF x
<1>10. /\ rze' \in [Procs -> [Elements -> Rze]]
       /\ zset' \in [Procs -> [Elements -> Int \cup {None}]]
       /\ done' \in [Procs -> SUBSET Message]
  BY <1>1, <1>8, <1>9
<1>11. /\ rze'[q][e] = y.meta /\ zset'[q][e] = y.score /\ done'[q] = y.done
       /\ \A f \in Elements : f # e => rze'[q][f] = rze[q][f] /\ zset'[q][f] = zset[q][f]
       /\ \A p \in Procs : p # q => rze'[p] = rze[p] /\ zset'[p] = zset[p] /\ done'[p] = done[p]
  BY <1>1, <1>8
<1> HIDE DEF e
<1>12. ASSUME NEW p \in Procs, NEW f \in Elements PROVE rze'[p][f].current.id = p
  <2>1. CASE p = q /\ f = e
    BY <1>1, <1>2, <1>7, <1>11, <2>1
  <2>2. CASE ~(p = q /\ f = e)
    BY <1>1, <1>11, <2>2
  <2> QED
    BY <2>1, <2>2
<1>13. \A p \in Procs : IsFiniteSet(done'[p])
  BY <1>1, <1>9, <1>11
<1>14. ASSUME NEW p \in Procs, NEW f \in Elements
       PROVE  Sound([meta |-> rze'[p][f], score |-> zset'[p][f], done |-> done'[p]], f)
  <2>1. CASE p = q /\ f = e
    BY <1>9, <1>11, <2>1
  <2>2. CASE p # q
    BY <1>1, <1>11, <2>2 DEF EntryOf
  <2>3. CASE p = q /\ f # e
    <3> DEFINE u == EntryOf(p, f)
               z == [meta |-> rze'[p][f], score |-> zset'[p][f], done |-> done'[p]]
    <3>1. z.meta = u.meta /\ z.score = u.score
      BY <1>11, <2>3 DEF EntryOf
    <3>2. u.done = done[q] /\ z.done = y.done
      BY <1>11, <2>3 DEF EntryOf
    <3>3. \A o \in y.done : o \in done[q] \/ o.e = e
      BY <1>2, <1>4, <1>6, <1>7 DEF Local, Waiting
    <3> HIDE DEF u, z
    <3>4. OpsOn(z, f) = OpsOn(u, f)
      BY <1>2, <1>7, <2>3, <3>2, <3>3 DEF OpsOn
    <3>5. Sound(u, f)
      BY <1>1 DEF u
    <3>6. Sound(z, f)
      BY <3>1, <3>4, <3>5, OtherElement
    <3> QED
      BY <3>6 DEF z
  <2> QED
    BY <2>1, <2>2, <2>3
<1> QED
  BY <1>2, <1>7, <1>10, <1>11, <1>12, <1>13, <1>14 DEF Executed, e

\* What the other replicas have yet to receive.  m was executed at q: it came from a
\* stream to q, or q issued it and sent it to the others.
LEMMA DeliveredStep ==
  ASSUME IInv, NEW q \in Procs, NEW m \in Message, Executed(q, m),
         net' \in Network(Message), \A p \in Procs : net'[p][p] = << >>,
         \A a, b \in Procs : IsInjective(net'[a][b]),
         \A a \in Procs : Range(net'[a][q]) = Range(net[a][q]) \ {m},
         \/ /\ m \in Issued
            /\ \A a, b \in Procs : b # q => net'[a][b] = net[a][b]
         \/ /\ m \notin Issued /\ m.t.id = q /\ m \in done'[q]
            /\ \A a, b \in Procs : b # q => Range(net'[a][b]) =
                 Range(net[a][b]) \cup (IF a = q THEN {m} ELSE {})
  PROVE  Delivered' /\ Issued' = Issued \cup {m}
<1> DEFINE e == m.e
<1>1. /\ Issued \in SUBSET Message
      /\ \A o \in Issued : o.t.id \in Procs /\ o \in done[o.t.id] /\ o.e \in Elements
      /\ \A p \in Procs : done[p] \subseteq Issued
      /\ \A p \in Procs, f \in Elements : Range(rze[p][f].ops) \subseteq Issued
      /\ \A a, b \in Procs : Range(net[a][b]) \subseteq Issued
  <2>1. \A o \in Message : o.e \in Elements
    BY DEF Message
  <2> QED
    BY <2>1, IssuedFacts
<1>2. /\ \A p \in Procs : p # q => rze'[p] = rze[p] /\ done'[p] = done[p]
      /\ done[q] \subseteq done'[q]
      /\ \A f \in Elements : f # e => rze'[q][f] = rze[q][f]
      /\ done'[q] \cup Range(rze'[q][e].ops) = done[q] \cup Range(rze[q][e].ops) \cup {m}
      /\ e \in Elements
  BY DEF Executed, Message
<1>3. \A p \in Procs, f \in Elements : \A o \in Range(rze[p][f].ops) : o.e = f
  BY EntryFacts
<1>4. \A p \in Procs : done[p] \subseteq done'[p]
  BY <1>2
<1>5. m \in Issued \/ (m.t.id = q /\ m \in done'[q])
  OBVIOUS
<1>6. \A o \in Issued \cup {m} : o.t.id \in Procs /\ o \in done'[o.t.id]
  BY <1>1, <1>4, <1>5
<1>7. \A p \in Procs : done'[p] \subseteq Issued \cup {m}
  BY <1>1, <1>2
<1>8. Issued' = Issued \cup {m}
  <2>1. Issued' \subseteq Issued \cup {m}
    BY <1>7 DEF Issued
  <2>2. ASSUME NEW o \in Issued \cup {m} PROVE o \in Issued'
    <3>1. o.t.id \in Procs /\ o \in done'[o.t.id]
      BY <1>6
    <3> QED
      BY <3>1 DEF Issued
  <2> QED
    BY <2>1, <2>2
<1>9. ASSUME NEW p \in Procs, NEW f \in Elements
      PROVE  Range(rze'[p][f].ops) \subseteq Issued \cup {m}
  <2>1. CASE p = q /\ f = e
    BY <1>1, <1>2, <2>1
  <2>2. CASE ~(p = q /\ f = e)
    BY <1>1, <1>2, <2>2
  <2> QED
    BY <2>1, <2>2
\* Whatever q has not received is neither applied nor waiting there.
<1>10. ASSUME NEW o \in Issued, o # m, o \notin done[q], o \notin Range(rze[q][o.e].ops)
       PROVE  o \notin done'[q] /\ o \notin Range(rze'[q][o.e].ops)
  <2>1. o.e \in Elements
    BY <1>1
  <2>2. CASE o.e = e
    BY <1>2, <1>10, <2>2
  <2>3. CASE o.e # e
    BY <1>2, <1>3, <1>10, <2>1, <2>3
  <2> QED
    BY <2>2, <2>3
<1>11. \A a, b \in Procs : \A o \in Range(net[a][b]) :
         o.t.id = a /\ o \in done[a] /\ o \notin done[b] /\ o \notin Range(rze[b][o.e].ops)
  BY DEF IInv, Delivered
<1>12. ASSUME NEW a \in Procs, NEW b \in Procs, NEW o \in Range(net'[a][b])
       PROVE  o.t.id = a /\ o \in done'[a] /\ o \notin done'[b] /\ o \notin Range(rze'[b][o.e].ops)
  <2>1. CASE b = q
    <3>1. o \in Range(net[a][q]) /\ o # m
      BY <2>1
    <3> QED
      BY <1>1, <1>4, <1>10, <1>11, <2>1, <3>1
  <2>2. CASE b # q /\ o \in Range(net[a][b])
    BY <1>1, <1>2, <1>4, <1>11, <2>2
  <2>3. CASE b # q /\ o \notin Range(net[a][b])
    <3>1. o = m /\ a = q /\ m \notin Issued /\ m.t.id = q /\ m \in done'[q]
      BY <2>3
    <3> QED
      BY <1>1, <1>2, <2>3, <3>1
  <2> QED
    BY <2>1, <2>2, <2>3
<1>13. ASSUME NEW o \in Issued \cup {m}, NEW r \in Procs
       PROVE  \/ o \in done'[r] \/ o \in Range(net'[o.t.id][r]) \/ o \in Range(rze'[r][o.e].ops)
  <2>1. CASE o \in Issued
    <3>1. /\ o.t.id \in Procs /\ o.e \in Elements
          /\ o \in done[r] \/ o \in Range(net[o.t.id][r]) \/ o \in Range(rze[r][o.e].ops)
      BY <1>1, <2>1 DEF IInv, Delivered
    <3>2. CASE r # q
      <4>1. Range(net[o.t.id][r]) \subseteq Range(net'[o.t.id][r])
        <5> DEFINE a == o.t.id
        <5>1. \/ net'[a][r] = net[a][r]
              \/ Range(net'[a][r]) = Range(net[a][r]) \cup (IF a = q THEN {m} ELSE {})
          BY <3>1, <3>2
        <5> QED
          BY <5>1
      <4> QED
        BY <1>2, <3>1, <3>2, <4>1
    <3>3. CASE r = q /\ o = m
      BY <1>2, <3>3
    <3>4. CASE r = q /\ o # m /\ o.e = e
      BY <1>2, <3>1, <3>4
    <3>5. CASE r = q /\ o # m /\ o.e # e
      BY <1>2, <3>1, <3>5
    <3> QED
      BY <3>2, <3>3, <3>4, <3>5
  <2>2. CASE o = m /\ m \notin Issued
    <3>1. CASE r = q
      BY <2>2, <3>1
    <3>2. CASE r # q
      BY <2>2, <3>2
    <3> QED
      BY <3>1, <3>2
  <2> QED
    BY <2>1, <2>2
<1>14. \A p \in Procs : \A o \in done'[p] : o \in done'[o.t.id]
  BY <1>6, <1>7
<1>15. \A p \in Procs, f \in Elements : \A o \in Range(rze'[p][f].ops) : o \in done'[o.t.id]
  BY <1>6, <1>9
<1>16. Delivered'
  BY <1>8, <1>12, <1>13, <1>14, <1>15 DEF Delivered
<1> QED
  BY <1>8, <1>16

-----------------------------------------------------------------------------
(***************************************************************************)
(* Issuing an operation.                                                   *)
(***************************************************************************)

\* A replica numbers its operations on an element without repetition.
LEMMA OneOpPerNumber ==
  ASSUME IInv, NEW o \in Issued, NEW m \in Issued,
         o.e = m.e, o.t.id = m.t.id, Own(o) = Own(m)
  PROVE  o = m
<1> SUFFICES ASSUME o # m PROVE FALSE
  OBVIOUS
<1>1. Own(o) \in Nat /\ m.t.vector[o.t.id] = Own(m) /\ o.t.vector[m.t.id] = Own(o)
  BY IssuedFacts DEF Own, Message, VC, Vector
<1>2. Own(o) <= m.t.vector[o.t.id]
  BY <1>1
<1>3. o.t.vector[m.t.id] < Own(m)
  BY <1>2 DEF IInv, Causal
<1> QED
  BY <1>1, <1>3

\* What the clock of an element counts has been applied.
LEMMA CountedIsApplied ==
  ASSUME IInv, NEW p \in Procs, NEW o \in Issued,
         Own(o) <= rze[p][o.e].current.vector[o.t.id]
  PROVE  o \in done[p] /\ Below(o.t, rze[p][o.e].current)
<1> DEFINE e == o.e
           c == rze[p][e].current
<1>1. o \in Message /\ e \in Elements /\ o.t.id \in Procs /\ o \in done[o.t.id]
  BY IssuedFacts DEF Message
<1>2. Own(o) \in Nat /\ Own(o) >= 1
  <2>1. o \in DoneOn(o.t.id, e)
    BY <1>1 DEF DoneOn
  <2> QED
    BY <1>1, <2>1, EntryFacts DEF Own, Message, VC, Vector
<1>3. c.vector[o.t.id] \in Nat
  BY <1>1 DEF IInv, Types, Rze, VC, Vector
<1>4. PICK m \in DoneOn(p, e) : m.t.id = o.t.id /\ Own(m) = Own(o)
  BY <1>1, <1>2, <1>3, EntryFacts
<1>5. m \in Issued /\ m.e = e /\ m \in done[p]
  BY <1>4, IssuedFacts DEF DoneOn
<1>6. m = o
  BY <1>4, <1>5, OneOpPerNumber
<1>7. Below(o.t, c)
  BY <1>1, <1>4, <1>6, EntryFacts
<1> QED
  BY <1>5, <1>6, <1>7

\* No other replica knows of more operations of p than p does.
LEMMA NobodyAhead ==
  ASSUME IInv, NEW p \in Procs, NEW o \in Issued
  PROVE  o.t.vector[p] <= rze[p][o.e].current.vector[p]
<1> DEFINE e == o.e
           i == o.t.id
           c == rze[p][e].current
           d == rze[i][e].current
<1>1. o \in Message /\ e \in Elements /\ i \in Procs /\ o \in done[i]
  BY IssuedFacts DEF Message
<1>2. /\ c.vector[p] \in Nat /\ d.vector[p] \in Nat /\ o.t.vector[p] \in Nat
  BY <1>1 DEF IInv, Types, Rze, VC, Vector, Message
<1>3. o.t.vector[p] <= d.vector[p]
  <2>1. o \in DoneOn(i, e)
    BY <1>1 DEF DoneOn
  <2>2. Below(o.t, d)
    BY <1>1, <2>1, EntryFacts
  <2> QED
    BY <2>2 DEF Below
<1> SUFFICES o.t.vector[p] <= c.vector[p]
  OBVIOUS
<1> HIDE DEF e, i, c, d
<1>4. CASE d.vector[p] = 0
  BY <1>2, <1>3, <1>4
<1>5. CASE d.vector[p] # 0
  <2>1. d.vector[p] \in 1 .. d.vector[p]
    BY <1>2, <1>5
  <2>2. PICK m \in DoneOn(i, e) : m.t.id = p /\ Own(m) = d.vector[p]
    BY <1>1, <2>1, EntryFacts DEF d
  <2>3. m \in Issued /\ m.e = e /\ m \in done[p]
    BY <1>1, <2>2, IssuedFacts DEF DoneOn
  <2>4. Below(m.t, c)
    BY <1>1, <2>3, EntryFacts DEF DoneOn, c
  <2>5. Own(m) <= c.vector[p]
    BY <2>2, <2>4 DEF Below, Own
  <2> QED
    BY <1>2, <1>3, <2>2, <2>5
<1> QED
  BY <1>4, <1>5

\* The clock a replica gives a new operation makes it new, ready, and later than
\* exactly what the replica has applied to the element.
LEMMA NewOperation ==
  ASSUME IInv, NEW p \in Procs, NEW m \in Message, m.t = vc_now(rze[p][m.e].current)
  PROVE  /\ m \notin Issued /\ m.t.id = p
         /\ vc_causally_ready(rze[p][m.e].current, m.t)
         /\ Causal(Issued \cup {m})
<1> DEFINE e == m.e
           c == rze[p][e].current
<1>1. e \in Elements /\ c \in VC /\ c.id = p
  BY DEF IInv, Types, Rze, Message
<1>2. \A i \in Procs : c.vector[i] \in Nat
  BY <1>1 DEF VC, Vector
<1>3. /\ m.t.id = p
      /\ \A i \in Procs : m.t.vector[i] = IF i = p THEN c.vector[i] + 1 ELSE c.vector[i]
  <2> HIDE DEF c
  <2>1. m.t = [c EXCEPT !.vector[p] = c.vector[p] + 1]
    BY <1>1 DEF vc_now, c
  <2> QED
    BY <1>1, <2>1 DEF VC, Vector
<1>4. Own(m) = c.vector[p] + 1
  BY <1>3 DEF Own
<1>5. vc_causally_ready(c, m.t)
  BY <1>2, <1>3 DEF vc_causally_ready
<1>6. ASSUME NEW o \in Issued, o.e = e PROVE o.t.vector[p] < Own(m)
  <2>1. o.t.vector[p] <= c.vector[p]
    BY <1>6, NobodyAhead
  <2>2. o.t.vector[p] \in Nat
    BY IssuedFacts DEF Message, VC, Vector
  <2> HIDE DEF c
  <2> QED
    BY <1>2, <1>4, <2>1, <2>2
<1>7. m \notin Issued
  <2>1. m.t.vector[p] = Own(m)
    BY <1>3 DEF Own
  <2>2. Own(m) \in Nat
    <3> HIDE DEF c
    <3> QED
      BY <1>2, <1>4
  <2>3. ~(m.t.vector[p] < Own(m))
    BY <2>1, <2>2
  <2> QED
    BY <1>6, <2>3
<1>8. ASSUME NEW o \in Issued, o.e = e, Own(o) <= m.t.vector[o.t.id]
      PROVE  Below(o.t, m.t)
  <2>1. o \in Message /\ o.t.id \in Procs
    BY IssuedFacts
  <2>2. Own(o) <= c.vector[o.t.id]
    <3>1. CASE o.t.id = p
      <4>1. Own(o) <= c.vector[p]
        BY <1>8, <3>1, NobodyAhead DEF Own
      <4> QED
        BY <3>1, <4>1
    <3>2. CASE o.t.id # p
      BY <1>3, <1>8, <2>1, <3>2
    <3> QED
      BY <3>1, <3>2
  <2>3. Below(o.t, c)
    BY <1>8, <2>2, CountedIsApplied
  <2>4. \A i \in Procs : o.t.vector[i] \in Nat
    BY <2>1 DEF Message, VC, Vector
  <2> HIDE DEF c
  <2> QED
    BY <1>2, <1>3, <2>3, <2>4 DEF Below
<1>9. Causal(Issued \cup {m})
  <2> SUFFICES ASSUME NEW a \in Issued \cup {m}, NEW b \in Issued \cup {m},
                      a.e = b.e, a # b, Own(a) <= b.t.vector[a.t.id]
               PROVE  Below(a.t, b.t) /\ a.t.vector[b.t.id] < Own(b)
    BY DEF Causal
  <2>1. CASE a \in Issued /\ b \in Issued
    BY <2>1 DEF IInv, Causal
  <2>2. CASE a \in Issued /\ b = m
    BY <1>3, <1>6, <1>8, <2>2
  <2>3. CASE a = m /\ b \in Issued
    <3>1. b.t.vector[p] < Own(m) /\ Own(m) <= b.t.vector[p]
      BY <1>3, <1>6, <2>3
    <3>2. b.t.vector[p] \in Nat /\ Own(m) \in Nat
      BY <1>2, <1>4, <2>3, IssuedFacts DEF Message, VC, Vector
    <3> QED
      BY <3>1, <3>2
  <2> QED
    BY <2>1, <2>2, <2>3
<1> QED
  BY <1>3, <1>5, <1>7, <1>9

-----------------------------------------------------------------------------
(***************************************************************************)
(* The invariant.                                                          *)
(***************************************************************************)

LEMMA InitIInv == Init => IInv
<1> SUFFICES ASSUME Init PROVE IInv
  OBVIOUS
<1>1. /\ rze = [p \in Procs |-> [e \in Elements |-> rzeNew(p)]]
      /\ zset = [p \in Procs |-> [e \in Elements |-> None]]
      /\ net = [p \in Procs |-> [q \in Procs |-> << >>]]
      /\ done = [p \in Procs |-> {}]
  BY DEF Init, EmptyNetwork
<1>2. ASSUME NEW p \in Procs PROVE rzeNew(p) \in Rze
  BY DEF rzeNew, vc_new, Rze, VC, Vector
<1>3. Types
  <2>1. /\ rze \in [Procs -> [Elements -> Rze]]
        /\ zset \in [Procs -> [Elements -> Int \cup {None}]]
        /\ done \in [Procs -> SUBSET Message]
    BY <1>1, <1>2
  <2>2. net \in Network(Message)
    BY <1>1 DEF Network
  <2>3. \A p \in Procs, e \in Elements : rze[p][e].current.id = p
    BY <1>1 DEF rzeNew, vc_new
  <2>4. \A p \in Procs : IsFiniteSet(done[p])
    BY <1>1, FS_EmptySet
  <2> QED
    BY <2>1, <2>2, <2>3, <2>4 DEF Types
<1>4. Issued = {}
  BY <1>1 DEF Issued
<1>5. Causal(Issued)
  BY <1>4 DEF Causal
<1>6. Range(<< >>) = {}
  BY DEF Range
<1>7. \A p \in Procs, e \in Elements : Range(rze[p][e].ops) = {}
  BY <1>1, <1>6 DEF rzeNew
<1>8. Delivered
  <2>1. \A p, q \in Procs : net[p][q] = << >> /\ Range(net[p][q]) = {} /\ IsInjective(net[p][q])
    BY <1>1, <1>6 DEF IsInjective
  <2> QED
    BY <1>1, <1>4, <1>7, <2>1 DEF Delivered
<1>9. ASSUME NEW p \in Procs, NEW e \in Elements PROVE Sound(EntryOf(p, e), e)
  <2> DEFINE x == EntryOf(p, e)
  <2>1. /\ x.done = {} /\ x.score = None /\ x.meta.ops = << >>
        /\ x.meta.aset = {} /\ x.meta.rset = {}
        /\ \A i \in Procs : x.meta.current.vector[i] = 0
    BY <1>1 DEF EntryOf, rzeNew, vc_new
  <2> HIDE DEF x
  <2>2. OpsOn(x, e) = {}
    BY <2>1 DEF OpsOn
  <2>3. Counted(x, e)
    BY <2>1, <2>2 DEF Counted
  <2>4. Waiting(x, e)
    BY <1>6, <2>1 DEF Waiting, IsInjective
  <2>5. ReadyAt(x.meta) = {}
    <3>1. 1 .. Len(x.meta.ops) = {}
      BY <2>1
    <3> QED
      BY <3>1 DEF ReadyAt
  <2>6. Shown(x, e)
    <3>1. Adds({}) = {} /\ Removes({}) = {}
      BY DEF Adds, Removes
    <3>2. ~LOOKUP(x.meta)
      BY <2>1 DEF LOOKUP
    <3>3. Scored({}, {})
      BY DEF Scored
    <3> QED
      BY <2>1, <2>2, <3>1, <3>2, <3>3 DEF Shown
  <2>7. Sound(x, e)
    BY <2>3, <2>4, <2>5, <2>6 DEF Sound
  <2> QED
    BY <2>7 DEF x
<1> QED
  BY <1>3, <1>5, <1>8, <1>9 DEF IInv

\* A client command is executed by its replica and sent to the others.
LEMMA CallKeepsIInv ==
  ASSUME IInv, NEW p \in Procs, NEW cmd \in Commands, NEW e \in Elements, NEW v \in Int,
         Call(p, cmd, e, v)
  PROVE  IInv'
<1> DEFINE m == [cmd |-> cmd, e |-> e, v |-> v, t |-> vc_now(rze[p][e].current)]
<1>1. m \in Message /\ m.e = e /\ m.t = vc_now(rze[p][m.e].current)
  <2>1. rze[p][e].current \in VC
    BY DEF IInv, Types, Rze
  <2>2. vc_now(rze[p][e].current) \in VC
    BY <2>1, NowIsClock
  <2> QED
    BY <2>2 DEF Message
<1>2. Execute(p, m) /\ net' = replicationBroadcast(net, p, m)
  BY DEF Call
<1> HIDE DEF m
<1>3. /\ m \notin Issued /\ m.t.id = p
      /\ vc_causally_ready(rze[p][m.e].current, m.t)
      /\ Causal(Issued \cup {m})
  BY <1>1, NewOperation
<1>4. m \notin done[p] /\ m \notin Range(rze[p][m.e].ops)
  BY <1>1, <1>3, IssuedFacts
<1>5. Executed(p, m) /\ m \in done'[p]
  <2>1. Executed(p, m)
    BY <1>1, <1>2, <1>3, <1>4, ExecuteFacts
  <2> QED
    BY <1>3, <2>1 DEF Executed
<1>6. net \in [Procs -> [Procs -> Seq(Message)]]
  BY DEF IInv, Types, Network
<1>7. \A a, b \in Procs :
        net'[a][b] = IF a = p /\ b # p THEN Append(net[a][b], m) ELSE net[a][b]
  BY <1>2, <1>6 DEF replicationBroadcast
<1>8. net' \in Network(Message)
  <2>1. \A b \in Procs : Append(net[p][b], m) \in Seq(Message)
    BY <1>1, <1>6
  <2>2. [b \in Procs |-> IF b = p THEN net[p][b] ELSE Append(net[p][b], m)]
          \in [Procs -> Seq(Message)]
    BY <1>6, <2>1
  <2> QED
    BY <1>2, <1>6, <2>2 DEF replicationBroadcast, Network
<1>9. \A a \in Procs : net'[a][a] = << >>
  BY <1>7 DEF IInv, Delivered
<1>10. \A a, b \in Procs : m \notin Range(net[a][b]) /\ IsInjective(net[a][b])
  BY <1>3, IssuedFacts DEF IInv, Delivered
<1>11. ASSUME NEW a \in Procs, NEW b \in Procs
       PROVE  /\ IsInjective(net'[a][b])
              /\ b # p => Range(net'[a][b]) = Range(net[a][b]) \cup (IF a = p THEN {m} ELSE {})
  <2>1. CASE a = p /\ b # p
    <3>1. net[a][b] \in Seq(Message)
      BY <1>6
    <3>2. Range(Append(net[a][b], m)) = Range(net[a][b]) \cup {m}
      BY <1>1, <3>1, RangeAppend
    <3>3. IsInjective(Append(net[a][b], m))
      BY <1>1, <1>10, <3>1, InjectiveAppend
    <3> QED
      BY <1>7, <2>1, <3>2, <3>3
  <2>2. CASE ~(a = p /\ b # p)
    BY <1>7, <1>10, <2>2
  <2> QED
    BY <2>1, <2>2
<1>12. \A a \in Procs : Range(net'[a][p]) = Range(net[a][p]) \ {m}
  BY <1>7, <1>10
<1>13. Delivered' /\ Issued' = Issued \cup {m}
  <2>1. \A a, b \in Procs : IsInjective(net'[a][b])
    BY <1>11
  <2>2. \A a, b \in Procs : b # p => Range(net'[a][b]) =
          Range(net[a][b]) \cup (IF a = p THEN {m} ELSE {})
    BY <1>11
  <2> QED
    BY <1>1, <1>3, <1>5, <1>8, <1>9, <1>12, <2>1, <2>2, DeliveredStep, Zenon
<1> QED
  BY <1>3, <1>5, <1>8, <1>13 DEF IInv, Types, Executed, EntryOf

\* A replica executes the operation it received.
LEMMA ReplicaKeepsIInv ==
  ASSUME IInv, NEW p \in Procs, NEW q \in Procs, ReplicaExecute(p, q)
  PROVE  IInv'
<1> DEFINE s == net[p][q]
           m == Head(s)
<1>1. /\ net \in [Procs -> [Procs -> Seq(Message)]]
      /\ s \in Seq(Message) /\ s # << >> /\ IsInjective(s) /\ p # q
  <2>1. net \in [Procs -> [Procs -> Seq(Message)]]
    BY DEF IInv, Types, Network
  <2>2. s # << >>
    BY DEF ReplicaExecute
  <2>3. IsInjective(s) /\ net[p][p] = << >>
    BY DEF IInv, Delivered
  <2> QED
    BY <2>1, <2>2, <2>3
<1>2. Execute(q, m) /\ net' = [net EXCEPT ![p][q] = Tail(s)]
  BY DEF ReplicaExecute, Consume
<1> HIDE DEF s
<1>3. /\ m \in Message /\ Tail(s) \in Seq(Message)
      /\ Range(s) = Range(Tail(s)) \cup {m} /\ m \notin Range(Tail(s)) /\ IsInjective(Tail(s))
  BY <1>1, RangeTail, InjectiveTail, HeadTailProperties
<1> HIDE DEF m
<1>4. /\ m.t.id = p /\ m \in done[p] /\ m \notin done[q] /\ m \notin Range(rze[q][m.e].ops)
      /\ m \in Issued
  BY <1>3, IssuedFacts DEF IInv, Delivered, s
<1>5. Issued \cup {m} = Issued /\ Causal(Issued \cup {m})
  <2>1. Issued \cup {m} = Issued
    BY <1>4
  <2> QED
    BY <2>1 DEF IInv
<1>6. Executed(q, m)
  BY <1>2, <1>3, <1>4, <1>5, ExecuteFacts
<1>7. \A a, b \in Procs : net'[a][b] = IF a = p /\ b = q THEN Tail(s) ELSE net[a][b]
  BY <1>1, <1>2
<1>8. net' \in Network(Message)
  BY <1>1, <1>2, <1>3 DEF Network
<1>9. \A a \in Procs : net'[a][a] = << >>
  BY <1>1, <1>7 DEF IInv, Delivered
<1>10. \A a, b \in Procs : IsInjective(net'[a][b])
  BY <1>3, <1>7 DEF IInv, Delivered
<1>11. ASSUME NEW a \in Procs PROVE Range(net'[a][q]) = Range(net[a][q]) \ {m}
  <2>1. CASE a = p
    BY <1>3, <1>7, <2>1 DEF s
  <2>2. CASE a # p
    <3>1. m \notin Range(net[a][q])
      BY <1>4, <2>2 DEF IInv, Delivered
    <3> QED
      BY <1>7, <2>2, <3>1
  <2> QED
    BY <2>1, <2>2
<1>12. \A a, b \in Procs : b # q => net'[a][b] = net[a][b]
  BY <1>7
<1>13. Delivered' /\ Issued' = Issued
  BY <1>3, <1>4, <1>5, <1>6, <1>8, <1>9, <1>10, <1>11, <1>12, DeliveredStep
<1> QED
  BY <1>5, <1>6, <1>8, <1>13 DEF IInv, Types, Executed, EntryOf

LEMMA NextKeepsIInv == IInv /\ [Next]_vars => IInv'
<1> SUFFICES ASSUME IInv, [Next]_vars PROVE IInv'
  OBVIOUS
<1>1. CASE ClientStep
  <2>1. PICK p \in Procs, e \in Elements :
          \/ \E v \in AddValues : rzaddCommand(p, e, v)
          \/ \E v \in IncValues : rzincrbyCommand(p, e, v)
          \/ rzremCommand(p, e)
    BY <1>1 DEF ClientStep
  <2>2. \E cmd \in Commands, v \in Int : Call(p, cmd, e, v)
    BY <2>1, ValuesAssumption DEF rzaddCommand, rzincrbyCommand, rzremCommand, Commands
  <2> QED
    BY <2>2, CallKeepsIInv
<1>2. CASE \E p, q \in Procs : ReplicaExecute(p, q)
  BY <1>2, ReplicaKeepsIInv
<1>3. CASE UNCHANGED vars
  <2>1. rze' = rze /\ zset' = zset /\ net' = net /\ done' = done
    BY <1>3 DEF vars
  <2>2. Types' /\ Issued' = Issued
    BY <2>1 DEF IInv, Types, Issued
  <2>3. Delivered'
    BY <2>1, <2>2 DEF IInv, Delivered
  <2>4. ASSUME NEW p \in Procs, NEW e \in Elements PROVE Sound(EntryOf(p, e), e)'
    BY <2>1 DEF IInv, EntryOf
  <2> QED
    BY <2>2, <2>3, <2>4 DEF IInv
<1> QED
  BY <1>1, <1>2, <1>3 DEF Next

\* The invariant holds in every reachable state.
THEOREM Invariance == Spec => []IInv
  BY InitIInv, NextKeepsIInv, PTL DEF Spec

=============================================================================
