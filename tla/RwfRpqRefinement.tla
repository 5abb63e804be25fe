-------------------------- MODULE RwfRpqRefinement --------------------------
(***************************************************************************)
(* RWF-RPQ implements the abstract Remove-Win queue: the vector that a     *)
(* command carries stands for the set of removes it counts, and the zset   *)
(* for what clients read.                                                  *)
(***************************************************************************)
EXTENDS RwfRpqProofs, FunctionTheorems

\* The provers in the order they are tried; the last ones are for slow machines.
USE SMT, Zenon, SMTT(30), ZenonT(30), SMTT(60)

Kind(cmd) ==
  CASE cmd = "rwfzadd"    -> "add"
    [] cmd = "rwfzincrby" -> "inc"
    [] cmd = "rwfzrem"    -> "rem"

Removes(vector) == UNION {{<<i, k>> : k \in 1 .. vector[i]} : i \in Procs}

AbstractOp(m) == [kind |-> Kind(m.cmd), e |-> m.e, v |-> m.v, by |-> m.t.id,
                  removes |-> Removes(m.t.vector), n |-> m.n]

AbstractOps(S) == {AbstractOp(m) : m \in S}

AbstractSeen == [p \in Procs |-> AbstractOps(seen[p])]

Abstract == INSTANCE RemoveWinQueue
              WITH ops   <- AbstractOps(Issued),
                   seen  <- AbstractSeen,
                   score <- zset

\* Every step of t_rwfzset.c is a step of the abstract queue: comparing clocks
\* and resetting on removeCheck gives exactly the value in which a remove beats
\* every add and increment that does not know of it, and nothing else is lost.
ImplementsRemoveWin == Abstract!Spec
-----------------------------------------------------------------------------
(***************************************************************************)
(* The rest of the invariant: a command reaches a replica once, and what   *)
(* an element has acquired is the sum of its live increments.              *)
(***************************************************************************)

\* What a command leaves of the increments acquired: a new remove clears them, and
\* an increment that knows every remove is added.
LEMMA EffectAcquired ==
  ASSUME NEW x \in Entry, NEW m \in Message
  PROVE  LET y == Effect(x, m)
             old == IF removeCheck(x.meta.header, m.t) THEN 0 ELSE x.meta.acquired
         IN  y.meta.acquired = IF m.cmd = "rwfzincrby" /\ vc_equal(m.t, y.meta.header.current)
                               THEN old + m.v ELSE old
<1> DEFINE r == removeFunc(x, m.t)
           h == x.meta.header
           old == IF removeCheck(h, m.t) THEN 0 ELSE x.meta.acquired
           y == Effect(x, m)
           live == vc_equal(m.t, y.meta.header.current)
<1>1. m.t \in VC /\ m.v \in Int /\ m.cmd \in Commands
  BY DEF Message
<1>2. r \in Entry /\ r.meta.header.current = vc_update(h.current, m.t)
  BY <1>1, RemoveFuncFacts
<1>3. r.meta.acquired = old
  BY DEF removeFunc
<1>4. r.meta \in Rwfze /\ r.meta.header \in Header
  BY <1>2 DEF Entry, Rwfze
<1>5. live <=> vc_equal(m.t, r.meta.header.current)
  <2>1. y.meta.header.current = r.meta.header.current
    BY <1>2, EffectJoins
  <2> QED
    BY <2>1
<1>6. CASE m.cmd = "rwfzadd"
  <2>1. y = addEffect(x, m.v, m.t)
    BY <1>6 DEF Effect
  <2>2. \/ y.meta = [r.meta EXCEPT !.header = addHeader(r.meta.header, m.t), !.innate = m.v]
        \/ y = r
    BY <2>1 DEF addEffect, Stored
  <2>3. y.meta.acquired = r.meta.acquired
    BY <1>4, <2>2 DEF Rwfze
  <2> QED
    BY <1>3, <1>6, <2>3
<1>7. CASE m.cmd = "rwfzincrby"
  <2>1. y = incrbyEffect(x, m.v, m.t)
    BY <1>7 DEF Effect
  <2>2. CASE live
    <3>1. y.meta = [r.meta EXCEPT !.header = updateHeader(r.meta.header),
                                  !.acquired = r.meta.acquired + m.v]
      BY <1>5, <2>1, <2>2 DEF incrbyEffect, updateCheck, Stored
    <3>2. y.meta.acquired = r.meta.acquired + m.v
      BY <1>4, <3>1 DEF Rwfze
    <3> QED
      BY <1>3, <1>7, <2>2, <3>2
  <2>3. CASE ~live
    <3>1. y = r
      BY <1>5, <2>1, <2>3 DEF incrbyEffect, updateCheck
    <3> QED
      BY <1>3, <1>7, <2>3, <3>1
  <2> QED
    BY <2>2, <2>3
<1>8. CASE m.cmd = "rwfzrem"
  BY <1>3, <1>8 DEF Effect, remEffect
<1> QED
  BY <1>1, <1>6, <1>7, <1>8 DEF Commands

\* acquired stays the sum of the increments that know every remove.
LEMMA EffectKeepsTotal ==
  ASSUME NEW x \in Entry, NEW S \in SUBSET Message, IsFiniteSet(S),
         NEW m \in Message, m \notin S,
         HistoryIsJoin(x.meta, S), AcquiredIsTotal(x.meta, S)
  PROVE  AcquiredIsTotal(Effect(x, m).meta, S \cup {m})
<1> DEFINE y == Effect(x, m).meta
           fresh == removeCheck(x.meta.header, m.t)
           counts == m.cmd = "rwfzincrby" /\ vc_equal(m.t, y.header.current)
           I == Live(y, S, "rwfzincrby")
<1>1. I = IF fresh THEN {} ELSE Live(x.meta, S, "rwfzincrby")
  BY LiveAfterEffect
<1>2. Live(y, S \cup {m}, "rwfzincrby") = IF counts THEN I \cup {m} ELSE I
  BY DEF Live
<1>3. y.acquired = IF counts THEN (IF fresh THEN 0 ELSE x.meta.acquired) + m.v
                             ELSE (IF fresh THEN 0 ELSE x.meta.acquired)
  BY EffectAcquired
<1> HIDE DEF y
<1>4. I \subseteq S /\ IsFiniteSet(I) /\ m \notin I /\ (\A o \in I : o.v \in Int) /\ m.v \in Int
  <2>1. I \subseteq S
    BY DEF Live
  <2> QED
    BY <2>1, FS_Subset DEF Message
<1> HIDE DEF fresh, counts, I
<1>5. Total(I) = IF fresh THEN 0 ELSE x.meta.acquired
  <2>1. Total({}) = 0
    BY <1>4, TotalFacts
  <2> QED
    BY <1>1, <2>1 DEF AcquiredIsTotal
<1>6. Total(I \cup {m}) = Total(I) + m.v
  BY <1>4, TotalFacts
<1> QED
  BY <1>2, <1>3, <1>5, <1>6 DEF AcquiredIsTotal, y

\* Executing a command for the first time keeps acquired right everywhere.
LEMMA ExecuteKeepsTotals ==
  ASSUME IInv, NEW p \in Procs, NEW m \in Message, m \notin seen[p], Execute(p, m)
  PROVE  \A q \in Procs, e \in Elements : AcquiredIsTotal(rwfze[q][e], SeenOf(q, e))'
<1> DEFINE x == EntryOf(p, m.e)
           y == Effect(x, m)
           S == SeenOf(p, m.e)
<1>1. TypeOK /\ m.e \in Elements /\ IsFiniteSet(seen[p])
  BY DEF IInv, MetadataInv, Message
<1>2. x \in Entry /\ x.meta = rwfze[p][m.e]
  BY <1>1 DEF EntryOf, Entry, TypeOK
<1>3. /\ rwfze' = [rwfze EXCEPT ![p][m.e] = y.meta]
      /\ seen' = [seen EXCEPT ![p] = seen[p] \cup {m}]
  BY DEF Execute
<1>4. S \in SUBSET Message /\ IsFiniteSet(S) /\ m \notin S
  BY <1>1, FS_Subset DEF SeenOf, TypeOK
<1>5. \A q \in Procs, e \in Elements :
        SeenOf(q, e)' = IF q = p /\ e = m.e THEN SeenOf(q, e) \cup {m} ELSE SeenOf(q, e)
  BY <1>1, <1>3 DEF SeenOf, TypeOK
<1>6. HistoryIsJoin(x.meta, S) /\ AcquiredIsTotal(x.meta, S)
  BY <1>1, <1>2 DEF IInv, MetadataInv
<1> HIDE DEF S
<1>7. AcquiredIsTotal(y.meta, S \cup {m})
  BY <1>2, <1>4, <1>6, EffectKeepsTotal
<1> HIDE DEF x, y
<1>8. \A q \in Procs, e \in Elements :
        rwfze'[q][e] = IF q = p /\ e = m.e THEN y.meta ELSE rwfze[q][e]
  BY <1>1, <1>3 DEF TypeOK
<1> SUFFICES ASSUME NEW q \in Procs, NEW e \in Elements
             PROVE  AcquiredIsTotal(rwfze'[q][e], SeenOf(q, e)')
  BY DEF AcquiredIsTotal, Live
<1>9. CASE q = p /\ e = m.e
  BY <1>5, <1>7, <1>8, <1>9 DEF S
<1>10. CASE ~(q = p /\ e = m.e)
  <2>1. rwfze'[q][e] = rwfze[q][e] /\ SeenOf(q, e)' = SeenOf(q, e)
    BY <1>5, <1>8, <1>10
  <2> QED
    BY <2>1 DEF IInv
<1> QED
  BY <1>9, <1>10

\* A client's command is new, and its copies are the only ones.
LEMMA CallKeepsIInv ==
  ASSUME IInv, MetadataInv', NEW p \in Procs, NEW cmd \in Commands, NEW e \in Elements,
         NEW v \in Int, NEW t \in VC, t.id = p, Call(p, cmd, e, v, t)
  PROVE  IInv'
<1> DEFINE n == Cardinality(IssuedAt(p))
           m == [cmd |-> cmd, e |-> e, v |-> v, t |-> t, n |-> n]
<1>1. Execute(p, m) /\ net' = replicationBroadcast(net, p, m)
  BY DEF Call
<1>2. TypeOK /\ OriginSaw /\ ExactlyOnce /\ IsFiniteSet(seen[p])
  BY DEF IInv, MetadataInv
<1>3. n \in Nat /\ IsFiniteSet(IssuedAt(p))
  BY <1>2, FS_Subset, FS_CardinalityType DEF IssuedAt
<1>4. m \in Message /\ m.t.id = p /\ m.n = n
  BY <1>3 DEF Message
<1> HIDE DEF m
<1>5. m \notin seen[p]
  <2> SUFFICES ASSUME m \in seen[p] PROVE FALSE
    OBVIOUS
  <2>1. m.n < n
    BY <1>2, <1>4 DEF ExactlyOnce, IssuedAt
  <2> HIDE DEF n
  <2> QED
    BY <1>3, <1>4, <2>1
<1>6. \A q \in Procs, k \in Elements : AcquiredIsTotal(rwfze[q][k], SeenOf(q, k))'
  BY <1>1, <1>4, <1>5, ExecuteKeepsTotals
<1>7. \A q \in Procs : seen'[q] = IF q = p THEN seen[p] \cup {m} ELSE seen[q]
  BY <1>1, <1>2 DEF Execute, TypeOK
<1>8. \A q \in Procs : m \notin seen[q]
  BY <1>2, <1>4, <1>5 DEF OriginSaw
<1>9. \A q, r \in Procs : m \notin Range(net[q][r])
  BY <1>2, <1>8 DEF OriginSaw
<1>10. \A q, r \in Procs : net[q][r] \in Seq(Message)
  BY <1>2 DEF TypeOK, Network
<1>11. \A q, r \in Procs :
         net'[q][r] = IF q = p /\ r # p THEN Append(net[q][r], m) ELSE net[q][r]
  BY <1>1, <1>2 DEF replicationBroadcast, TypeOK, Network
<1>12. ASSUME NEW q \in Procs, NEW r \in Procs
       PROVE  IsInjective(net'[q][r]) /\ Range(net'[q][r]) \cap seen'[r] = {}
  <2>1. IsInjective(net[q][r]) /\ Range(net[q][r]) \cap seen[r] = {}
    BY <1>2 DEF ExactlyOnce
  <2>2. CASE q = p /\ r # p
    <3> DEFINE s == net[q][r]
    <3>1. s \in Seq(Message) /\ m \notin Range(s) /\ IsInjective(s)
      BY <1>9, <1>10, <2>1
    <3>2. net'[q][r] = Append(s, m) /\ seen'[r] = seen[r]
      BY <1>7, <1>11, <2>2
    <3> HIDE DEF s
    <3>3. IsInjective(Append(s, m)) /\ Range(Append(s, m)) = Range(s) \cup {m}
      BY <1>4, <3>1, InjectiveAppend, RangeAppend
    <3> QED
      BY <1>8, <2>1, <3>2, <3>3 DEF s
  <2>3. CASE ~(q = p /\ r # p)
    <3>1. net'[q][r] = net[q][r]
      BY <1>11, <2>3
    <3> QED
      BY <1>7, <1>9, <2>1, <3>1
  <2> QED
    BY <2>2, <2>3
<1>13. ASSUME NEW q \in Procs, NEW o \in IssuedAt(q)'
       PROVE  o.n < Cardinality(IssuedAt(q)')
  <2>1. CASE q = p
    <3>1. IssuedAt(p)' = IssuedAt(p) \cup {m}
      BY <1>4, <1>7 DEF IssuedAt
    <3>2. m \notin IssuedAt(p)
      BY <1>5 DEF IssuedAt
    <3>3. Cardinality(IssuedAt(p)') = n + 1
      BY <1>3, <3>1, <3>2, FS_AddElement
    <3>4. CASE o = m
      <4> HIDE DEF n
      <4> QED
        BY <1>3, <1>4, <2>1, <3>3, <3>4
    <3>5. CASE o \in IssuedAt(p)
      <4>1. o.n < n /\ o.n \in Nat
        BY <1>2, <3>5 DEF ExactlyOnce, IssuedAt, TypeOK, Message
      <4> HIDE DEF n
      <4> QED
        BY <1>3, <2>1, <3>3, <4>1
    <3> QED
      BY <1>13, <2>1, <3>1, <3>4, <3>5
  <2>2. CASE q # p
    <3>1. IssuedAt(q)' = IssuedAt(q)
      BY <1>7, <2>2 DEF IssuedAt
    <3> QED
      BY <1>2, <1>13, <3>1 DEF ExactlyOnce
  <2> QED
    BY <2>1, <2>2
<1>14. ExactlyOnce'
  BY <1>12, <1>13 DEF ExactlyOnce
<1> QED
  BY <1>6, <1>14 DEF IInv

\* What a replica receives it has not executed, and will not receive again.
LEMMA ReplicaExecuteKeepsIInv ==
  ASSUME IInv, MetadataInv', NEW p \in Procs, NEW q \in Procs, ReplicaExecute(p, q)
  PROVE  IInv'
<1> DEFINE s == net[p][q]
           m == Head(s)
<1>1. /\ s # << >> /\ Execute(q, m) /\ net' = [net EXCEPT ![p][q] = Tail(s)]
  BY DEF ReplicaExecute, Consume
<1>2. TypeOK /\ OriginSaw /\ ExactlyOnce
  BY DEF IInv, MetadataInv
<1>3. s \in Seq(Message) /\ IsInjective(s) /\ Range(s) \cap seen[q] = {}
  BY <1>2 DEF TypeOK, Network, ExactlyOnce
<1>4. \A o \in Range(s) : o \in seen[p] /\ o.t.id = p
  BY <1>2 DEF OriginSaw
<1>5. \A r, z \in Procs :
        net'[r][z] = IF r = p /\ z = q THEN Tail(s) ELSE net[r][z]
  <2> DEFINE rest == Tail(s)
  <2>1. DOMAIN net = Procs /\ \A r \in Procs : DOMAIN net[r] = Procs
    BY <1>2 DEF TypeOK, Network
  <2>2. net' = [net EXCEPT ![p][q] = rest]
    BY <1>1
  <2> HIDE DEF rest
  <2>3. net'[p] = [net[p] EXCEPT ![q] = rest] /\ \A r \in Procs : r # p => net'[r] = net[r]
    BY <2>1, <2>2
  <2>4. \A z \in Procs : net'[p][z] = IF z = q THEN rest ELSE net[p][z]
    BY <2>1, <2>3
  <2>5. ASSUME NEW r \in Procs, NEW z \in Procs
        PROVE  net'[r][z] = IF r = p /\ z = q THEN rest ELSE net[r][z]
    <3>1. CASE r = p
      BY <2>4, <3>1
    <3>2. CASE r # p
      BY <2>3, <3>2
    <3> QED
      BY <3>1, <3>2
  <2> QED
    BY <2>5 DEF rest
<1> HIDE DEF s
<1>6. /\ m \in Message /\ Tail(s) \in Seq(Message)
      /\ Range(s) = Range(Tail(s)) \cup {m} /\ m \notin Range(Tail(s)) /\ IsInjective(Tail(s))
  BY <1>1, <1>3, RangeTail, InjectiveTail, HeadTailProperties
<1> HIDE DEF m
<1>7. m \notin seen[q] /\ m \in seen[p] /\ m.t.id = p /\ p # q
  BY <1>3, <1>4, <1>6
<1>8. \A r \in Procs, k \in Elements : AcquiredIsTotal(rwfze[r][k], SeenOf(r, k))'
  BY <1>1, <1>6, <1>7, ExecuteKeepsTotals
<1>9. \A r \in Procs : seen'[r] = IF r = q THEN seen[q] \cup {m} ELSE seen[r]
  BY <1>1, <1>2 DEF Execute, TypeOK
<1>10. ASSUME NEW r \in Procs, NEW z \in Procs
       PROVE  IsInjective(net'[r][z]) /\ Range(net'[r][z]) \cap seen'[z] = {}
  <2>1. IsInjective(net[r][z]) /\ Range(net[r][z]) \cap seen[z] = {}
    BY <1>2 DEF ExactlyOnce
  <2>2. CASE r = p /\ z = q
    BY <1>3, <1>5, <1>6, <1>9, <2>2
  <2>3. CASE ~(r = p /\ z = q)
    <3>1. net'[r][z] = net[r][z]
      BY <1>5, <2>3
    <3>2. \A o \in Range(net[r][z]) : o.t.id = r
      BY <1>2 DEF OriginSaw
    <3> QED
      BY <1>7, <1>9, <2>1, <2>3, <3>1, <3>2
  <2> QED
    BY <2>2, <2>3
<1>11. \A r \in Procs : IssuedAt(r)' = IssuedAt(r)
  BY <1>7, <1>9 DEF IssuedAt
<1>12. ExactlyOnce'
  BY <1>2, <1>10, <1>11 DEF ExactlyOnce
<1> QED
  BY <1>8, <1>12 DEF IInv

\* Initially nothing was executed or sent.
LEMMA InitIInv == Init => IInv
<1> SUFFICES ASSUME Init PROVE IInv
  OBVIOUS
<1>1. MetadataInv
  BY InitMetadata
<1>2. \A p \in Procs : IssuedAt(p) = {} /\ seen[p] = {}
  BY DEF Init, IssuedAt
<1>3. \A p, q \in Procs : IsInjective(net[p][q])
  BY DEF Init, EmptyNetwork, IsInjective
<1>4. ExactlyOnce
  BY <1>2, <1>3 DEF ExactlyOnce
<1>5. ASSUME NEW p \in Procs, NEW e \in Elements
      PROVE  AcquiredIsTotal(rwfze[p][e], SeenOf(p, e))
  <2>1. rwfze[p][e].acquired = 0
    BY DEF Init, rwfzeNew
  <2>2. Live(rwfze[p][e], SeenOf(p, e), "rwfzincrby") = {}
    BY <1>2 DEF Live, SeenOf
  <2>3. Total({}) = 0
    BY TotalFacts, FS_EmptySet
  <2> QED
    BY <2>1, <2>2, <2>3 DEF AcquiredIsTotal
<1> QED
  BY <1>1, <1>4, <1>5 DEF IInv

\* A client's command is given the remove history of its element, and the next
\* remove if it is one.
LEMMA CommandClocks ==
  ASSUME IInv, NEW p \in Procs, NEW e \in Elements
  PROVE  LET c == rwfze[p][e].header.current
         IN  c \in VC /\ c.id = p /\ vc_now(c) \in VC /\ vc_now(c).id = p
BY Preconditions, NowIsClock DEF IInv

LEMMA NextKeepsIInv == IInv /\ [Next]_vars => IInv'
<1> SUFFICES ASSUME IInv, [Next]_vars PROVE IInv'
  OBVIOUS
<1>1. MetadataInv'
  BY NextKeepsMetadata DEF IInv
<1>2. ASSUME NEW p \in Procs, NEW e \in Elements, NEW v \in AddValues,
             rwfzaddCommand(p, e, v)
      PROVE  IInv'
  <2>1. v \in Int /\ "rwfzadd" \in Commands
    BY RwfRpqAssumption DEF Commands
  <2> DEFINE t == rwfze[p][e].header.current
  <2>2. t \in VC /\ t.id = p
    BY CommandClocks
  <2>3. Call(p, "rwfzadd", e, v, t)
    BY <1>2 DEF rwfzaddCommand
  <2> HIDE DEF t
  <2> QED
    BY <1>1, <2>1, <2>2, <2>3, CallKeepsIInv
<1>3. ASSUME NEW p \in Procs, NEW e \in Elements, NEW v \in IncValues,
             rwfzincrbyCommand(p, e, v)
      PROVE  IInv'
  <2>1. v \in Int /\ "rwfzincrby" \in Commands
    BY RwfRpqAssumption DEF Commands
  <2> DEFINE t == rwfze[p][e].header.current
  <2>2. t \in VC /\ t.id = p
    BY CommandClocks
  <2>3. Call(p, "rwfzincrby", e, v, t)
    BY <1>3 DEF rwfzincrbyCommand
  <2> HIDE DEF t
  <2> QED
    BY <1>1, <2>1, <2>2, <2>3, CallKeepsIInv
<1>4. ASSUME NEW p \in Procs, NEW e \in Elements, rwfzremCommand(p, e)
      PROVE  IInv'
  <2>1. 0 \in Int /\ "rwfzrem" \in Commands
    BY DEF Commands
  <2> DEFINE t == vc_now(rwfze[p][e].header.current)
  <2>2. t \in VC /\ t.id = p
    BY CommandClocks
  <2>3. Call(p, "rwfzrem", e, 0, t)
    BY <1>4 DEF rwfzremCommand
  <2> HIDE DEF t
  <2> QED
    BY <1>1, <2>1, <2>2, <2>3, CallKeepsIInv
<1>5. ASSUME NEW p \in Procs, NEW q \in Procs, ReplicaExecute(p, q)
      PROVE  IInv'
  BY <1>1, <1>5, ReplicaExecuteKeepsIInv
<1>6. CASE UNCHANGED vars
  <2>1. rwfze' = rwfze /\ seen' = seen /\ net' = net
    BY <1>6 DEF vars
  <2>2. ExactlyOnce'
    BY <2>1 DEF IInv, ExactlyOnce, IssuedAt
  <2>3. \A p \in Procs, e \in Elements : AcquiredIsTotal(rwfze[p][e], SeenOf(p, e))'
    BY <2>1 DEF IInv, AcquiredIsTotal, Live, SeenOf
  <2> QED
    BY <1>1, <2>2, <2>3 DEF IInv
<1> QED
  BY <1>2, <1>3, <1>4, <1>5, <1>6 DEF Next, ClientStep

\* IInv is an invariant of RWF-RPQ: at every replica the whole state of an element
\* is what the set of commands executed there determines, each executed once.
THEOREM Invariance == Spec => []IInv
BY InitIInv, NextKeepsIInv, PTL DEF Spec

\* With the same commands executed, the same increments count.
LEMMA ScoresConverge == IInv => ScoreConvergence
<1> SUFFICES ASSUME IInv, NEW p \in Procs, NEW q \in Procs, NEW e \in Elements,
                    SeenOf(p, e) = SeenOf(q, e)
             PROVE  zset[p][e] = zset[q][e]
  BY DEF ScoreConvergence
<1> DEFINE r1 == rwfze[p][e]
           r2 == rwfze[q][e]
<1>1. /\ vc_equal(r1.header.current, r2.header.current)
      /\ r1.header.pid = r2.header.pid /\ r1.innate = r2.innate
  BY MetadataConverges DEF IInv, MetadataConvergence
<1>2. Live(r1, SeenOf(p, e), "rwfzincrby") = Live(r2, SeenOf(q, e), "rwfzincrby")
  BY <1>1 DEF Live, vc_equal
<1>3. r1.acquired = r2.acquired
  BY <1>2 DEF IInv, AcquiredIsTotal
<1>4. /\ zset[p][e] = IF EXISTS(r1.header) THEN SCORE(r1) ELSE None
      /\ zset[q][e] = IF EXISTS(r2.header) THEN SCORE(r2) ELSE None
  BY DEF IInv, MetadataInv, ZsetMatchesMetadata
<1> QED
  BY <1>1, <1>3, <1>4 DEF EXISTS, SCORE

\* Two replicas that executed the same commands on an element, in any two orders,
\* hold the same remove history, winning add, initial priority and score.
THEOREM ReplicasConverge == Spec => []StrongConvergence
<1>1. IInv => StrongConvergence
  BY MetadataConverges, ScoresConverge DEF IInv, StrongConvergence
<1> QED
  BY <1>1, Invariance, PTL

\* With nothing in flight every replica has executed every command.
LEMMA SeenAtRest ==
  ASSUME IInv, ~InFlight(net), NEW p \in Procs, NEW q \in Procs
  PROVE  seen[p] \subseteq seen[q]
<1> SUFFICES ASSUME NEW m \in seen[p] PROVE m \in seen[q]
  OBVIOUS
<1> DEFINE o == m.t.id
<1>1. o \in Procs
  BY DEF IInv, MetadataInv, TypeOK, Message, VC
<1>2. m \in seen[o]
  BY DEF IInv, MetadataInv, OriginSaw
<1>3. CASE o = q
  BY <1>2, <1>3
<1>4. CASE o # q
  <2>1. Range(net[o][q]) = {}
    <3>1. net[o][q] = << >>
      BY <1>1 DEF InFlight
    <3> QED
      BY <3>1 DEF Range
  <2>2. m \in seen[q] \cup Range(net[o][q])
    BY <1>1, <1>2, <1>4 DEF IInv, MetadataInv, SeenOrInFlight
  <2> QED
    BY <2>1, <2>2
<1> QED
  BY <1>3, <1>4

\* With nothing in flight the reads of all replicas agree.
THEOREM ReplicasAgreeAtRest == Spec => []AlikeAtRest
<1>1. IInv => AlikeAtRest
  <2> SUFFICES ASSUME IInv, ~InFlight(net), NEW p \in Procs, NEW q \in Procs
               PROVE  /\ \A e \in Elements : rwfzscoreCommand(p, e) = rwfzscoreCommand(q, e)
                      /\ rwfzmaxCommand(p) = rwfzmaxCommand(q)
    BY DEF AlikeAtRest, AnswersAlike
  <2>1. seen[p] = seen[q]
    BY SeenAtRest
  <2>2. \A e \in Elements : zset[p][e] = zset[q][e]
    BY <2>1, ScoresConverge DEF ScoreConvergence, SeenOf
  <2>3. zset[p] = zset[q]
    BY <2>2 DEF IInv, MetadataInv, TypeOK
  <2> QED
    BY <2>3 DEF rwfzscoreCommand, rwfzmaxCommand
<1> QED
  BY <1>1, Invariance, PTL
-----------------------------------------------------------------------------
(***************************************************************************)
(* The removes that a vector stands for.                                   *)
(***************************************************************************)

LEMMA InRemoves ==
  ASSUME NEW v \in Vector, NEW i \in Procs, NEW k
  PROVE  <<i, k>> \in Removes(v) <=> k \in 1 .. v[i]
BY DEF Removes

\* Different vectors stand for different sets of removes.
LEMMA RemovesInjective ==
  ASSUME NEW v \in Vector, NEW w \in Vector, Removes(v) = Removes(w)
  PROVE  v = w
<1>1. ASSUME NEW i \in Procs PROVE v[i] = w[i]
  <2>1. v[i] \in Nat /\ w[i] \in Nat
    BY DEF Vector
  <2>2. \A k : k \in 1 .. v[i] <=> k \in 1 .. w[i]
    BY InRemoves
  <2> QED
    BY <2>1, <2>2
<1> QED
  BY <1>1 DEF Vector

\* A command can be told from its abstract operation.
LEMMA AbstractInjective ==
  ASSUME NEW m \in Message, NEW o \in Message, AbstractOp(m) = AbstractOp(o)
  PROVE  m = o
<1>1. /\ Kind(m.cmd) = Kind(o.cmd) /\ m.e = o.e /\ m.v = o.v /\ m.t.id = o.t.id
      /\ Removes(m.t.vector) = Removes(o.t.vector) /\ m.n = o.n
  BY DEF AbstractOp
<1>2. m.cmd = o.cmd
  BY <1>1 DEF Kind, Message, Commands
<1>3. m.t \in VC /\ o.t \in VC
  BY DEF Message
<1>4. m.t.vector = o.t.vector
  BY <1>1, <1>3, RemovesInjective DEF VC
<1>5. m.t = o.t
  BY <1>1, <1>3, <1>4 DEF VC
<1> QED
  BY <1>1, <1>2, <1>5 DEF Message

\* The removes that the commands S know of are the ones their join counts.
LEMMA JoinKnows ==
  ASSUME NEW r \in Rwfze, NEW S \in SUBSET Message, HistoryIsJoin(r, S)
  PROVE  UNION {Removes(m.t.vector) : m \in S} = Removes(r.header.current.vector)
<1> DEFINE c == r.header.current.vector
<1>1. c \in Vector /\ \A m \in S : m.t.vector \in Vector
  BY DEF Rwfze, Header, Message, VC
<1>2. \A i \in Procs : c[i] \in Nat /\ \A m \in S : m.t.vector[i] \in Nat
  BY <1>1 DEF Vector
<1>3. \A i \in Procs : /\ \A m \in S : m.t.vector[i] <= c[i]
                       /\ c[i] = 0 \/ \E m \in S : m.t.vector[i] = c[i]
  BY DEF HistoryIsJoin
<1> HIDE DEF c
<1>4. ASSUME NEW m \in S, NEW x \in Removes(m.t.vector) PROVE x \in Removes(c)
  <2>1. PICK i \in Procs : \E k \in 1 .. m.t.vector[i] : x = <<i, k>>
    BY <1>4 DEF Removes
  <2>2. PICK k \in 1 .. m.t.vector[i] : x = <<i, k>>
    BY <2>1
  <2>3. k \in 1 .. c[i]
    BY <1>2, <1>3, <2>2
  <2> QED
    BY <1>1, <2>2, <2>3, InRemoves
<1>5. ASSUME NEW x \in Removes(c) PROVE \E m \in S : x \in Removes(m.t.vector)
  <2>1. PICK i \in Procs : \E k \in 1 .. c[i] : x = <<i, k>>
    BY <1>5 DEF Removes
  <2>2. PICK k \in 1 .. c[i] : x = <<i, k>>
    BY <2>1
  <2>3. PICK m \in S : m.t.vector[i] = c[i]
    BY <1>2, <1>3, <2>2
  <2>4. x \in Removes(m.t.vector)
    BY <1>1, <2>2, <2>3, InRemoves
  <2> QED
    BY <2>4
<1> QED
  BY <1>4, <1>5 DEF c

-----------------------------------------------------------------------------
(***************************************************************************)
(* The value that the abstract queue gives the commands D.                 *)
(***************************************************************************)

\* The commands of D on e.
On(D, e) == {m \in D : m.e = e}

\* The abstract removes known are those of the remove history.
LEMMA KnownIsHistory ==
  ASSUME NEW D \in SUBSET Message, NEW e, NEW r \in Rwfze, HistoryIsJoin(r, On(D, e))
  PROVE  Abstract!Known(AbstractOps(D), e) = Removes(r.header.current.vector)
<1>1. On(D, e) \in SUBSET Message
  BY DEF On
<1>2. UNION {Removes(m.t.vector) : m \in On(D, e)} = Removes(r.header.current.vector)
  BY <1>1, JoinKnows
<1>3. \A m \in D : AbstractOp(m).e = m.e /\ AbstractOp(m).removes = Removes(m.t.vector)
  BY DEF AbstractOp
<1>4. ASSUME NEW x \in Abstract!Known(AbstractOps(D), e)
      PROVE  x \in UNION {Removes(m.t.vector) : m \in On(D, e)}
  <2>1. PICK o \in AbstractOps(D) : o.e = e /\ x \in o.removes
    BY <1>4 DEF Abstract!Known
  <2>2. PICK m \in D : o = AbstractOp(m)
    BY DEF AbstractOps
  <2> QED
    BY <1>3, <2>1, <2>2 DEF On
<1>5. ASSUME NEW m \in On(D, e), NEW x \in Removes(m.t.vector)
      PROVE  x \in Abstract!Known(AbstractOps(D), e)
  <2>1. m \in D /\ AbstractOp(m) \in AbstractOps(D)
    BY DEF On, AbstractOps
  <2>2. AbstractOp(m).e = e /\ x \in AbstractOp(m).removes
    BY <1>3, <1>5, <2>1 DEF On
  <2> QED
    BY <2>1, <2>2 DEF Abstract!Known
<1> QED
  BY <1>2, <1>4, <1>5

\* An abstract operation is live iff its command is.
LEMMA LiveIsLive ==
  ASSUME NEW D \in SUBSET Message, NEW e, NEW r \in Rwfze, HistoryIsJoin(r, On(D, e))
  PROVE  Abstract!Live(AbstractOps(D), e) =
           AbstractOps(Live(r, On(D, e), "rwfzadd") \cup Live(r, On(D, e), "rwfzincrby"))
<1> DEFINE c == r.header.current.vector
           L == Live(r, On(D, e), "rwfzadd") \cup Live(r, On(D, e), "rwfzincrby")
<1>1. c \in Vector
  BY DEF Rwfze, Header, VC
<1>2. Abstract!Known(AbstractOps(D), e) = Removes(c)
  BY KnownIsHistory
<1> HIDE DEF c
<1>3. ASSUME NEW m \in D
      PROVE  /\ AbstractOp(m).e = m.e
             /\ AbstractOp(m).kind # "rem" <=> m.cmd \in {"rwfzadd", "rwfzincrby"}
             /\ AbstractOp(m).removes = Removes(c) <=> m.t.vector = c
  <2>1. m.cmd \in Commands /\ m.t.vector \in Vector
    BY DEF Message, VC
  <2>2. AbstractOp(m).e = m.e /\ AbstractOp(m).removes = Removes(m.t.vector)
    BY DEF AbstractOp
  <2>3. AbstractOp(m).kind # "rem" <=> m.cmd \in {"rwfzadd", "rwfzincrby"}
    BY <2>1 DEF AbstractOp, Kind, Commands
  <2> QED
    BY <1>1, <2>1, <2>2, <2>3, RemovesInjective
<1>4. \A m : m \in L <=> m \in D /\ m.e = e /\ m.cmd \in {"rwfzadd", "rwfzincrby"} /\ m.t.vector = c
  BY DEF Live, On, vc_equal, c
<1> HIDE DEF L
<1>5. ASSUME NEW o \in Abstract!Live(AbstractOps(D), e) PROVE o \in AbstractOps(L)
  <2>1. o \in AbstractOps(D) /\ o.e = e /\ o.kind # "rem" /\ o.removes = Removes(c)
    BY <1>2, <1>5 DEF Abstract!Live
  <2>2. PICK m \in D : o = AbstractOp(m)
    BY <2>1 DEF AbstractOps
  <2>3. m \in L
    BY <1>3, <1>4, <2>1, <2>2
  <2> QED
    BY <2>2, <2>3 DEF AbstractOps
<1>6. ASSUME NEW m \in L PROVE AbstractOp(m) \in Abstract!Live(AbstractOps(D), e)
  <2>1. m \in D /\ m.e = e /\ m.cmd \in {"rwfzadd", "rwfzincrby"} /\ m.t.vector = c
    BY <1>4
  <2>2. AbstractOp(m) \in AbstractOps(D)
    BY <2>1 DEF AbstractOps
  <2> QED
    BY <1>2, <1>3, <2>1, <2>2 DEF Abstract!Live
<1>7. ASSUME NEW o \in AbstractOps(L) PROVE o \in Abstract!Live(AbstractOps(D), e)
  BY <1>6 DEF AbstractOps
<1> QED
  BY <1>5, <1>7 DEF L

\* Summing over abstract operations is summing over their commands.
LEMMA AbstractFacts ==
  ASSUME NEW S \in SUBSET Message, IsFiniteSet(S)
  PROVE  /\ Cardinality(AbstractOps(S)) = Cardinality(S)
         /\ Total(AbstractOps(S)) = Total(S)
<1> DEFINE F == [m \in S |-> AbstractOp(m)]
<1>1. \A m \in S : F[m] = AbstractOp(m)
  OBVIOUS
<1>2. \A m, o \in S : F[m] = F[o] => m = o
  BY <1>1, AbstractInjective
<1>3. \A m \in S : m.v \in Int /\ F[m].v = m.v
  BY <1>1 DEF AbstractOp, Message
<1>4. AbstractOps(S) = Renamed(F, S)
  BY <1>1 DEF AbstractOps, Renamed
<1> HIDE DEF F
<1>5. IsRenaming(F, S)
  BY <1>2, <1>3 DEF IsRenaming
<1> QED
  BY <1>4, <1>5, RenamingFacts

\* The priority of the winning add.
LEMMA InnateIsInnate ==
  ASSUME NEW r \in Rwfze, NEW S \in SUBSET Message, HeaderIsWinner(r, S),
         \A m, o \in Live(r, S, "rwfzadd") : m.t.id = o.t.id => m.v = o.v
  PROVE  Abstract!Innate(AbstractOps(Live(r, S, "rwfzadd") \cup Live(r, S, "rwfzincrby")))
           = r.innate
<1> DEFINE A == Live(r, S, "rwfzadd")
           I == Live(r, S, "rwfzincrby")
           adds == {o \in AbstractOps(A \cup I) : o.kind = "add"}
<1>1. /\ A \in SUBSET Message /\ I \in SUBSET Message
      /\ \A m \in A : m.cmd = "rwfzadd"
      /\ \A m \in I : m.cmd = "rwfzincrby"
  BY DEF Live
<1>2. /\ r.header.pid \in Procs =>
           /\ \A m \in A : m.t.id <= r.header.pid
           /\ \E m \in A : m.t.id = r.header.pid /\ m.v = r.innate
      /\ r.header.pid \notin Procs => A = {} /\ r.innate = 0
  BY DEF HeaderIsWinner
<1>3. \A m, o \in A : m.t.id = o.t.id => m.v = o.v
  OBVIOUS
<1> HIDE DEF A, I
<1>4. adds = AbstractOps(A)
  <2>1. \A m \in A : AbstractOp(m).kind = "add"
    BY <1>1 DEF AbstractOp, Kind
  <2>2. \A m \in I : AbstractOp(m).kind = "inc"
    BY <1>1 DEF AbstractOp, Kind
  <2> QED
    BY <2>1, <2>2 DEF AbstractOps
<1>5. Abstract!Innate(AbstractOps(A \cup I)) =
        IF adds = {} THEN 0
        ELSE (CHOOSE o \in adds : \A a \in adds : a.by <= o.by).v
  BY DEF Abstract!Innate
<1> HIDE DEF adds
<1>6. CASE A = {}
  <2>1. adds = {} /\ r.header.pid \notin Procs
    BY <1>2, <1>4, <1>6 DEF AbstractOps
  <2> QED
    BY <1>2, <1>5, <2>1 DEF A, I
<1>7. CASE A # {}
  <2>1. r.header.pid \in Procs
    BY <1>2, <1>7
  <2>2. PICK m \in A : m.t.id = r.header.pid /\ m.v = r.innate
    BY <1>2, <2>1
  <2>3. \A o \in A : o.t.id \in Procs /\ AbstractOp(o).by = o.t.id /\ AbstractOp(o).v = o.v
    BY <1>1 DEF Message, VC, AbstractOp
  <2>4. AbstractOp(m) \in adds /\ \A a \in adds : a.by <= AbstractOp(m).by
    BY <1>2, <1>4, <2>1, <2>2, <2>3 DEF AbstractOps
  <2> DEFINE w == CHOOSE o \in adds : \A a \in adds : a.by <= o.by
  <2>5. w \in adds /\ \A a \in adds : a.by <= w.by
    BY <2>4
  <2> HIDE DEF w
  <2>6. PICK o \in A : w = AbstractOp(o)
    BY <1>4, <2>5 DEF AbstractOps
  <2>7. o.t.id <= m.t.id /\ m.t.id <= o.t.id
    BY <2>3, <2>4, <2>5, <2>6
  <2>8. o.t.id = m.t.id
    BY <2>3, <2>7 DEF Procs
  <2>9. w.v = r.innate
    BY <1>3, <2>2, <2>3, <2>6, <2>8
  <2> QED
    BY <1>5, <2>4, <2>9 DEF w, A, I
<1> QED
  BY <1>6, <1>7

\* The sum of the increments that count.
LEMMA AcquiredIsAcquired ==
  ASSUME NEW r \in Rwfze, NEW S \in SUBSET Message, IsFiniteSet(S), AcquiredIsTotal(r, S)
  PROVE  Abstract!Acquired(AbstractOps(Live(r, S, "rwfzadd") \cup Live(r, S, "rwfzincrby")))
           = r.acquired
<1> DEFINE A == Live(r, S, "rwfzadd")
           I == Live(r, S, "rwfzincrby")
           incs == {o \in AbstractOps(A \cup I) : o.kind = "inc"}
<1>1. /\ I \in SUBSET Message /\ I \subseteq S
      /\ \A m \in A : m.cmd = "rwfzadd"
      /\ \A m \in I : m.cmd = "rwfzincrby"
  BY DEF Live
<1> HIDE DEF A, I
<1>2. incs = AbstractOps(I)
  <2>1. \A m \in A : AbstractOp(m).kind = "add"
    BY <1>1 DEF AbstractOp, Kind
  <2>2. \A m \in I : AbstractOp(m).kind = "inc"
    BY <1>1 DEF AbstractOp, Kind
  <2> QED
    BY <2>1, <2>2 DEF AbstractOps
<1>3. Abstract!Acquired(AbstractOps(A \cup I)) = Total(incs)
  BY DEF Abstract!Acquired, Total, MapThenSumSet, MapThenFoldSet, Abstract!MapThenSumSet,
         Abstract!MapThenFoldSet
<1>4. Total(AbstractOps(I)) = Total(I)
  BY <1>1, FS_Subset, AbstractFacts
<1> QED
  BY <1>2, <1>3, <1>4 DEF AcquiredIsTotal, A, I

\* The value of the abstract queue is the score that the metadata stands for.
LEMMA ValueIsScore ==
  ASSUME NEW D \in SUBSET Message, IsFiniteSet(D), NEW e, NEW r \in Rwfze,
         HistoryIsJoin(r, On(D, e)), HeaderIsWinner(r, On(D, e)), AcquiredIsTotal(r, On(D, e)),
         \A m, o \in Live(r, On(D, e), "rwfzadd") : m.t.id = o.t.id => m.v = o.v
  PROVE  Abstract!Value(AbstractOps(D), e) = IF EXISTS(r.header) THEN SCORE(r) ELSE None
<1> DEFINE S == On(D, e)
           A == Live(r, S, "rwfzadd")
           I == Live(r, S, "rwfzincrby")
           L == Abstract!Live(AbstractOps(D), e)
<1>1. S \in SUBSET Message /\ IsFiniteSet(S)
  BY FS_Subset DEF On
<1>2. L = AbstractOps(A \cup I)
  BY LiveIsLive
<1>3. Abstract!Value(AbstractOps(D), e) =
        IF L = {} THEN None ELSE Abstract!Innate(L) + Abstract!Acquired(L)
  BY DEF Abstract!Value
<1>4. Abstract!Innate(AbstractOps(A \cup I)) = r.innate
  BY <1>1, InnateIsInnate
<1>5. Abstract!Acquired(AbstractOps(A \cup I)) = r.acquired
  BY <1>1, AcquiredIsAcquired
<1>6. EXISTS(r.header) <=> A \cup I # {}
  <2>1. r.header.pid \in Procs \cup {PID_NEXIST, PID_WAIT_INNATE} /\ PID_NEXIST \notin Procs
    BY DEF Rwfze, Header, PID_NEXIST, Procs
  <2> QED
    BY <2>1 DEF HeaderIsWinner, EXISTS
<1>7. AbstractOps(A \cup I) = {} <=> A \cup I = {}
  BY DEF AbstractOps
<1> HIDE DEF A, I, L
<1> QED
  BY <1>2, <1>3, <1>4, <1>5, <1>6, <1>7 DEF SCORE

-----------------------------------------------------------------------------
(***************************************************************************)
(* Every step is a step of the abstract queue.                             *)
(***************************************************************************)

\* The remove history stands for the removes known, and the zset for the value.
LEMMA SeenIsAbstract ==
  ASSUME IInv, NEW p \in Procs, NEW e \in Elements
  PROVE  /\ Abstract!Known(AbstractSeen[p], e) = Removes(rwfze[p][e].header.current.vector)
         /\ zset[p][e] = Abstract!Value(AbstractSeen[p], e)
<1> DEFINE r == rwfze[p][e]
           D == seen[p]
<1>1. /\ r \in Rwfze /\ D \in SUBSET Message /\ IsFiniteSet(D)
      /\ AbstractSeen[p] = AbstractOps(D)
  BY DEF IInv, MetadataInv, TypeOK, AbstractSeen
<1>2. SeenOf(p, e) = On(D, e)
  BY DEF SeenOf, On
<1>3. /\ HistoryIsJoin(r, On(D, e)) /\ HeaderIsWinner(r, On(D, e))
      /\ AcquiredIsTotal(r, On(D, e))
  BY <1>2 DEF IInv, MetadataInv
<1>4. zset[p][e] = IF EXISTS(r.header) THEN SCORE(r) ELSE None
  BY DEF IInv, MetadataInv, ZsetMatchesMetadata
<1>5. ASSUME NEW m \in Live(r, On(D, e), "rwfzadd"), NEW o \in Live(r, On(D, e), "rwfzadd"),
             m.t.id = o.t.id
      PROVE  m.v = o.v
  <2>1. /\ m \in seen[p] /\ m.e = e /\ m.cmd = "rwfzadd" /\ m.t.vector = r.header.current.vector
        /\ o \in seen[p] /\ o.e = e /\ o.cmd = "rwfzadd" /\ o.t.vector = r.header.current.vector
    BY DEF Live, On, vc_equal
  <2>2. m.t \in VC /\ o.t \in VC /\ m.t.id \in Procs
    BY <1>1, <2>1 DEF Message, VC
  <2>3. m.t = o.t
    BY <1>5, <2>1, <2>2 DEF VC
  <2>4. m \in seen[m.t.id] /\ o \in seen[m.t.id]
    BY <1>5, <2>1 DEF IInv, MetadataInv, OriginSaw
  <2> QED
    BY <2>1, <2>2, <2>3, <2>4 DEF IInv, MetadataInv, OneAddPerHistory
<1> HIDE DEF r, D
<1>6. Abstract!Known(AbstractOps(D), e) = Removes(r.header.current.vector)
  BY <1>1, <1>3, KnownIsHistory
<1>7. Abstract!Value(AbstractOps(D), e) = IF EXISTS(r.header) THEN SCORE(r) ELSE None
  BY <1>1, <1>3, <1>5, ValueIsScore
<1> QED
  BY <1>1, <1>4, <1>6, <1>7 DEF r

\* What clients read is the value of the abstract queue.
ZsetShowsValue ==
  \A p \in Procs, e \in Elements : zset[p][e] = Abstract!Value(AbstractSeen[p], e)

LEMMA ValueIsShown == IInv => ZsetShowsValue
  BY SeenIsAbstract DEF ZsetShowsValue

\* Executing a command performs its operation.
LEMMA ExecutePerforms ==
  ASSUME IInv, IInv', NEW p \in Procs, NEW m \in Message, Execute(p, m)
  PROVE  /\ Abstract!Perform(p, AbstractOp(m))
         /\ AbstractOps(Issued)' = AbstractOps(Issued) \cup {AbstractOp(m)}
<1> DEFINE o == AbstractOp(m)
           y == Effect(EntryOf(p, m.e), m)
<1>1. /\ TypeOK /\ m.e \in Elements /\ o.e = m.e
      /\ seen' = [seen EXCEPT ![p] = seen[p] \cup {m}]
      /\ zset' = [zset EXCEPT ![p][m.e] = y.score]
  BY DEF IInv, MetadataInv, Message, AbstractOp, Execute
<1>2. \A D : AbstractOps(D \cup {m}) = AbstractOps(D) \cup {o}
  BY DEF AbstractOps
<1> HIDE DEF o, y
<1>3. \A q \in Procs : seen'[q] = IF q = p THEN seen[p] \cup {m} ELSE seen[q]
  BY <1>1 DEF TypeOK
<1>4. AbstractSeen' = [AbstractSeen EXCEPT ![p] = AbstractSeen[p] \cup {o}]
  <2>1. AbstractSeen' = [q \in Procs |-> AbstractOps(seen'[q])]
    BY DEF AbstractSeen, AbstractOps
  <2>2. \A q \in Procs : AbstractOps(seen'[q]) =
          IF q = p THEN AbstractOps(seen[p]) \cup {o} ELSE AbstractOps(seen[q])
    BY <1>2, <1>3
  <2> QED
    BY <2>1, <2>2 DEF AbstractSeen
<1>5. AbstractSeen'[p] = AbstractSeen[p] \cup {o}
  BY <1>4 DEF AbstractSeen
<1>6. y.score = Abstract!Value(AbstractSeen[p] \cup {o}, m.e)
  <2>1. ZsetShowsValue'
    BY ValueIsShown, PTL
  <2>2. zset'[p][m.e] = Abstract!Value(AbstractSeen'[p], m.e)
    BY <1>1, <2>1 DEF ZsetShowsValue
  <2>3. zset'[p][m.e] = y.score
    BY <1>1 DEF TypeOK
  <2> QED
    BY <1>5, <2>2, <2>3
<1>7. Abstract!Perform(p, o)
  BY <1>1, <1>4, <1>6 DEF Abstract!Perform
<1>8. Issued' = Issued \cup {m}
  BY <1>3 DEF Issued
<1>9. AbstractOps(Issued)' = AbstractOps(Issued')
  BY DEF AbstractOps
<1> QED
  BY <1>2, <1>7, <1>8, <1>9 DEF o

LEMMA SameCardinality ==
  ASSUME NEW S
  PROVE  Abstract!Cardinality(S) = Cardinality(S)
BY DEF Cardinality, Abstract!Cardinality, IsFiniteSet, Abstract!IsFiniteSet

\* A client's command issues its operation.
LEMMA CallIssues ==
  ASSUME IInv, IInv', NEW p \in Procs, NEW cmd \in Commands, NEW e \in Elements,
         NEW v \in Int, NEW t \in VC, t.id = p, Call(p, cmd, e, v, t)
  PROVE  Abstract!Issue(p, Kind(cmd), e, v, Removes(t.vector))
<1> DEFINE n == Cardinality(IssuedAt(p))
           m == [cmd |-> cmd, e |-> e, v |-> v, t |-> t, n |-> n]
           k == Cardinality({x \in AbstractSeen[p] : x.by = p})
           o == [kind |-> Kind(cmd), e |-> e, v |-> v, by |-> p, removes |-> Removes(t.vector),
                 n |-> k]
<1>1. Execute(p, m)
  BY DEF Call
<1>2. seen[p] \in SUBSET Message /\ IsFiniteSet(seen[p])
  BY DEF IInv, MetadataInv, TypeOK
<1>3. /\ IssuedAt(p) \in SUBSET Message /\ IsFiniteSet(IssuedAt(p)) /\ n \in Nat
  BY <1>2, FS_Subset, FS_CardinalityType DEF IssuedAt
<1>4. k = n
  <2>1. AbstractSeen[p] = AbstractOps(seen[p])
    BY DEF AbstractSeen
  <2>2. \A x \in seen[p] : AbstractOp(x).by = x.t.id
    BY DEF AbstractOp
  <2>3. {x \in AbstractSeen[p] : x.by = p} = AbstractOps(IssuedAt(p))
    BY <2>1, <2>2 DEF AbstractOps, IssuedAt
  <2> QED
    BY <1>3, <2>3, AbstractFacts
<1> HIDE DEF n, k
<1>5. m \in Message
  BY <1>3 DEF Message
<1>6. AbstractOp(m) = o
  BY <1>4 DEF AbstractOp
<1> HIDE DEF m
<1>7. Abstract!Perform(p, o) /\ AbstractOps(Issued)' = AbstractOps(Issued) \cup {o}
  <2>1. /\ Abstract!Perform(p, AbstractOp(m))
        /\ AbstractOps(Issued)' = AbstractOps(Issued) \cup {AbstractOp(m)}
    BY <1>1, <1>5, ExecutePerforms
  <2> QED
    BY <1>6, <2>1
<1> QED
  BY <1>7, SameCardinality DEF Abstract!Issue, k

\* Clients read None exactly where the header says that there is no element.
LEMMA NoneIffNexist ==
  ASSUME IInv, NEW p \in Procs, NEW e \in Elements
  PROVE  zset[p][e] = None <=> ~EXISTS(rwfze[p][e].header)
<1>1. rwfze[p][e] \in Rwfze
  BY DEF IInv, MetadataInv, TypeOK
<1>2. SCORE(rwfze[p][e]) \in Int
  BY <1>1 DEF SCORE, Rwfze
<1> QED
  BY <1>2, RwfRpqAssumption DEF IInv, MetadataInv, ZsetMatchesMetadata

\* The clock of a remove stands for one remove more, the next of its replica.
LEMMA NextRemove ==
  ASSUME NEW c \in VC, NEW p \in Procs, c.id = p
  PROVE  LET known == Removes(c.vector)
             k == Cardinality({r \in known : r[1] = p}) + 1
         IN  Removes(vc_now(c).vector) = known \cup {<<p, k>>}
<1> DEFINE known == Removes(c.vector)
           own == {r \in known : r[1] = p}
           w == vc_now(c).vector
           j == c.vector[p]
<1>1. j \in Nat /\ \A i \in Procs : c.vector[i] \in Nat
  BY DEF VC, Vector
<1>2. c.vector \in Vector /\ w \in Vector
  BY NowIsClock DEF VC
<1>3. \A i \in Procs : w[i] = IF i = p THEN j + 1 ELSE c.vector[i]
  BY DEF vc_now, VC, Vector
<1>4. Cardinality(own) = j
  <2> DEFINE f == [i \in 1 .. j |-> <<p, i>>]
  <2>1. f \in [1 .. j -> own]
    <3>1. \A i \in 1 .. j : <<p, i>> \in known
      BY <1>2, InRemoves
    <3> QED
      BY <3>1
  <2>2. \A r \in own : \E i \in 1 .. j : f[i] = r
    <3> TAKE r \in own
    <3>1. PICK q \in Procs : \E i \in 1 .. c.vector[q] : r = <<q, i>>
      BY DEF Removes
    <3>2. PICK i \in 1 .. c.vector[q] : r = <<q, i>>
      BY <3>1
    <3>3. q = p
      BY <3>2
    <3> QED
      BY <3>2, <3>3
  <2>3. \A a, b \in 1 .. j : f[a] = f[b] => a = b
    OBVIOUS
  <2> HIDE DEF own, j, f
  <2>4. f \in Bijection(1 .. j, own)
    BY <2>1, <2>2, <2>3, Fun_IsBij
  <2>5. IsFiniteSet(1 .. j) /\ Cardinality(1 .. j) = j
    <3>1. /\ IsFiniteSet(1 .. j) /\ 1 \in Int /\ j \in Int
          /\ Cardinality(1 .. j) = IF 1 > j THEN 0 ELSE j - 1 + 1
      BY <1>1, FS_Interval
    <3> QED
      BY <1>1, <3>1
  <2>6. ExistsBijection(1 .. j, own)
    BY <2>4 DEF ExistsBijection
  <2> QED
    BY <2>5, <2>6, FS_Bijection
<1>5. ASSUME NEW i \in Procs, NEW k
      PROVE  <<i, k>> \in Removes(w) <=> <<i, k>> \in known \/ (i = p /\ k = j + 1)
  <2>1. k \in 1 .. w[i] <=> k \in 1 .. c.vector[i] \/ (i = p /\ k = j + 1)
    BY <1>1, <1>3
  <2> QED
    BY <1>2, <2>1, InRemoves
<1>6. \A r : r \in Removes(w) \/ r \in known \cup {<<p, j + 1>>} => \E i \in Procs : \E k : r = <<i, k>>
  BY DEF Removes
<1>7. Removes(w) = known \cup {<<p, j + 1>>}
  <2> HIDE DEF w, known, j
  <2> QED
    BY <1>5, <1>6
<1> QED
  BY <1>4, <1>7

\* The queue starts empty.
LEMMA InitRefines == Init => Abstract!Init
<1> SUFFICES ASSUME Init PROVE Abstract!Init
  OBVIOUS
<1>1. \A p \in Procs : seen[p] = {}
  BY DEF Init
<1>2. Issued = {}
  BY <1>1 DEF Issued
<1>3. AbstractOps({}) = {}
  BY DEF AbstractOps
<1>4. AbstractSeen = [p \in Procs |-> {}]
  BY <1>1, <1>3 DEF AbstractSeen
<1> QED
  BY <1>2, <1>3, <1>4 DEF Init, Abstract!Init

\* A command is an Add, an Increase or a Remove, an execution at a peer a Deliver.
LEMMA StepRefines ==
  ASSUME IInv, IInv', Next
  PROVE  Abstract!Next
<1>1. ASSUME NEW p \in Procs, NEW e \in Elements, NEW v \in AddValues,
             rwfzaddCommand(p, e, v)
      PROVE  Abstract!Add(p, e, v)
  <2> DEFINE t == rwfze[p][e].header.current
  <2>1. /\ v \in Int /\ "rwfzadd" \in Commands /\ t \in VC /\ t.id = p
        /\ Kind("rwfzadd") = "add"
    BY RwfRpqAssumption, CommandClocks DEF Commands, Kind
  <2>2. Call(p, "rwfzadd", e, v, t) /\ ~EXISTS(rwfze[p][e].header)
    BY <1>1 DEF rwfzaddCommand
  <2>3. Abstract!Known(AbstractSeen[p], e) = Removes(t.vector)
    BY SeenIsAbstract
  <2>4. zset[p][e] = None
    BY <2>2, NoneIffNexist
  <2> HIDE DEF t
  <2>5. Abstract!Issue(p, "add", e, v, Removes(t.vector))
    BY <2>1, <2>2, CallIssues
  <2> QED
    BY <2>3, <2>4, <2>5 DEF Abstract!Add
<1>2. ASSUME NEW p \in Procs, NEW e \in Elements, NEW v \in IncValues,
             rwfzincrbyCommand(p, e, v)
      PROVE  Abstract!Increase(p, e, v)
  <2> DEFINE t == rwfze[p][e].header.current
  <2>1. /\ v \in Int /\ "rwfzincrby" \in Commands /\ t \in VC /\ t.id = p
        /\ Kind("rwfzincrby") = "inc"
    BY RwfRpqAssumption, CommandClocks DEF Commands, Kind
  <2>2. Call(p, "rwfzincrby", e, v, t) /\ EXISTS(rwfze[p][e].header)
    BY <1>2 DEF rwfzincrbyCommand
  <2>3. Abstract!Known(AbstractSeen[p], e) = Removes(t.vector)
    BY SeenIsAbstract
  <2>4. zset[p][e] # None
    BY <2>2, NoneIffNexist
  <2> HIDE DEF t
  <2>5. Abstract!Issue(p, "inc", e, v, Removes(t.vector))
    BY <2>1, <2>2, CallIssues
  <2> QED
    BY <2>3, <2>4, <2>5 DEF Abstract!Increase
<1>3. ASSUME NEW p \in Procs, NEW e \in Elements, rwfzremCommand(p, e)
      PROVE  Abstract!Remove(p, e)
  <2> DEFINE c == rwfze[p][e].header.current
             t == vc_now(c)
             known == Removes(c.vector)
             k == Cardinality({r \in known : r[1] = p}) + 1
  <2>1. /\ 0 \in Int /\ "rwfzrem" \in Commands /\ c \in VC /\ c.id = p
        /\ t \in VC /\ t.id = p /\ Kind("rwfzrem") = "rem"
    BY CommandClocks DEF Commands, Kind
  <2>2. Call(p, "rwfzrem", e, 0, t) /\ EXISTS(rwfze[p][e].header)
    BY <1>3 DEF rwfzremCommand
  <2>3. Abstract!Known(AbstractSeen[p], e) = known
    BY SeenIsAbstract
  <2>4. zset[p][e] # None
    BY <2>2, NoneIffNexist
  <2> HIDE DEF c
  <2>5. Removes(t.vector) = known \cup {<<p, k>>}
    BY <2>1, NextRemove
  <2> HIDE DEF t
  <2>6. Abstract!Issue(p, "rem", e, 0, Removes(t.vector))
    BY <2>1, <2>2, CallIssues
  <2> HIDE DEF known
  <2> QED
    BY <2>3, <2>4, <2>5, <2>6, SameCardinality DEF Abstract!Remove
<1>4. ASSUME NEW p \in Procs, NEW q \in Procs, ReplicaExecute(p, q)
      PROVE  \E o \in AbstractOps(Issued) : Abstract!Deliver(q, o)
  <2> DEFINE s == net[p][q]
             m == Head(s)
             o == AbstractOp(m)
  <2>1. s # << >> /\ Execute(q, m)
    BY <1>4 DEF ReplicaExecute
  <2>2. s \in Seq(Message) /\ Range(s) \cap seen[q] = {} /\ \A x \in Range(s) : x \in seen[p]
    <3>1. s \in Seq(Message)
      BY DEF IInv, MetadataInv, TypeOK, Network
    <3>2. Range(s) \cap seen[q] = {}
      BY DEF IInv, ExactlyOnce
    <3>3. \A x \in Range(s) : x \in seen[p]
      BY DEF IInv, MetadataInv, OriginSaw
    <3> QED
      BY <3>1, <3>2, <3>3
  <2>3. seen[q] \in SUBSET Message
    BY DEF IInv, MetadataInv, TypeOK
  <2> HIDE DEF s
  <2>4. m \in Message /\ m \in Range(s)
    BY <2>1, <2>2, RangeTail, HeadTailProperties
  <2> HIDE DEF m
  <2>5. m \notin seen[q] /\ m \in Issued
    BY <2>2, <2>4 DEF Issued
  <2>6. o \in AbstractOps(Issued)
    BY <2>5 DEF AbstractOps
  <2>7. o \notin AbstractSeen[q]
    BY <2>3, <2>4, <2>5, AbstractInjective DEF AbstractSeen, AbstractOps
  <2>8. Abstract!Perform(q, o) /\ AbstractOps(Issued)' = AbstractOps(Issued) \cup {o}
    BY <2>1, <2>4, ExecutePerforms
  <2> HIDE DEF o
  <2>9. AbstractOps(Issued)' = AbstractOps(Issued)
    BY <2>6, <2>8
  <2> QED
    BY <2>6, <2>7, <2>8, <2>9 DEF Abstract!Deliver
<1> QED
  BY <1>1, <1>2, <1>3, <1>4 DEF Next, ClientStep, Abstract!Next

\* RWF-RPQ implements the abstract Remove-Win queue, for any number of replicas.
THEOREM Refinement == Spec => ImplementsRemoveWin
<1>1. ASSUME IInv, IInv', [Next]_vars PROVE [Abstract!Next]_(Abstract!vars)
  <2>1. CASE Next
    BY <1>1, <2>1, StepRefines
  <2>2. CASE UNCHANGED vars
    <3>1. seen' = seen /\ zset' = zset
      BY <2>2 DEF vars
    <3> QED
      BY <3>1 DEF Abstract!vars, AbstractSeen, AbstractOps, Issued
  <2> QED
    BY <1>1, <2>1, <2>2
<1> QED
  BY <1>1, InitRefines, Invariance, PTL DEF Spec, ImplementsRemoveWin, Abstract!Spec
=============================================================================
