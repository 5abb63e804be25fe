---------------------------- MODULE RwfRpqProofs ----------------------------
(***************************************************************************)
(* Proofs about RWF-RPQ, for any number of replicas, elements, values and  *)
(* commands.  The effect of a command on one element is characterised      *)
(* first, without any reference to the network; the invariant MetadataInv  *)
(* is then preserved by executing a command anywhere.                      *)
(***************************************************************************)
EXTENDS RwfRpq, BasicLemmas

\* The provers in the order they are tried; the last ones are for slow machines.
USE SMT, Zenon, SMTT(30), ZenonT(30), SMTT(60)

-----------------------------------------------------------------------------
(***************************************************************************)
(* The effect of a command on one element.                                 *)
(***************************************************************************)

\* removeFunc merges the remove history of the command into that of the element,
\* and clears the element exactly if this brought a new remove.
LEMMA RemoveFuncFacts ==
  ASSUME NEW x \in Entry, NEW t \in VC
  PROVE  LET y == removeFunc(x, t)
             c == x.meta.header.current
         IN  /\ y \in Entry
             /\ y.meta.header.current = vc_update(c, t)
             /\ removeCheck(x.meta.header, t) =>
                  y.meta.header.pid = PID_NEXIST /\ y.meta.innate = 0 /\ y.score = None
             /\ ~removeCheck(x.meta.header, t) => y = x
<1> DEFINE y == removeFunc(x, t)
           h == x.meta.header
           c == x.meta.header.current
<1>1. c \in VC /\ h \in Header /\ x.meta \in Rwfze
  BY DEF Entry, Rwfze, Header
<1>2. CASE removeCheck(h, t)
  <2>1. REH_RMV_FUNC(h, t) \in Header
    BY <1>1, UpdateIsJoin DEF Header, REH_RMV_FUNC
  <2> QED
    BY <1>2, <2>1 DEF removeFunc, REH_RMV_FUNC, Entry, Rwfze
<1>3. CASE ~removeCheck(h, t)
  <2>1. \A i \in Procs : ~(t.vector[i] > c.vector[i])
    BY <1>1, <1>3 DEF removeCheck, VC, Vector
  <2>2. vc_update(c, t) = c
    BY <1>1, <2>1 DEF vc_update, VC, Vector
  <2> QED
    BY <1>3, <2>2 DEF removeFunc
<1> QED
  BY <1>2, <1>3

\* A command leaves a well-formed entry whose remove history is the join of the
\* old one and its own, and which is in the zset iff it exists.
LEMMA EffectJoins ==
  ASSUME NEW x \in Entry, NEW m \in Message
  PROVE  LET y == Effect(x, m)
         IN  /\ y \in Entry
             /\ y.meta.header.current = vc_update(x.meta.header.current, m.t)
             /\ x.score = (IF EXISTS(x.meta.header) THEN SCORE(x.meta) ELSE None) =>
                y.score = (IF EXISTS(y.meta.header) THEN SCORE(y.meta) ELSE None)
<1> DEFINE r == removeFunc(x, m.t)
           y == Effect(x, m)
           Matches(z) == z.score = IF EXISTS(z.meta.header) THEN SCORE(z.meta) ELSE None
<1>1. m.t \in VC /\ m.v \in Int /\ m.t.id \in Procs
  BY DEF Message, VC
<1>2. /\ r \in Entry
      /\ r.meta.header.current = vc_update(x.meta.header.current, m.t)
      /\ removeCheck(x.meta.header, m.t) => r.meta.header.pid = PID_NEXIST /\ r.score = None
      /\ ~removeCheck(x.meta.header, m.t) => r = x
  BY <1>1, RemoveFuncFacts
<1>3. Matches(x) => Matches(r)
  BY <1>2 DEF EXISTS
<1>4. r.meta \in Rwfze /\ r.meta.header \in Header /\ r.meta.acquired \in Int /\ r.meta.innate \in Int
  BY <1>2 DEF Entry, Rwfze
<1>5. \A z \in Rwfze : EXISTS(z.header) => Stored(z) \in Entry /\ Matches(Stored(z))
  BY DEF Stored, Entry, Rwfze, SCORE
<1>6. CASE m.cmd = "rwfzadd"
  <2>1. y = addEffect(x, m.v, m.t)
    BY <1>6 DEF Effect
  <2>2. CASE addCheck(r.meta.header, m.t)
    <3> DEFINE z == [r.meta EXCEPT !.header = addHeader(r.meta.header, m.t), !.innate = m.v]
    <3>1. /\ addHeader(r.meta.header, m.t) \in Header
          /\ addHeader(r.meta.header, m.t).current = r.meta.header.current
          /\ addHeader(r.meta.header, m.t).pid = m.t.id
      BY <1>1, <1>4 DEF addHeader, Header
    <3>2. z \in Rwfze /\ z.header = addHeader(r.meta.header, m.t)
      BY <1>1, <1>4, <3>1, Zenon DEF Rwfze
    <3>3. EXISTS(z.header)
      BY <1>1, <3>1, <3>2 DEF EXISTS, PID_NEXIST, Procs
    <3>4. y = Stored(z)
      BY <2>1, <2>2 DEF addEffect
    <3> HIDE DEF z
    <3> QED
      BY <1>2, <1>5, <3>1, <3>2, <3>3, <3>4 DEF Stored
  <2>3. CASE ~addCheck(r.meta.header, m.t)
    BY <1>2, <1>3, <2>1, <2>3 DEF addEffect
  <2> QED
    BY <2>2, <2>3
<1>7. CASE m.cmd = "rwfzincrby"
  <2>1. y = incrbyEffect(x, m.v, m.t)
    BY <1>7 DEF Effect
  <2>2. CASE updateCheck(r.meta.header, m.t)
    <3> DEFINE z == [r.meta EXCEPT !.header = updateHeader(r.meta.header),
                                   !.acquired = r.meta.acquired + m.v]
    <3>1. /\ updateHeader(r.meta.header) \in Header
          /\ updateHeader(r.meta.header).current = r.meta.header.current
          /\ EXISTS(updateHeader(r.meta.header))
      BY <1>4 DEF updateHeader, Header, EXISTS, PID_NEXIST, PID_WAIT_INNATE
    <3>a. PICK a \in Int : a = r.meta.acquired + m.v
      BY <1>1, <1>4
    <3>2. z \in Rwfze /\ z.header = updateHeader(r.meta.header)
      BY <1>4, <3>1, <3>a, Zenon DEF Rwfze
    <3>3. y = Stored(z)
      BY <2>1, <2>2 DEF incrbyEffect
    <3> HIDE DEF z
    <3> QED
      BY <1>2, <1>5, <3>1, <3>2, <3>3 DEF Stored
  <2>3. CASE ~updateCheck(r.meta.header, m.t)
    BY <1>2, <1>3, <2>1, <2>3 DEF incrbyEffect
  <2> QED
    BY <2>2, <2>3
<1>8. CASE m.cmd = "rwfzrem"
  BY <1>2, <1>3, <1>8 DEF Effect, remEffect
<1> QED
  BY <1>6, <1>7, <1>8 DEF Message, Commands

\* The cases of a command: what it does to pid and innate depends only on whether
\* it brings a new remove and on whether it knows all the removes known after it.
LEMMA EffectHeader ==
  ASSUME NEW x \in Entry, NEW m \in Message
  PROVE  LET h == x.meta.header
             y == Effect(x, m)
             k == y.meta.header
             fresh == removeCheck(h, m.t)
             old == IF fresh THEN PID_NEXIST ELSE h.pid
             innate == IF fresh THEN 0 ELSE x.meta.innate
             live == vc_equal(m.t, k.current)
         IN  /\ m.cmd = "rwfzadd" /\ live /\ old < m.t.id =>
                  k.pid = m.t.id /\ y.meta.innate = m.v
             /\ m.cmd = "rwfzadd" /\ live /\ ~(old < m.t.id) =>
                  k.pid = old /\ y.meta.innate = innate
             /\ m.cmd = "rwfzincrby" /\ live =>
                  /\ k.pid = IF old = PID_NEXIST THEN PID_WAIT_INNATE ELSE old
                  /\ y.meta.innate = innate
             /\ m.cmd = "rwfzrem" \/ ~live =>
                  k.pid = old /\ y.meta.innate = innate
<1> DEFINE r == removeFunc(x, m.t)
           h == x.meta.header
           old == IF removeCheck(h, m.t) THEN PID_NEXIST ELSE h.pid
           innate == IF removeCheck(h, m.t) THEN 0 ELSE x.meta.innate
           y == Effect(x, m)
           live == vc_equal(m.t, y.meta.header.current)
<1>1. m.t \in VC /\ m.v \in Int /\ m.cmd \in Commands
  BY DEF Message
<1>2. /\ r \in Entry /\ r.meta.header.pid = old /\ r.meta.innate = innate
      /\ r.meta.header.current = vc_update(h.current, m.t)
  BY <1>1, RemoveFuncFacts
<1>3. r.meta \in Rwfze /\ r.meta.header \in Header
  BY <1>2 DEF Entry, Rwfze
<1>4. y.meta.header.current = r.meta.header.current
  BY <1>2, EffectJoins
<1>5. live <=> vc_equal(m.t, r.meta.header.current)
  BY <1>4
<1>6. CASE m.cmd = "rwfzadd"
  <2>1. y = addEffect(x, m.v, m.t)
    BY <1>6 DEF Effect
  <2>2. CASE live /\ old < m.t.id
    <3>1. y.meta = [r.meta EXCEPT !.header = addHeader(r.meta.header, m.t), !.innate = m.v]
      BY <1>2, <1>5, <2>1, <2>2 DEF addEffect, addCheck, Stored
    <3>2. y.meta.header.pid = m.t.id /\ y.meta.innate = m.v
      BY <1>3, <3>1 DEF addHeader, Rwfze, Header
    <3> QED
      BY <1>6, <2>2, <3>2
  <2>3. CASE ~(live /\ old < m.t.id)
    <3>1. y = r
      BY <1>2, <1>5, <2>1, <2>3 DEF addEffect, addCheck
    <3> QED
      BY <1>2, <1>6, <2>3, <3>1
  <2> QED
    BY <2>2, <2>3
<1>7. CASE m.cmd = "rwfzincrby"
  <2>1. y = incrbyEffect(x, m.v, m.t)
    BY <1>7 DEF Effect
  <2>2. CASE live
    <3>1. y.meta = [r.meta EXCEPT !.header = updateHeader(r.meta.header),
                                  !.acquired = r.meta.acquired + m.v]
      BY <1>2, <1>5, <2>1, <2>2 DEF incrbyEffect, updateCheck, Stored
    <3>2. /\ y.meta.header.pid = IF old = PID_NEXIST THEN PID_WAIT_INNATE ELSE old
          /\ y.meta.innate = innate
      BY <1>2, <1>3, <3>1 DEF updateHeader, EXISTS, Rwfze, Header
    <3> QED
      BY <1>7, <2>2, <3>2
  <2>3. CASE ~live
    <3>1. y = r
      BY <1>2, <1>5, <2>1, <2>3 DEF incrbyEffect, updateCheck
    <3> QED
      BY <1>2, <1>7, <2>3, <3>1
  <2> QED
    BY <2>2, <2>3
<1>8. CASE m.cmd = "rwfzrem"
  BY <1>2, <1>8 DEF Effect, remEffect
<1> QED
  BY <1>1, <1>6, <1>7, <1>8 DEF Commands

\* The remove history stays the join of the histories of the commands executed.
LEMMA EffectKeepsJoin ==
  ASSUME NEW x \in Entry, NEW S \in SUBSET Message, NEW m \in Message,
         HistoryIsJoin(x.meta, S)
  PROVE  HistoryIsJoin(Effect(x, m).meta, S \cup {m})
<1> DEFINE y == Effect(x, m)
<1>1. x.meta.header.current \in VC /\ m.t \in VC
  BY DEF Entry, Rwfze, Header, Message
<1>2. \A i \in Procs : y.meta.header.current.vector[i] =
        IF m.t.vector[i] > x.meta.header.current.vector[i]
        THEN m.t.vector[i] ELSE x.meta.header.current.vector[i]
  BY <1>1, EffectJoins, UpdateIsJoin
<1>3. \A o \in S, i \in Procs : o.t.vector[i] \in Nat
  BY DEF Message, VC, Vector
<1>4. \A i \in Procs : x.meta.header.current.vector[i] \in Nat /\ m.t.vector[i] \in Nat
  BY <1>1 DEF VC, Vector
<1> HIDE DEF y
<1> QED
  BY <1>2, <1>3, <1>4 DEF HistoryIsJoin, y

\* Among the commands executed before m, those live after m were live before, and
\* there are none if m brings a new remove.
LEMMA LiveAfterEffect ==
  ASSUME NEW x \in Entry, NEW S \in SUBSET Message, NEW m \in Message,
         HistoryIsJoin(x.meta, S), NEW cmd
  PROVE  Live(Effect(x, m).meta, S, cmd) =
           IF removeCheck(x.meta.header, m.t) THEN {} ELSE Live(x.meta, S, cmd)
<1> DEFINE y == Effect(x, m)
           c == x.meta.header.current
<1>1. c \in VC /\ m.t \in VC
  BY DEF Entry, Rwfze, Header, Message
<1>2. y.meta.header.current = vc_update(c, m.t)
  BY EffectJoins
<1>3. CASE removeCheck(x.meta.header, m.t)
  <2>1. PICK i \in Procs : c.vector[i] < m.t.vector[i]
    BY <1>3 DEF removeCheck
  <2>2. y.meta.header.current.vector[i] = m.t.vector[i]
    BY <1>1, <1>2, <2>1, UpdateIsJoin
  <2>3. \A o \in S : o.t.vector[i] <= c.vector[i] /\ o.t.vector[i] \in Nat
    BY DEF HistoryIsJoin, Message, VC, Vector
  <2>4. c.vector[i] \in Nat /\ m.t.vector[i] \in Nat
    BY <1>1 DEF VC, Vector
  <2>5. \A o \in S : o.t.vector # y.meta.header.current.vector
    BY <2>1, <2>2, <2>3, <2>4
  <2> QED
    BY <1>3, <2>5 DEF Live, vc_equal
<1>4. CASE ~removeCheck(x.meta.header, m.t)
  <2>1. removeFunc(x, m.t) = x /\ removeFunc(x, m.t).meta.header.current = vc_update(c, m.t)
    BY <1>1, <1>4, RemoveFuncFacts
  <2>2. y.meta.header.current = c
    BY <1>2, <2>1
  <2> QED
    BY <1>4, <2>2 DEF Live
<1> QED
  BY <1>3, <1>4

\* The header goes on naming the live add of the greatest replica.
LEMMA EffectKeepsWinner ==
  ASSUME NEW x \in Entry, NEW S \in SUBSET Message, NEW m \in Message,
         HistoryIsJoin(x.meta, S), HeaderIsWinner(x.meta, S)
  PROVE  HeaderIsWinner(Effect(x, m).meta, S \cup {m})
<1> DEFINE y == Effect(x, m).meta
           fresh == removeCheck(x.meta.header, m.t)
           old == IF fresh THEN PID_NEXIST ELSE x.meta.header.pid
           innate == IF fresh THEN 0 ELSE x.meta.innate
           live == vc_equal(m.t, y.header.current)
           A == Live(y, S, "rwfzadd")
           I == Live(y, S, "rwfzincrby")
           A2 == Live(y, S \cup {m}, "rwfzadd")
           I2 == Live(y, S \cup {m}, "rwfzincrby")
<1>1. /\ old \in Procs \cup {-1, -2}
      /\ m.t.id \in Procs /\ m.cmd \in Commands
      /\ \A o \in S : o.t.id \in Procs
  BY DEF Entry, Rwfze, Header, Message, VC, PID_NEXIST, PID_WAIT_INNATE
<1>2. \A i \in Procs : i \in Nat /\ i # -1 /\ i # -2 /\ -1 < i /\ -2 < i
  BY NAssumption DEF Procs
<1>3. /\ old \in Procs => /\ \A o \in A : o.t.id <= old
                          /\ \E o \in A : o.t.id = old /\ o.v = innate
      /\ old \notin Procs => A = {} /\ innate = 0
      /\ old = -1 => I = {}
      /\ old = -2 => I # {}
  <2>1. CASE fresh
    BY <2>1, <1>2, LiveAfterEffect DEF PID_NEXIST
  <2>2. CASE ~fresh
    BY <2>2, LiveAfterEffect DEF HeaderIsWinner, PID_NEXIST, PID_WAIT_INNATE
  <2> QED
    BY <2>1, <2>2
<1>4. /\ A2 = IF m.cmd = "rwfzadd" /\ live THEN A \cup {m} ELSE A
      /\ I2 = IF m.cmd = "rwfzincrby" /\ live THEN I \cup {m} ELSE I
  BY DEF Live
<1>5. /\ m.cmd = "rwfzadd" /\ live /\ old < m.t.id => y.header.pid = m.t.id /\ y.innate = m.v
      /\ m.cmd = "rwfzadd" /\ live /\ ~(old < m.t.id) => y.header.pid = old /\ y.innate = innate
      /\ m.cmd = "rwfzincrby" /\ live =>
           y.header.pid = (IF old = -1 THEN -2 ELSE old) /\ y.innate = innate
      /\ m.cmd = "rwfzrem" \/ ~live => y.header.pid = old /\ y.innate = innate
  BY EffectHeader DEF PID_NEXIST, PID_WAIT_INNATE
<1>6. SUFFICES
        /\ y.header.pid \in Procs =>
             /\ \A o \in A2 : o.t.id <= y.header.pid
             /\ \E o \in A2 : o.t.id = y.header.pid /\ o.v = y.innate
        /\ y.header.pid \notin Procs => A2 = {} /\ y.innate = 0
        /\ y.header.pid = -1 => I2 = {}
        /\ y.header.pid = -2 => I2 # {}
  BY DEF HeaderIsWinner, PID_NEXIST, PID_WAIT_INNATE
<1>7. \A o \in A : o.t.id \in Procs
  BY <1>1 DEF Live
<1> HIDE DEF y, fresh, old, innate, live, A, I, A2, I2
<1>8. CASE m.cmd = "rwfzadd" /\ live
  <2>1. CASE old < m.t.id
    <3>1. y.header.pid = m.t.id /\ y.innate = m.v /\ A2 = A \cup {m}
      BY <1>4, <1>5, <1>8, <2>1
    <3>2. \A o \in A : o.t.id <= m.t.id
      BY <1>1, <1>2, <1>3, <1>7, <2>1
    <3> QED
      BY <1>1, <1>2, <3>1, <3>2
  <2>2. CASE ~(old < m.t.id)
    <3>1. y.header.pid = old /\ y.innate = innate /\ A2 = A \cup {m}
      BY <1>4, <1>5, <1>8, <2>2
    <3>2. old \in Procs
      BY <1>1, <1>2, <2>2
    <3>3. m.t.id <= old
      BY <1>1, <1>2, <2>2, <3>2
    <3> QED
      BY <1>2, <1>3, <3>1, <3>2, <3>3
  <2> QED
    BY <2>1, <2>2
<1>9. CASE m.cmd = "rwfzincrby" /\ live
  <2>1. /\ y.header.pid = (IF old = -1 THEN -2 ELSE old) /\ y.innate = innate
        /\ A2 = A /\ I2 = I \cup {m}
    BY <1>4, <1>5, <1>9
  <2> QED
    BY <1>1, <1>2, <1>3, <2>1
<1>10. CASE m.cmd = "rwfzrem" \/ ~live
  <2>1. y.header.pid = old /\ y.innate = innate /\ A2 = A /\ I2 = I
    BY <1>4, <1>5, <1>10
  <2> QED
    BY <1>3, <2>1
<1> QED
  BY <1>1, <1>8, <1>9, <1>10 DEF Commands
-----------------------------------------------------------------------------
(***************************************************************************)
(* The inductive invariant.                                                *)
(***************************************************************************)

\* Initially the invariant holds: new elements, nothing executed or in flight.
LEMMA InitMetadata == Init => MetadataInv
<1> SUFFICES ASSUME Init PROVE MetadataInv
  OBVIOUS
<1> USE DEF Init
<1>1. \A p \in Procs : REH_INIT(p) \in Header /\ vc_new(p) \in VC
  BY DEF REH_INIT, Header, vc_new, VC, Vector
<1>2. \A p \in Procs : rwfzeNew(p) \in Rwfze
  BY <1>1 DEF rwfzeNew, Rwfze
<1>3. net \in Network(Message)
  BY EmptySeq DEF EmptyNetwork, Network
<1>4. TypeOK
  BY <1>2, <1>3 DEF TypeOK
<1>5. \A p \in Procs : IsFiniteSet(seen[p])
  BY FS_EmptySet
<1>6. \A p \in Procs, e \in Elements : SeenOf(p, e) = {}
  BY DEF SeenOf
<1>7. \A p \in Procs, e \in Elements :
        /\ rwfze[p][e].header.pid = PID_NEXIST /\ rwfze[p][e].innate = 0
        /\ rwfze[p][e].header.current.id = p
        /\ \A i \in Procs : rwfze[p][e].header.current.vector[i] = 0
  BY DEF rwfzeNew, REH_INIT, vc_new
<1>8. \A p \in Procs, e \in Elements :
        HistoryIsJoin(rwfze[p][e], {}) /\ HeaderIsWinner(rwfze[p][e], {})
  BY <1>7, NAssumption
     DEF HistoryIsJoin, HeaderIsWinner, Live, PID_NEXIST, PID_WAIT_INNATE, Procs
<1>9. ZsetMatchesMetadata
  BY <1>7 DEF ZsetMatchesMetadata, EXISTS
<1>10. \A p, q \in Procs : Range(net[p][q]) = {}
  BY DEF EmptyNetwork, Range
<1>11. OriginSaw /\ OneAddPerHistory /\ IncHasAdd /\ SeenOrInFlight
  BY <1>7, <1>10 DEF OriginSaw, OneAddPerHistory, IncHasAdd, SeenOrInFlight
<1> QED
  BY <1>4, <1>5, <1>6, <1>8, <1>9, <1>11 DEF MetadataInv

\* Executing a command anywhere keeps what MetadataInv says of the elements.
LEMMA ExecuteKeepsElements ==
  ASSUME MetadataInv, NEW p \in Procs, NEW m \in Message, Execute(p, m)
  PROVE  /\ rwfze' \in [Procs -> [Elements -> Rwfze]]
         /\ zset' \in [Procs -> [Elements -> Int \cup {None}]]
         /\ seen' \in [Procs -> SUBSET Message]
         /\ \A q \in Procs : IsFiniteSet(seen'[q])
         /\ \A q \in Procs, e \in Elements :
              /\ HistoryIsJoin(rwfze'[q][e], SeenOf(q, e)')
              /\ HeaderIsWinner(rwfze'[q][e], SeenOf(q, e)')
              /\ rwfze'[q][e].header.current.id = q
         /\ ZsetMatchesMetadata'
<1> DEFINE x == EntryOf(p, m.e)
           y == Effect(x, m)
<1>1. TypeOK /\ m.e \in Elements
  BY DEF MetadataInv, Message
<1>2. x \in Entry /\ x.meta = rwfze[p][m.e] /\ x.score = zset[p][m.e]
  BY <1>1 DEF EntryOf, Entry, TypeOK
<1>3. /\ rwfze' = [rwfze EXCEPT ![p][m.e] = y.meta]
      /\ zset' = [zset EXCEPT ![p][m.e] = y.score]
      /\ seen' = [seen EXCEPT ![p] = seen[p] \cup {m}]
  BY DEF Execute
<1>4. y \in Entry /\ y.meta \in Rwfze /\ y.score \in Int \cup {None}
  BY <1>2, EffectJoins DEF Entry
<1>5. SeenOf(p, m.e) \in SUBSET Message
  BY <1>1 DEF SeenOf, TypeOK
<1>6. \A q \in Procs, e \in Elements :
        SeenOf(q, e)' = IF q = p /\ e = m.e THEN SeenOf(q, e) \cup {m} ELSE SeenOf(q, e)
  BY <1>1, <1>3 DEF SeenOf, TypeOK
<1>7. /\ HistoryIsJoin(x.meta, SeenOf(p, m.e)) /\ HeaderIsWinner(x.meta, SeenOf(p, m.e))
      /\ x.meta.header.current.id = p
      /\ x.score = IF EXISTS(x.meta.header) THEN SCORE(x.meta) ELSE None
  BY <1>1, <1>2 DEF MetadataInv, OriginSaw, ZsetMatchesMetadata
<1>8. /\ HistoryIsJoin(y.meta, SeenOf(p, m.e) \cup {m})
      /\ HeaderIsWinner(y.meta, SeenOf(p, m.e) \cup {m})
  BY <1>2, <1>5, <1>7, EffectKeepsJoin, EffectKeepsWinner
<1>9. y.meta.header.current.id = p
  <2>1. x.meta.header.current \in VC /\ m.t \in VC
    BY <1>2 DEF Entry, Rwfze, Header, Message
  <2>2. y.meta.header.current = vc_update(x.meta.header.current, m.t)
    BY <1>2, EffectJoins
  <2>3. vc_update(x.meta.header.current, m.t).id = x.meta.header.current.id
    BY <2>1, UpdateIsJoin
  <2> QED
    BY <1>7, <2>2, <2>3
<1>10. y.score = IF EXISTS(y.meta.header) THEN SCORE(y.meta) ELSE None
  BY <1>2, <1>7, EffectJoins
<1> HIDE DEF x, y
<1>11. \A q \in Procs, e \in Elements :
         /\ rwfze'[q][e] = IF q = p /\ e = m.e THEN y.meta ELSE rwfze[q][e]
         /\ zset'[q][e] = IF q = p /\ e = m.e THEN y.score ELSE zset[q][e]
  BY <1>1, <1>3 DEF TypeOK
<1>12. /\ rwfze' \in [Procs -> [Elements -> Rwfze]]
       /\ zset' \in [Procs -> [Elements -> Int \cup {None}]]
       /\ seen' \in [Procs -> SUBSET Message]
  BY <1>1, <1>3, <1>4 DEF TypeOK
<1>13. \A q \in Procs : IsFiniteSet(seen'[q])
  BY <1>1, <1>3, FS_AddElement DEF MetadataInv, TypeOK
<1>14. \A q \in Procs, e \in Elements :
         /\ HistoryIsJoin(rwfze'[q][e], SeenOf(q, e)')
         /\ HeaderIsWinner(rwfze'[q][e], SeenOf(q, e)')
         /\ rwfze'[q][e].header.current.id = q
  <2> TAKE q \in Procs, e \in Elements
  <2>1. CASE q = p /\ e = m.e
    BY <1>6, <1>8, <1>9, <1>11, <2>1
  <2>2. CASE ~(q = p /\ e = m.e)
    <3>1. rwfze'[q][e] = rwfze[q][e] /\ SeenOf(q, e)' = SeenOf(q, e)
      BY <1>6, <1>11, <2>2
    <3> QED
      BY <3>1 DEF MetadataInv, OriginSaw
  <2> QED
    BY <2>1, <2>2
<1>15. ZsetMatchesMetadata'
  BY <1>10, <1>11 DEF MetadataInv, ZsetMatchesMetadata
<1> QED
  BY <1>12, <1>13, <1>14, <1>15

\* A client's command keeps MetadataInv, given what its precondition ensures about the
\* commands already executed.
LEMMA CallKeepsMetadata ==
  ASSUME MetadataInv, NEW p \in Procs, NEW cmd \in Commands, NEW e \in Elements,
         NEW v \in Int, NEW t \in VC, t.id = p,
         Call(p, cmd, e, v, t),
         cmd = "rwfzadd" =>
           \A a \in seen[p] : ~(a.cmd = "rwfzadd" /\ a.e = e /\ vc_equal(a.t, t)),
         cmd = "rwfzincrby" =>
           \E q \in Procs : \E a \in seen[q] :
             a.cmd = "rwfzadd" /\ a.e = e /\ vc_equal(a.t, t)
  PROVE  MetadataInv'
<1> DEFINE n == Cardinality(IssuedAt(p))
           m == [cmd |-> cmd, e |-> e, v |-> v, t |-> t, n |-> n]
<1>1. Execute(p, m) /\ net' = replicationBroadcast(net, p, m)
  BY DEF Call
<1>2. TypeOK /\ IsFiniteSet(seen[p])
  BY DEF MetadataInv
<1>3. n \in Nat
  BY <1>2, FS_Subset, FS_CardinalityType DEF IssuedAt
<1>4. /\ m \in Message
      /\ m.cmd = cmd /\ m.e = e /\ m.v = v /\ m.t = t
  BY <1>3 DEF Message
<1> HIDE DEF m
<1>5. seen' = [seen EXCEPT ![p] = seen[p] \cup {m}]
  BY <1>1 DEF Execute
<1>6. \A q \in Procs : seen'[q] = IF q = p THEN seen[p] \cup {m} ELSE seen[q]
  BY <1>2, <1>5 DEF TypeOK
<1>7. \A q, r \in Procs :
        net'[q][r] = IF q = p /\ r # p THEN Append(net[q][r], m) ELSE net[q][r]
  BY <1>1, <1>2 DEF replicationBroadcast, TypeOK, Network
<1>8. \A q, r \in Procs : net[q][r] \in Seq(Message)
  BY <1>2 DEF TypeOK, Network
<1>9. net' \in Network(Message)
  <2>1. \A q \in Procs : [r \in Procs |-> IF r = p THEN net[p][r] ELSE Append(net[p][r], m)]
                           \in [Procs -> Seq(Message)]
    BY <1>4, <1>8
  <2> QED
    BY <1>1, <1>2, <2>1, SMTT(30) DEF replicationBroadcast, TypeOK, Network
<1>10. /\ \A q \in Procs : IsFiniteSet(seen'[q])
       /\ \A q \in Procs, k \in Elements :
            /\ HistoryIsJoin(rwfze'[q][k], SeenOf(q, k)')
            /\ HeaderIsWinner(rwfze'[q][k], SeenOf(q, k)')
            /\ rwfze'[q][k].header.current.id = q
       /\ ZsetMatchesMetadata'
  BY <1>1, <1>4, ExecuteKeepsElements
<1>11. TypeOK'
  BY <1>1, <1>4, <1>9, ExecuteKeepsElements DEF TypeOK
<1>12. \A q, r \in Procs :
         /\ q = p /\ r # p => Range(net'[q][r]) = Range(net[q][r]) \cup {m}
         /\ ~(q = p /\ r # p) => Range(net'[q][r]) = Range(net[q][r])
  <2> TAKE q, r \in Procs
  <2>1. Range(Append(net[q][r], m)) = Range(net[q][r]) \cup {m}
    BY <1>4, <1>8, RangeAppend
  <2> QED
    BY <1>7, <2>1
<1>13. OriginSaw'
  <2>1. \A q, r \in Procs : \A o \in Range(net'[q][r]) : o \in seen'[q] /\ o.t.id = q
    <3> TAKE q, r \in Procs
    <3>1. \A o \in Range(net[q][r]) : o \in seen[q] /\ o.t.id = q
      BY DEF MetadataInv, OriginSaw
    <3>2. \A o \in Range(net'[q][r]) : o \in Range(net[q][r]) \/ (q = p /\ o = m)
      BY <1>12
    <3> QED
      BY <1>4, <1>6, <3>1, <3>2
  <2>2. \A q \in Procs : \A o \in seen'[q] : o \in seen'[o.t.id]
    <3>1. \A q \in Procs : \A o \in seen[q] : o.t.id \in Procs
      BY <1>2 DEF TypeOK, Message, VC
    <3>2. \A q \in Procs : \A o \in seen[q] : o \in seen[o.t.id]
      BY DEF MetadataInv, OriginSaw
    <3>3. \A q \in Procs : seen[q] \subseteq seen'[q]
      BY <1>6
    <3>4. m \in seen'[m.t.id]
      BY <1>4, <1>6
    <3>5. \A q \in Procs : \A o \in seen'[q] : o \in seen[q] \/ o = m
      BY <1>6
    <3> QED
      BY <3>1, <3>2, <3>3, <3>4, <3>5
  <2> QED
    BY <1>10, <2>1, <2>2 DEF OriginSaw
<1>14. OneAddPerHistory'
  BY <1>4, <1>6 DEF MetadataInv, OneAddPerHistory, vc_equal
<1>15. IncHasAdd'
  <2> SUFFICES ASSUME NEW r \in Procs, NEW o \in seen'[r], o.cmd = "rwfzincrby"
               PROVE  \E q \in Procs : \E a \in seen'[q] :
                        a.cmd = "rwfzadd" /\ a.e = o.e /\ vc_equal(a.t, o.t)
    BY DEF IncHasAdd, vc_equal
  <2>1. o \in seen[r] \/ o = m
    BY <1>6
  <2>2. \E q \in Procs : \E a \in seen[q] :
          a.cmd = "rwfzadd" /\ a.e = o.e /\ vc_equal(a.t, o.t)
    BY <1>4, <2>1 DEF MetadataInv, IncHasAdd
  <2>3. \A q \in Procs : seen[q] \subseteq seen'[q]
    BY <1>6
  <2> QED
    BY <2>2, <2>3
<1>16. SeenOrInFlight'
  <2> SUFFICES ASSUME NEW q \in Procs, NEW r \in Procs, NEW o \in seen'[q],
                      o.t.id = q, q # r
               PROVE  o \in seen'[r] \cup Range(net'[q][r])
    BY DEF SeenOrInFlight
  <2>1. o \in seen[q] => o \in seen[r] \cup Range(net[q][r])
    BY DEF MetadataInv, SeenOrInFlight
  <2>2. Range(net[q][r]) \subseteq Range(net'[q][r])
    BY <1>12
  <2>3. CASE o \in seen[q]
    BY <1>6, <2>1, <2>2, <2>3
  <2>4. CASE o \notin seen[q]
    <3>1. o = m /\ q = p
      BY <1>6, <2>4
    <3>2. m \in Range(net'[q][r])
      BY <1>12, <3>1
    <3> QED
      BY <3>1, <3>2
  <2> QED
    BY <2>3, <2>4
<1> QED
  BY <1>10, <1>11, <1>13, <1>14, <1>15, <1>16 DEF MetadataInv

\* The execution of a command from a peer keeps MetadataInv.
LEMMA ReplicaExecuteKeepsMetadata ==
  ASSUME MetadataInv, NEW p \in Procs, NEW q \in Procs, ReplicaExecute(p, q)
  PROVE  MetadataInv'
<1> DEFINE m == Head(net[p][q])
<1>1. /\ net[p][q] # << >> /\ Execute(q, m)
      /\ net' = [net EXCEPT ![p][q] = Tail(net[p][q])]
  BY DEF ReplicaExecute, Consume
<1>2. TypeOK
  BY DEF MetadataInv
<1>3. \A r, z \in Procs : net[r][z] \in Seq(Message)
  BY <1>2 DEF TypeOK, Network
<1>4. m \in Message /\ Tail(net[p][q]) \in Seq(Message)
  BY <1>1, <1>3, HeadTailProperties
<1>5. Range(net[p][q]) = Range(Tail(net[p][q])) \cup {m}
  BY <1>1, <1>3, RangeTail
<1>6. m \in seen[p] /\ m.t.id = p
  BY <1>5 DEF MetadataInv, OriginSaw
<1> HIDE DEF m
<1>7. seen' = [seen EXCEPT ![q] = seen[q] \cup {m}]
  BY <1>1 DEF Execute
<1>8. \A r \in Procs : seen'[r] = IF r = q THEN seen[q] \cup {m} ELSE seen[r]
  BY <1>2, <1>7 DEF TypeOK
<1>9. \A r, z \in Procs :
        net'[r][z] = IF r = p /\ z = q THEN Tail(net[p][q]) ELSE net[r][z]
  BY <1>1, <1>2 DEF TypeOK, Network
<1>10. net' \in Network(Message)
  BY <1>1, <1>2, <1>4 DEF TypeOK, Network
<1>11. /\ \A r \in Procs : IsFiniteSet(seen'[r])
       /\ \A r \in Procs, k \in Elements :
            /\ HistoryIsJoin(rwfze'[r][k], SeenOf(r, k)')
            /\ HeaderIsWinner(rwfze'[r][k], SeenOf(r, k)')
            /\ rwfze'[r][k].header.current.id = r
       /\ ZsetMatchesMetadata'
  BY <1>1, <1>4, ExecuteKeepsElements
<1>12. TypeOK'
  BY <1>1, <1>4, <1>10, ExecuteKeepsElements DEF TypeOK
<1>13. \A r, z \in Procs :
         /\ r = p /\ z = q => Range(net[r][z]) = Range(net'[r][z]) \cup {m}
         /\ ~(r = p /\ z = q) => Range(net'[r][z]) = Range(net[r][z])
  BY <1>5, <1>9
<1>14. \A r \in Procs : seen[r] \subseteq seen'[r]
  BY <1>8
<1>15. \A r \in Procs : \A o \in seen'[r] : o \in seen[r] \/ o = m
  BY <1>8
<1>16. \A r \in Procs : \A o \in seen[r] : o.t.id \in Procs
  BY <1>2 DEF TypeOK, Message, VC
<1>17. OriginSaw'
  <2>1. \A r, z \in Procs : \A o \in Range(net'[r][z]) : o \in seen'[r] /\ o.t.id = r
    <3> TAKE r, z \in Procs
    <3>1. Range(net'[r][z]) \subseteq Range(net[r][z])
      BY <1>13
    <3>2. \A o \in Range(net[r][z]) : o \in seen[r] /\ o.t.id = r
      BY DEF MetadataInv, OriginSaw
    <3> QED
      BY <1>14, <3>1, <3>2
  <2>2. \A r \in Procs : \A o \in seen'[r] : o \in seen'[o.t.id]
    <3>1. \A r \in Procs : \A o \in seen[r] : o \in seen[o.t.id]
      BY DEF MetadataInv, OriginSaw
    <3> QED
      BY <1>6, <1>14, <1>15, <1>16, <3>1
  <2> QED
    BY <1>11, <2>1, <2>2 DEF OriginSaw
<1>18. OneAddPerHistory'
  <2>1. \A r \in Procs : \A o \in seen'[r] : o.t.id = r => o \in seen[r]
    BY <1>6, <1>15
  <2>2. \A r \in Procs : \A o1, o2 \in seen[r] :
          /\ o1.cmd = "rwfzadd" /\ o2.cmd = "rwfzadd"
          /\ o1.e = o2.e /\ o1.t.id = r /\ o1.t = o2.t
          => o1.v = o2.v
    BY DEF MetadataInv, OneAddPerHistory
  <2> QED
    BY <2>1, <2>2 DEF OneAddPerHistory
<1>19. IncHasAdd'
  BY <1>6, <1>14, <1>15 DEF MetadataInv, IncHasAdd
<1>20. SeenOrInFlight'
  <2> SUFFICES ASSUME NEW r \in Procs, NEW z \in Procs, NEW o \in seen'[r],
                      o.t.id = r, r # z
               PROVE  o \in seen'[z] \cup Range(net'[r][z])
    BY DEF SeenOrInFlight
  <2>1. o \in seen[r]
    BY <1>6, <1>15
  <2>2. o \in seen[z] \cup Range(net[r][z])
    BY <2>1 DEF MetadataInv, SeenOrInFlight
  <2>3. CASE r = p /\ z = q
    BY <1>8, <1>13, <2>2, <2>3
  <2>4. CASE ~(r = p /\ z = q)
    BY <1>13, <1>14, <2>2, <2>4, SMTT(30)
  <2> QED
    BY <2>3, <2>4
<1> QED
  BY <1>11, <1>12, <1>17, <1>18, <1>19, <1>20 DEF MetadataInv

\* What the preconditions ensure: no live add where RWFZADD is accepted, and some
\* live add, here or elsewhere, where RWFZINCRBY is accepted.
LEMMA Preconditions ==
  ASSUME MetadataInv, NEW p \in Procs, NEW e \in Elements
  PROVE  LET h == rwfze[p][e].header
         IN  /\ h.current \in VC /\ h.current.id = p
             /\ ~EXISTS(h) => \A a \in seen[p] :
                  ~(a.cmd = "rwfzadd" /\ a.e = e /\ vc_equal(a.t, h.current))
             /\ EXISTS(h) => \E q \in Procs : \E a \in seen[q] :
                  a.cmd = "rwfzadd" /\ a.e = e /\ vc_equal(a.t, h.current)
<1> DEFINE r == rwfze[p][e]
           h == r.header
           S == SeenOf(p, e)
<1>1. h \in Header /\ h.current \in VC
  BY DEF MetadataInv, TypeOK, Rwfze, Header
<1>2. h.current.id = p
  BY DEF MetadataInv, OriginSaw
<1>3. HeaderIsWinner(r, S)
  BY DEF MetadataInv
<1>4. \A i \in Procs : i # -1 /\ i # -2
  BY NAssumption DEF Procs
<1>5. CASE ~EXISTS(h)
  <2>1. Live(r, S, "rwfzadd") = {}
    BY <1>3, <1>4, <1>5 DEF EXISTS, HeaderIsWinner, PID_NEXIST
  <2> QED
    BY <1>1, <1>2, <1>5, <2>1 DEF Live, SeenOf
<1>6. CASE EXISTS(h) /\ h.pid \in Procs
  <2>1. PICK a \in Live(r, S, "rwfzadd") : TRUE
    BY <1>3, <1>6 DEF HeaderIsWinner
  <2>2. a \in seen[p] /\ a.cmd = "rwfzadd" /\ a.e = e /\ vc_equal(a.t, h.current)
    BY <2>1 DEF Live, SeenOf
  <2> QED
    BY <1>1, <1>2, <1>6, <2>2
<1>7. CASE EXISTS(h) /\ h.pid \notin Procs
  <2>1. h.pid = PID_WAIT_INNATE
    BY <1>1, <1>7 DEF Header, EXISTS
  <2>2. PICK o \in Live(r, S, "rwfzincrby") : TRUE
    BY <1>3, <2>1 DEF HeaderIsWinner
  <2>3. o \in seen[p] /\ o.cmd = "rwfzincrby" /\ o.e = e /\ vc_equal(o.t, h.current)
    BY <2>2 DEF Live, SeenOf
  <2>4. \E q \in Procs : \E a \in seen[q] :
          a.cmd = "rwfzadd" /\ a.e = o.e /\ vc_equal(a.t, o.t)
    BY <2>3 DEF MetadataInv, IncHasAdd
  <2> QED
    BY <1>1, <1>2, <1>7, <2>3, <2>4 DEF vc_equal
<1> QED
  BY <1>5, <1>6, <1>7

\* Every step of t_rwfzset.c, a client's or a peer's, keeps MetadataInv.
LEMMA NextKeepsMetadata == MetadataInv /\ [Next]_vars => MetadataInv'
<1> SUFFICES ASSUME MetadataInv, [Next]_vars PROVE MetadataInv'
  OBVIOUS
<1>1. ASSUME NEW p \in Procs, NEW e \in Elements, NEW v \in AddValues,
             rwfzaddCommand(p, e, v)
      PROVE  MetadataInv'
  <2>1. v \in Int
    BY RwfRpqAssumption
  <2> DEFINE t == rwfze[p][e].header.current
  <2>2. /\ t \in VC /\ t.id = p
        /\ ~EXISTS(rwfze[p][e].header) => \A a \in seen[p] :
             ~(a.cmd = "rwfzadd" /\ a.e = e /\ vc_equal(a.t, t))
        /\ EXISTS(rwfze[p][e].header) => \E q \in Procs : \E a \in seen[q] :
             a.cmd = "rwfzadd" /\ a.e = e /\ vc_equal(a.t, t)
    BY Preconditions
  <2>3. ~EXISTS(rwfze[p][e].header) /\ Call(p, "rwfzadd", e, v, t)
    BY <1>1 DEF rwfzaddCommand
  <2> HIDE DEF t
  <2> QED
    BY <2>1, <2>2, <2>3, CallKeepsMetadata DEF Commands
<1>2. ASSUME NEW p \in Procs, NEW e \in Elements, NEW v \in IncValues,
             rwfzincrbyCommand(p, e, v)
      PROVE  MetadataInv'
  <2>1. v \in Int
    BY RwfRpqAssumption
  <2> DEFINE t == rwfze[p][e].header.current
  <2>2. /\ t \in VC /\ t.id = p
        /\ ~EXISTS(rwfze[p][e].header) => \A a \in seen[p] :
             ~(a.cmd = "rwfzadd" /\ a.e = e /\ vc_equal(a.t, t))
        /\ EXISTS(rwfze[p][e].header) => \E q \in Procs : \E a \in seen[q] :
             a.cmd = "rwfzadd" /\ a.e = e /\ vc_equal(a.t, t)
    BY Preconditions
  <2>3. EXISTS(rwfze[p][e].header) /\ Call(p, "rwfzincrby", e, v, t)
    BY <1>2 DEF rwfzincrbyCommand
  <2> HIDE DEF t
  <2> QED
    BY <2>1, <2>2, <2>3, CallKeepsMetadata DEF Commands
<1>3. ASSUME NEW p \in Procs, NEW e \in Elements, rwfzremCommand(p, e)
      PROVE  MetadataInv'
  <2> DEFINE t == vc_now(rwfze[p][e].header.current)
  <2>1. t \in VC /\ t.id = p
    BY Preconditions, NowIsClock
  <2>2. Call(p, "rwfzrem", e, 0, t)
    BY <1>3 DEF rwfzremCommand
  <2> HIDE DEF t
  <2> QED
    BY <2>1, <2>2, CallKeepsMetadata DEF Commands
<1>4. ASSUME NEW p \in Procs, NEW q \in Procs, ReplicaExecute(p, q)
      PROVE  MetadataInv'
  BY <1>4, ReplicaExecuteKeepsMetadata
<1>5. CASE UNCHANGED vars
  <2>1. TypeOK' /\ ZsetMatchesMetadata' /\ \A p \in Procs : IsFiniteSet(seen'[p])
    BY <1>5 DEF vars, MetadataInv, TypeOK, ZsetMatchesMetadata
  <2>2. ASSUME NEW p \in Procs, NEW e \in Elements
        PROVE  (HistoryIsJoin(rwfze[p][e], SeenOf(p, e)) /\ HeaderIsWinner(rwfze[p][e], SeenOf(p, e)))'
    <3>1. rwfze' = rwfze /\ seen' = seen
      BY <1>5 DEF vars
    <3>2. HistoryIsJoin(rwfze[p][e], SeenOf(p, e)) /\ HeaderIsWinner(rwfze[p][e], SeenOf(p, e))
      BY DEF MetadataInv
    <3>3. HistoryIsJoin(rwfze[p][e], SeenOf(p, e))'
      BY <3>1, <3>2 DEF HistoryIsJoin, SeenOf
    <3>4. HeaderIsWinner(rwfze[p][e], SeenOf(p, e))'
      BY <3>1, <3>2, Zenon DEF HeaderIsWinner, Live, SeenOf
    <3> QED
      BY <3>3, <3>4
  <2>3. OriginSaw' /\ OneAddPerHistory'
    BY <1>5 DEF vars, MetadataInv, OriginSaw, OneAddPerHistory
  <2>4. IncHasAdd' /\ SeenOrInFlight'
    BY <1>5 DEF vars, MetadataInv, IncHasAdd, SeenOrInFlight
  <2> QED
    BY <2>1, <2>2, <2>3, <2>4 DEF MetadataInv
<1> QED
  BY <1>1, <1>2, <1>3, <1>4, <1>5 DEF Next, ClientStep

\* MetadataInv is an invariant of RWF-RPQ: at every replica the state of an element is
\* what the set of commands executed there determines.
THEOREM MetadataInvariance == Spec => []MetadataInv
BY InitMetadata, NextKeepsMetadata, PTL DEF Spec

\* Type correctness.
THEOREM TypeCorrect == Spec => []TypeOK
<1>1. MetadataInv => TypeOK
  BY DEF MetadataInv
<1> QED
  BY <1>1, MetadataInvariance, PTL

\* The zset is never out of step with the metadata.
THEOREM ZsetConsistent == Spec => []ZsetMatchesMetadata
<1>1. MetadataInv => ZsetMatchesMetadata
  BY DEF MetadataInv
<1> QED
  BY <1>1, MetadataInvariance, PTL
-----------------------------------------------------------------------------
(***************************************************************************)
(* Convergence and rest.                                                   *)
(***************************************************************************)

\* Two replicas with the same commands have the same remove history: each is the
\* join of the same clocks.
LEMMA SameHistory ==
  ASSUME NEW r1 \in Rwfze, NEW r2 \in Rwfze, NEW S \in SUBSET Message,
         HistoryIsJoin(r1, S), HistoryIsJoin(r2, S)
  PROVE  vc_equal(r1.header.current, r2.header.current)
<1> DEFINE c1 == r1.header.current.vector
           c2 == r2.header.current.vector
<1>1. c1 \in [Procs -> Nat] /\ c2 \in [Procs -> Nat]
  BY DEF Rwfze, Header, VC, Vector
<1>2. ASSUME NEW i \in Procs PROVE c1[i] <= c2[i] /\ c2[i] <= c1[i]
  BY <1>1 DEF HistoryIsJoin
<1>3. \A i \in Procs : c1[i] = c2[i]
  BY <1>1, <1>2
<1> QED
  BY <1>1, <1>3 DEF vc_equal

\* The inductive invariant gives convergence of the metadata.
LEMMA MetadataConverges == MetadataInv => MetadataConvergence
<1> SUFFICES ASSUME MetadataInv, NEW p \in Procs, NEW q \in Procs, NEW e \in Elements,
                    SeenOf(p, e) = SeenOf(q, e)
             PROVE  /\ vc_equal(rwfze[p][e].header.current, rwfze[q][e].header.current)
                    /\ rwfze[p][e].header.pid = rwfze[q][e].header.pid
                    /\ rwfze[p][e].innate = rwfze[q][e].innate
  BY DEF MetadataConvergence
<1> DEFINE r1 == rwfze[p][e]
           r2 == rwfze[q][e]
           S == SeenOf(p, e)
<1>1. /\ r1 \in Rwfze /\ r2 \in Rwfze /\ S \in SUBSET Message
      /\ HistoryIsJoin(r1, S) /\ HistoryIsJoin(r2, S)
      /\ HeaderIsWinner(r1, S) /\ HeaderIsWinner(r2, S)
  BY DEF MetadataInv, TypeOK, SeenOf
<1>2. vc_equal(r1.header.current, r2.header.current)
  BY <1>1, SameHistory
<1>3. \A cmd : Live(r1, S, cmd) = Live(r2, S, cmd)
  BY <1>2 DEF Live, vc_equal
<1>4. /\ r1.header.pid \in Procs \cup {-1, -2}
      /\ r2.header.pid \in Procs \cup {-1, -2}
      /\ \A i \in Procs : i \in Nat
  BY <1>1, NAssumption DEF Rwfze, Header, PID_NEXIST, PID_WAIT_INNATE, Procs
<1>5. CASE r1.header.pid \in Procs
  <2>1. r2.header.pid \in Procs
    BY <1>1, <1>3, <1>5, ZenonT(30) DEF HeaderIsWinner
  <2>2. PICK m1 \in Live(r1, S, "rwfzadd") : m1.t.id = r1.header.pid /\ m1.v = r1.innate
    BY <1>1, <1>5, ZenonT(30) DEF HeaderIsWinner
  <2>3. PICK m2 \in Live(r1, S, "rwfzadd") : m2.t.id = r2.header.pid /\ m2.v = r2.innate
    BY <1>1, <1>3, <2>1, ZenonT(30) DEF HeaderIsWinner
  <2>4. m2.t.id <= r1.header.pid /\ m1.t.id <= r2.header.pid
    BY <1>1, <1>3, <1>5, <2>1, <2>2, <2>3, ZenonT(30) DEF HeaderIsWinner
  <2>5. r1.header.pid = r2.header.pid
    BY <1>4, <1>5, <2>1, <2>2, <2>3, <2>4
  <2>6. /\ m1 \in seen[p] /\ m2 \in seen[p] /\ m1 \in Message /\ m2 \in Message
        /\ m1.cmd = "rwfzadd" /\ m2.cmd = "rwfzadd" /\ m1.e = e /\ m2.e = e
        /\ m1.t.vector = m2.t.vector
    BY <1>1 DEF Live, SeenOf, vc_equal
  <2>7. m1.t = m2.t /\ m1.t.id \in Procs
    BY <2>2, <2>3, <2>5, <2>6 DEF Message, VC
  <2>8. m1 \in seen[m1.t.id] /\ m2 \in seen[m1.t.id]
    BY <2>6, <2>7 DEF MetadataInv, OriginSaw
  <2>9. m1.v = m2.v
    BY <2>6, <2>7, <2>8 DEF MetadataInv, OneAddPerHistory
  <2> QED
    BY <1>2, <2>2, <2>3, <2>5, <2>9
<1>6. CASE r1.header.pid \notin Procs
  <2>1. Live(r1, S, "rwfzadd") = {} /\ r1.innate = 0
    BY <1>1, <1>6, ZenonT(30) DEF HeaderIsWinner
  <2>2. r2.header.pid \notin Procs /\ r2.innate = 0
    BY <1>1, <1>3, <2>1, ZenonT(30) DEF HeaderIsWinner
  <2>3. r1.header.pid = r2.header.pid
    BY <1>1, <1>3, <1>4, <1>6, <2>2, ZenonT(30) DEF HeaderIsWinner, PID_NEXIST, PID_WAIT_INNATE
  <2> QED
    BY <1>2, <2>1, <2>2, <2>3
<1> QED
  BY <1>5, <1>6

\* Strong eventual consistency of the metadata, for any number of replicas,
\* elements and commands.
THEOREM Convergence == Spec => []MetadataConvergence
BY MetadataInvariance, MetadataConverges, PTL

\* The inductive invariant leaves no increment waiting for its add once every
\* stream is empty: the add was issued, so it has been executed everywhere.
LEMMA MetadataNoOrphan == MetadataInv => NoOrphanAtRest
<1> SUFFICES ASSUME MetadataInv, ~InFlight(net), NEW p \in Procs, NEW e \in Elements,
                    rwfze[p][e].header.pid = PID_WAIT_INNATE
             PROVE  FALSE
  BY DEF NoOrphanAtRest
<1> DEFINE r == rwfze[p][e]
<1>1. HeaderIsWinner(r, SeenOf(p, e)) /\ PID_WAIT_INNATE \notin Procs
  BY NAssumption DEF MetadataInv, PID_WAIT_INNATE, Procs
<1>2. /\ Live(r, SeenOf(p, e), "rwfzadd") = {}
      /\ Live(r, SeenOf(p, e), "rwfzincrby") # {}
  BY <1>1 DEF HeaderIsWinner
<1>3. PICK m \in seen[p] : m.e = e /\ m.cmd = "rwfzincrby" /\ vc_equal(m.t, r.header.current)
  BY <1>2 DEF Live, SeenOf
<1>4. PICK q \in Procs : \E a \in seen[q] : a.cmd = "rwfzadd" /\ a.e = e /\ vc_equal(a.t, m.t)
  BY <1>3 DEF MetadataInv, IncHasAdd
<1>5. PICK a \in seen[q] : a.cmd = "rwfzadd" /\ a.e = e /\ vc_equal(a.t, m.t)
  BY <1>4, SMTT(30)
<1>6. a.t.id \in Procs /\ a \in seen[a.t.id]
  BY DEF MetadataInv, TypeOK, OriginSaw, Message, VC
<1>7. a \in seen[p]
  <2>1. net[a.t.id][p] = << >>
    BY <1>6 DEF InFlight
  <2>2. Range(net[a.t.id][p]) = {}
    BY <2>1 DEF Range
  <2> QED
    BY <1>6, <2>2 DEF MetadataInv, SeenOrInFlight
<1> QED
  BY <1>2, <1>3, <1>5, <1>7 DEF Live, SeenOf, vc_equal

\* With nothing in flight no element is left waiting for its add.
THEOREM NoOrphan == Spec => []NoOrphanAtRest
BY MetadataInvariance, MetadataNoOrphan, PTL

\* A component of a clock never falls in a join.
LEMMA UpdateGrows ==
  ASSUME NEW a \in VC, NEW b \in VC, NEW i \in Procs
  PROVE  a.vector[i] <= vc_update(a, b).vector[i]
<1>1. a.vector[i] \in Nat /\ b.vector[i] \in Nat
  BY DEF VC, Vector
<1>2. vc_update(a, b).vector[i] = IF b.vector[i] > a.vector[i] THEN b.vector[i] ELSE a.vector[i]
  BY UpdateIsJoin
<1> QED
  BY <1>1, <1>2

\* Executing a command at any replica never lowers a remove history.
LEMMA ExecuteGrows ==
  ASSUME TypeOK, NEW q \in Procs, NEW m \in Message, Execute(q, m)
  PROVE  \A p \in Procs, e \in Elements, i \in Procs :
           rwfze[p][e].header.current.vector[i] <= rwfze'[p][e].header.current.vector[i]
<1> SUFFICES ASSUME NEW p \in Procs, NEW e \in Elements, NEW i \in Procs
             PROVE  rwfze[p][e].header.current.vector[i]
                      <= rwfze'[p][e].header.current.vector[i]
  OBVIOUS
<1> DEFINE x == EntryOf(q, m.e)
           old == rwfze[p][e].header.current
<1>1. m.e \in Elements /\ m.t \in VC
  BY DEF Message
<1>2. x \in Entry /\ x.meta = rwfze[q][m.e]
  BY <1>1 DEF EntryOf, Entry, TypeOK
<1>3. old \in VC /\ old.vector[i] \in Nat
  BY DEF TypeOK, Rwfze, Header, VC, Vector
<1>4. CASE p = q /\ e = m.e
  <2>1. rwfze'[p][e] = Effect(x, m).meta
    BY <1>1, <1>4 DEF Execute, TypeOK
  <2>2. rwfze'[p][e].header.current = vc_update(old, m.t)
    BY <1>2, <1>4, <2>1, EffectJoins
  <2> HIDE DEF old
  <2>3. old.vector[i] <= vc_update(old, m.t).vector[i]
    BY <1>1, <1>3, UpdateGrows
  <2>4. old.vector[i] <= rwfze'[p][e].header.current.vector[i]
    BY <2>2, <2>3
  <2> QED
    BY <2>4 DEF old
<1>5. CASE ~(p = q /\ e = m.e)
  <2>1. rwfze'[p][e] = rwfze[p][e]
    BY <1>1, <1>5 DEF Execute, TypeOK
  <2> QED
    BY <1>3, <2>1
<1> QED
  BY <1>4, <1>5

\* Every step of a client or a peer is the execution of one command at one replica.
LEMMA StepExecutes ==
  ASSUME MetadataInv, Next
  PROVE  \E q \in Procs : \E m \in Message : Execute(q, m)
<1>1. ASSUME NEW p \in Procs, NEW cmd \in Commands, NEW e \in Elements, NEW v \in Int,
             NEW t \in VC, Call(p, cmd, e, v, t)
      PROVE  \E m \in Message : Execute(p, m)
  <2> DEFINE n == Cardinality(IssuedAt(p))
             m == [cmd |-> cmd, e |-> e, v |-> v, t |-> t, n |-> n]
  <2>1. Execute(p, m)
    BY <1>1 DEF Call
  <2>2. n \in Nat
    BY FS_Subset, FS_CardinalityType DEF MetadataInv, IssuedAt
  <2>3. m \in Message
    BY <2>2 DEF Message
  <2> QED
    BY <2>1, <2>3
<1>2. \A p \in Procs, e \in Elements :
        rwfze[p][e].header.current \in VC /\ vc_now(rwfze[p][e].header.current) \in VC
  BY NowIsClock DEF MetadataInv, TypeOK, Rwfze, Header
<1>3. ASSUME NEW p \in Procs, NEW e \in Elements, NEW v \in AddValues,
             rwfzaddCommand(p, e, v)
      PROVE  \E m \in Message : Execute(p, m)
  BY <1>1, <1>2, <1>3, RwfRpqAssumption DEF rwfzaddCommand, Commands
<1>4. ASSUME NEW p \in Procs, NEW e \in Elements, NEW v \in IncValues,
             rwfzincrbyCommand(p, e, v)
      PROVE  \E m \in Message : Execute(p, m)
  BY <1>1, <1>2, <1>4, RwfRpqAssumption DEF rwfzincrbyCommand, Commands
<1>5. ASSUME NEW p \in Procs, NEW e \in Elements, rwfzremCommand(p, e)
      PROVE  \E m \in Message : Execute(p, m)
  <2> DEFINE t == vc_now(rwfze[p][e].header.current)
  <2>1. t \in VC /\ Call(p, "rwfzrem", e, 0, t)
    BY <1>2, <1>5 DEF rwfzremCommand
  <2> HIDE DEF t
  <2> QED
    BY <1>1, <2>1 DEF Commands
<1>6. ASSUME NEW p \in Procs, NEW q \in Procs, ReplicaExecute(p, q)
      PROVE  \E m \in Message : Execute(q, m)
  <2>1. net[p][q] \in Seq(Message) /\ net[p][q] # << >> /\ Execute(q, Head(net[p][q]))
    BY <1>6 DEF ReplicaExecute, MetadataInv, TypeOK, Network
  <2> QED
    BY <2>1, HeadTailProperties
<1> QED
  BY <1>3, <1>4, <1>5, <1>6, SMTT(30) DEF Next, ClientStep

\* No remove is ever forgotten: no step lowers a component of a remove history.
THEOREM RemovesRemembered == Spec => HistoryGrows
<1> DEFINE Grows == \A p \in Procs, e \in Elements, i \in Procs :
                      rwfze[p][e].header.current.vector[i]
                        <= rwfze'[p][e].header.current.vector[i]
<1>1. MetadataInv /\ [Next]_vars => [Grows]_vars
  <2> SUFFICES ASSUME MetadataInv, Next PROVE Grows
    OBVIOUS
  <2>1. PICK q \in Procs : \E m \in Message : Execute(q, m)
    BY StepExecutes
  <2>2. TypeOK
    BY DEF MetadataInv
  <2> QED
    BY <2>1, <2>2, ExecuteGrows
<1>2. HistoryGrows <=> [][Grows]_vars
  BY DEF HistoryGrows
<1> QED
  BY <1>1, <1>2, MetadataInvariance, PTL DEF Spec
=============================================================================
