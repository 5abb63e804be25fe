----------------------------- MODULE P2PProofs -----------------------------
(***************************************************************************)
(* The P2P connections deliver as Replication.tla takes for granted: to    *)
(* what P2PStreams shows of order and origin comes the number of times a   *)
(* command is executed, by counting its copies.                            *)
(***************************************************************************)
EXTENDS P2PStreams, FiniteSetTheorems

\* The provers in the order they are tried; the last ones are for slow machines.
USE SMT, Zenon, SMTT(30), ZenonT(30), SMTT(60)

\* A client structure that is listed at most once.
LEMMA ListedOnce ==
  ASSUME Listed
  PROVE  OneListing
<1> SUFFICES ASSUME NEW p \in Procs, NEW c \in DOMAIN conns
             PROVE  Listings(p, c) = IF c \in Range(replicas[p]) THEN 1 ELSE 0
  BY DEF OneListing
<1> DEFINE s == replicas[p]
           I == {i \in DOMAIN s : s[i] = c}
<1>1. \A i, j \in DOMAIN s : s[i] = s[j] => i = j
  BY DEF Listed, IsInjective
<1>2. CASE c \in Range(s)
  <2>1. PICK i \in DOMAIN s : s[i] = c
    BY <1>2 DEF Range
  <2>2. I = {i}
    BY <1>1, <2>1
  <2> HIDE DEF I
  <2>3. Cardinality(I) = 1
    BY <2>2, FS_Singleton
  <2> QED
    BY <1>2, <2>3 DEF Listings, I
<1>3. CASE c \notin Range(s)
  <2>1. I = {}
    BY <1>3 DEF Range
  <2> HIDE DEF I
  <2>2. Cardinality(I) = 0
    BY <2>1, FS_EmptySet
  <2> QED
    BY <1>3, <2>2 DEF Listings, I
<1> QED
  BY <1>2, <1>3

\* The sets that CopiesLeft counts are finite.
LEMMA CountsAreFinite ==
  ASSUME TypeOK, NEW p \in Procs, NEW m, NEW q
  PROVE  /\ IsFiniteSet(Links(p, q)) /\ IsFiniteSet(Executions(m, p)) /\ IsFiniteSet(Carrying(m, p))
         /\ Cardinality(Links(p, q)) \in Nat /\ Cardinality(Executions(m, p)) \in Nat
         /\ Cardinality(Carrying(m, p)) \in Nat
<1>1. DOMAIN conns = 1 .. Len(conns) /\ Len(conns) \in Nat
  BY LenProperties DEF TypeOK
<1>2. DOMAIN executed[p] = 1 .. Len(executed[p]) /\ Len(executed[p]) \in Nat
  BY LenProperties DEF TypeOK
<1>3. IsFiniteSet(DOMAIN conns) /\ IsFiniteSet(DOMAIN executed[p])
  BY <1>1, <1>2, FS_Interval
<1>4. Executions(m, p) \subseteq DOMAIN executed[p] /\ \A x : Links(p, x) \subseteq DOMAIN conns
  BY DEF Executions, Links
<1>5. Carrying(m, p) \subseteq Links(p, issued[m].by)
  BY DEF Carrying
<1>6. IsFiniteSet(Executions(m, p)) /\ \A x : IsFiniteSet(Links(p, x))
  BY <1>3, <1>4, FS_Subset
<1>7. IsFiniteSet(Carrying(m, p))
  BY <1>5, <1>6, FS_Subset
<1> QED
  BY <1>6, <1>7, FS_CardinalityType

\* A quiet step adds no copy of a command, and takes no connection away.
LEMMA QuietCount ==
  ASSUME TypeOK, TypeOK', CopiesLeft, Quiet
  PROVE  CopiesLeft'
<1> SUFFICES ASSUME KeepsEnds, executed' = executed, issued' = issued, NothingSent
             PROVE  CopiesLeft'
  BY DEF Quiet
<1> SUFFICES ASSUME NEW p \in Procs, NEW m \in DOMAIN issued, p # issued[m].by
             PROVE  Cardinality(Executions(m, p)') + Cardinality(Carrying(m, p)')
                      <= Cardinality(Links(p, issued[m].by)')
  BY DEF CopiesLeft
<1> DEFINE q == issued[m].by
<1>1. m # Handshake /\ q \in Procs
  BY CommandsAreNumbered
<1>2. Executions(m, p)' = Executions(m, p)
  BY DEF Executions
<1>3. Carrying(m, p)' \subseteq Carrying(m, p)
  <2> SUFFICES ASSUME NEW c \in Carrying(m, p)' PROVE c \in Carrying(m, p)
    OBVIOUS
  <2>1. c \in Links(p, q)' /\ m \in Range(stream'[c][q])
    BY DEF Carrying
  <2>2. c \in DOMAIN conns /\ m \in Range(stream[c][q])
    BY <1>1, <2>1 DEF Links, NothingSent
  <2>3. c \in Links(p, q)
    BY <2>1, <2>2, EndsKept
  <2> QED
    BY <2>2, <2>3 DEF Carrying
<1>4. Links(p, q) \subseteq Links(p, q)'
  BY EndsKept
<1>5. /\ IsFiniteSet(Carrying(m, p)) /\ Cardinality(Carrying(m, p)) \in Nat
      /\ Cardinality(Executions(m, p)) \in Nat /\ Cardinality(Links(p, q)) \in Nat
  BY CountsAreFinite
<1>6. IsFiniteSet(Links(p, q)') /\ Cardinality(Links(p, q)') \in Nat
  <2>1. DOMAIN conns' = 1 .. Len(conns') /\ Len(conns') \in Nat
    BY LenProperties DEF TypeOK
  <2>2. IsFiniteSet(DOMAIN conns')
    BY <2>1, FS_Interval
  <2>3. Links(p, q)' \subseteq DOMAIN conns'
    BY DEF Links
  <2> QED
    BY <2>2, <2>3, FS_Subset, FS_CardinalityType
<1>7. Cardinality(Carrying(m, p)') <= Cardinality(Carrying(m, p)) /\ Cardinality(Carrying(m, p)') \in Nat
  BY <1>3, <1>5, FS_Subset, FS_CardinalityType
<1>8. Cardinality(Links(p, q)) <= Cardinality(Links(p, q)')
  BY <1>4, <1>6, FS_Subset
<1>9. Cardinality(Executions(m, p)) + Cardinality(Carrying(m, p)) <= Cardinality(Links(p, q))
  BY DEF CopiesLeft
<1> HIDE DEF q
<1>10. Cardinality(Executions(m, p)') = Cardinality(Executions(m, p))
  BY <1>2
<1> QED
  BY <1>5, <1>6, <1>7, <1>8, <1>9, <1>10 DEF q

\* One copy was on its way and is executed instead.
LEMMA DeliveredOnce ==
  ASSUME TypeOK, CopiesLeft, NEW p \in Procs, NEW q \in Procs, NEW c \in Links(p, q),
         NEW m \in DOMAIN issued, OneMore(p, m), issued[m].by = q, UNCHANGED <<conns, issued>>,
         Taken(c, q, m)
  PROVE  CopiesLeft'
<1>1. \A r, t : Links(r, t)' = Links(r, t)
  BY DEF Links, Ends
<1> SUFFICES ASSUME NEW r \in Procs, NEW n \in DOMAIN issued, r # issued[n].by
             PROVE  Cardinality(Executions(n, r)') + Cardinality(Carrying(n, r)')
                      <= Cardinality(Links(r, issued[n].by))
  BY <1>1 DEF CopiesLeft
<1>2. issued[n].by \in Procs
  BY CommandsAreNumbered
<1>3. Carrying(n, r)' \subseteq Carrying(n, r)
  <2> SUFFICES ASSUME NEW d \in Carrying(n, r)' PROVE d \in Carrying(n, r)
    OBVIOUS
  <2>1. d \in Links(r, issued[n].by) /\ n \in Range(stream'[d][issued[n].by])
    BY <1>1 DEF Carrying
  <2>2. n \in Range(stream[d][issued[n].by])
    BY <1>2, <2>1 DEF Taken, Links
  <2> QED
    BY <2>1, <2>2 DEF Carrying
<1>4. /\ IsFiniteSet(Executions(n, r)) /\ IsFiniteSet(Carrying(n, r))
      /\ Cardinality(Links(r, issued[n].by)) \in Nat /\ Cardinality(Executions(n, r)) \in Nat
      /\ Cardinality(Carrying(n, r)) \in Nat
  BY CountsAreFinite
<1>5. Cardinality(Executions(n, r)) + Cardinality(Carrying(n, r)) <= Cardinality(Links(r, issued[n].by))
  BY DEF CopiesLeft
<1>6. CASE ~(r = p /\ n = m)
  <2>1. Cardinality(Executions(n, r)') = Cardinality(Executions(n, r))
    BY <1>6 DEF OneMore
  <2>2. Cardinality(Carrying(n, r)') <= Cardinality(Carrying(n, r)) /\ Cardinality(Carrying(n, r)') \in Nat
    BY <1>3, <1>4, FS_Subset, FS_CardinalityType
  <2> QED
    BY <1>4, <1>5, <2>1, <2>2
<1>7. CASE r = p /\ n = m
  <2> DEFINE z == Len(executed[p]) + 1
  <2>1. Executions(n, r)' = Executions(n, r) \cup {z} /\ z \notin Executions(n, r)
    <3>1. DOMAIN executed[p] = 1 .. Len(executed[p]) /\ Len(executed[p]) \in Nat
      BY ExecutedWereIssued
    <3>2. z \notin DOMAIN executed[p]
      BY <3>1
    <3> QED
      BY <1>7, <3>2 DEF OneMore, Executions
  <2> HIDE DEF z
  <2>2. Cardinality(Executions(n, r)') = Cardinality(Executions(n, r)) + 1
    BY <1>4, <2>1, FS_AddElement
  <2>3. c \in Carrying(n, r) /\ Carrying(n, r)' \subseteq Carrying(n, r) \ {c}
    <3>1. c \in Carrying(n, r) /\ c \notin Carrying(n, r)'
      BY <1>7 DEF Carrying, Taken
    <3> QED
      BY <1>3, <3>1
  <2>4. /\ IsFiniteSet(Carrying(n, r) \ {c})
        /\ Cardinality(Carrying(n, r) \ {c}) = Cardinality(Carrying(n, r)) - 1
    BY <1>4, <2>3, FS_RemoveElement
  <2>5. /\ Cardinality(Carrying(n, r)') <= Cardinality(Carrying(n, r)) - 1
        /\ Cardinality(Carrying(n, r)') \in Nat
    BY <2>3, <2>4, FS_Subset, FS_CardinalityType
  <2> QED
    BY <1>4, <1>5, <2>2, <2>5
<1> QED
  BY <1>6, <1>7

\* One copy of it is on its way on a connection, and none was executed elsewhere.
LEMMA SentOnce ==
  ASSUME TypeOK, CopiesLeft, NEW p \in Procs, NEW m, NewCommand(p, m), Sent(p, m), OneMore(p, m),
         conns' = conns
  PROVE  CopiesLeft'
<1>1. \A r, t : Links(r, t)' = Links(r, t)
  BY DEF Links, Ends
<1> SUFFICES ASSUME NEW r \in Procs, NEW n \in DOMAIN issued', r # issued'[n].by
             PROVE  Cardinality(Executions(n, r)') + Cardinality(Carrying(n, r)')
                      <= Cardinality(Links(r, issued'[n].by))
  BY <1>1 DEF CopiesLeft
<1>2. CASE n = m
  <2>1. issued'[n].by = p /\ r # p /\ n \notin DOMAIN issued
    BY <1>2 DEF NewCommand
  <2>2. Executions(n, r) = {}
    BY <2>1, ExecutedWereIssued DEF Executions
  <2>3. Executions(n, r)' = {}
    BY <2>1, <2>2 DEF OneMore
  <2>4. Cardinality(Executions(n, r)') = 0
    BY <2>3, FS_EmptySet
  <2>5. Carrying(n, r)' \subseteq Links(r, p)
    BY <1>1, <2>1 DEF Carrying
  <2>6. IsFiniteSet(Links(r, p)) /\ Cardinality(Links(r, p)) \in Nat
    BY CountsAreFinite
  <2>7. Cardinality(Carrying(n, r)') <= Cardinality(Links(r, p)) /\ Cardinality(Carrying(n, r)') \in Nat
    BY <2>5, <2>6, FS_Subset, FS_CardinalityType
  <2> QED
    BY <2>1, <2>4, <2>6, <2>7
<1>3. CASE n # m
  <2>1. n \in DOMAIN issued /\ issued'[n] = issued[n]
    BY <1>3 DEF NewCommand
  <2>2. issued[n].by \in Procs
    BY <2>1, CommandsAreNumbered
  <2>3. Executions(n, r)' = Executions(n, r)
    BY <1>3 DEF OneMore
  <2>4. Carrying(n, r)' \subseteq Carrying(n, r)
    <3> SUFFICES ASSUME NEW d \in Carrying(n, r)' PROVE d \in Carrying(n, r)
      OBVIOUS
    <3>1. d \in Links(r, issued[n].by) /\ n \in Range(stream'[d][issued[n].by])
      BY <1>1, <2>1 DEF Carrying
    <3>2. n \in Range(stream[d][issued[n].by])
      BY <1>3, <2>2, <3>1 DEF Sent, Links
    <3> QED
      BY <3>1, <3>2 DEF Carrying
  <2>5. /\ IsFiniteSet(Carrying(n, r)) /\ Cardinality(Links(r, issued[n].by)) \in Nat
        /\ Cardinality(Executions(n, r)) \in Nat /\ Cardinality(Carrying(n, r)) \in Nat
    BY CountsAreFinite
  <2>6. Cardinality(Executions(n, r)) + Cardinality(Carrying(n, r)) <= Cardinality(Links(r, issued[n].by))
    BY <2>1 DEF CopiesLeft
  <2>7. Cardinality(Carrying(n, r)') <= Cardinality(Carrying(n, r)) /\ Cardinality(Carrying(n, r)') \in Nat
    BY <2>4, <2>5, FS_Subset, FS_CardinalityType
  <2>8. Cardinality(Executions(n, r)') = Cardinality(Executions(n, r)) /\ issued'[n].by = issued[n].by
    BY <2>1, <2>3
  <2> QED
    BY <2>5, <2>6, <2>7, <2>8
<1> QED
  BY <1>2, <1>3
-----------------------------------------------------------------------------
LEMMA InitIInv == Init => IInv
<1> SUFFICES ASSUME Init PROVE IInv
  OBVIOUS
<1>1. CopiesLeft
  BY DEF Init, CopiesLeft
<1> QED
  BY <1>1, InitStreams DEF IInv, StreamsInv

LEMMA NextIInv == IInv /\ [Next]_vars => IInv'
<1> SUFFICES ASSUME IInv, [Next]_vars PROVE IInv'
  OBVIOUS
<1>1. StreamsInv /\ TypeOK /\ Listed /\ CopiesLeft
  BY DEF IInv, StreamsInv
<1>2. StreamsInv' /\ (Quiet \/ Delivered \/ Issued)
  BY <1>1, ListedOnce, NextStreams
<1>3. TypeOK'
  BY <1>2 DEF StreamsInv
<1>4. CopiesLeft'
  <2>1. CASE Quiet
    BY <1>1, <1>3, <2>1, QuietCount
  <2>2. CASE Delivered
    BY <1>1, <2>2, DeliveredOnce DEF Delivered
  <2>3. CASE Issued
    BY <1>1, <2>3, SentOnce DEF Issued
  <2> QED
    BY <1>2, <2>1, <2>2, <2>3
<1> QED
  BY <1>2, <1>4 DEF IInv, StreamsInv

\* The inductive invariant holds of every behaviour of p2p.c's connections.
THEOREM Invariance == Spec => []IInv
BY InitIInv, NextIInv, PTL DEF Spec

\* The issuer executes its command once, and no peer more often than it is connected.
LEMMA CopiesBounded == IInv => CopiesBoundedByConnections
<1> SUFFICES ASSUME IInv, NEW p \in Procs, NEW m \in DOMAIN issued
             PROVE  Cardinality(Executions(m, p))
                      <= IF p = issued[m].by THEN 1 ELSE Cardinality(Links(p, issued[m].by))
  BY DEF CopiesBoundedByConnections
<1>1. TypeOK /\ CopiesLeft /\ ExactlyOnceInOrder
  BY DEF IInv
<1>2. CASE p # issued[m].by
  <2>1. /\ Cardinality(Links(p, issued[m].by)) \in Nat /\ Cardinality(Executions(m, p)) \in Nat
        /\ Cardinality(Carrying(m, p)) \in Nat
    BY <1>1, CountsAreFinite
  <2>2. Cardinality(Executions(m, p)) + Cardinality(Carrying(m, p)) <= Cardinality(Links(p, issued[m].by))
    BY <1>1, <1>2 DEF CopiesLeft
  <2> QED
    BY <1>2, <2>1, <2>2
<1>3. CASE p = issued[m].by
  <2>1. OneLink(p, p)
    <3>1. \A c \in DOMAIN conns : conns[c].from # conns[c].to
      BY <1>1 DEF TypeOK
    <3> QED
      BY <3>1 DEF OneLink, Links, Ends
  <2>2. \A i, j \in Executions(m, p) : ~(i < j)
    <3> SUFFICES ASSUME NEW i \in Executions(m, p), NEW j \in Executions(m, p), i < j PROVE FALSE
      OBVIOUS
    <3>1. i \in DOMAIN executed[p] /\ j \in DOMAIN executed[p] /\ executed[p][i] = m /\ executed[p][j] = m
      BY DEF Executions
    <3>2. m < m
      BY <1>1, <1>3, <2>1, <3>1 DEF ExactlyOnceInOrder
    <3>3. m \in Nat
      BY <1>1, CommandsAreNumbered
    <3> QED
      BY <3>2, <3>3
  <2>3. executed[p] \in Seq(DOMAIN issued)
    BY <1>1 DEF TypeOK
  <2>4. DOMAIN executed[p] = 1 .. Len(executed[p]) /\ Len(executed[p]) \in Nat
    BY <2>3, LenProperties
  <2>5. \A i, j \in Executions(m, p) : i = j
    BY <2>2, <2>4 DEF Executions
  <2>6. Executions(m, p) = {} \/ \E i : Executions(m, p) = {i}
    BY <2>5
  <2>7. Cardinality(Executions(m, p)) <= 1
    <3>1. CASE Executions(m, p) = {}
      <4>1. Cardinality(Executions(m, p)) = 0
        BY <3>1, FS_EmptySet
      <4> QED
        BY <4>1
    <3>2. CASE \E i : Executions(m, p) = {i}
      <4>1. Cardinality(Executions(m, p)) = 1
        BY <3>2, FS_Singleton
      <4> QED
        BY <4>1
    <3> QED
      BY <2>6, <3>1, <3>2
  <2> QED
    BY <1>3, <2>7
<1> QED
  BY <1>2, <1>3

\* The commands of a server reach each peer in order and at most once per connection,
\* from that server alone.
THEOREM DeliveryIsFaithful == Spec => []FaithfulDelivery
<1>1. IInv => FaithfulDelivery
  BY CopiesBounded DEF FaithfulDelivery, IInv
<1> QED
  BY <1>1, Invariance, PTL
=============================================================================
