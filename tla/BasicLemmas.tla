---------------------------- MODULE BasicLemmas ----------------------------
(***************************************************************************)
(* What the proofs about the replicated types have in common: induction    *)
(* over the naturals by way of a least counterexample, streams to which a  *)
(* command is appended and from which one is taken, vector clocks, and the *)
(* sums of the values that sets of commands carry.                         *)
(***************************************************************************)
EXTENDS Replication, FiniteSets, FiniteSetTheorems, SequenceTheorems, WellFoundedInduction, TLAPS

\* The provers in the order they are tried; the last ones are for slow machines.
USE SMT, Zenon, SMTT(30), ZenonT(30), SMTT(60)

\* A set of naturals has a least element.
LEMMA LeastNat ==
  ASSUME NEW T \in SUBSET Nat, T # {}
  PROVE  \E n \in T : \A k \in T : n <= k
<1> DEFINE R == {ss \in Nat \X Nat : ss[1] < ss[2]}
<1>1. IsWellFoundedOn(R, Nat)
  BY NatLessThanWellFounded DEF OpToRel
<1>2. PICK n \in T : \A k \in T : <<k, n>> \notin R
  <2> HIDE DEF R
  <2> QED
    BY <1>1, WFMin
<1>3. ASSUME NEW k \in T PROVE n <= k
  <2>1. k \in Nat /\ n \in Nat /\ ~(<<k, n>>[1] < <<k, n>>[2])
    BY <1>2
  <2> QED
    BY <2>1
<1> QED
  BY <1>3

LEMMA SetsEqual ==
  ASSUME NEW S, NEW T, S \subseteq T, T \subseteq S
  PROVE  S = T
OBVIOUS

\* What is in a stream after replicationBroadcast has appended a command.
LEMMA RangeAppend ==
  ASSUME NEW S, NEW s \in Seq(S), NEW m \in S
  PROVE  Range(Append(s, m)) = Range(s) \cup {m}
<1>1. /\ Append(s, m) \in Seq(S) /\ Len(Append(s, m)) = Len(s) + 1
      /\ \A i \in 1 .. Len(s) : Append(s, m)[i] = s[i]
      /\ Append(s, m)[Len(s) + 1] = m
  BY AppendProperties
<1>2. DOMAIN Append(s, m) = 1 .. Len(s) + 1 /\ DOMAIN s = 1 .. Len(s) /\ Len(s) \in Nat
  BY <1>1, LenProperties
<1> QED
  BY <1>1, <1>2 DEF Range

\* What was in a stream from which a peer has taken the oldest command.
LEMMA RangeTail ==
  ASSUME NEW S, NEW s \in Seq(S), s # << >>
  PROVE  Range(s) = Range(Tail(s)) \cup {Head(s)}
<1>1. /\ Tail(s) \in Seq(S) /\ Len(Tail(s)) = Len(s) - 1 /\ Head(s) = s[1]
      /\ \A i \in 1 .. Len(Tail(s)) : Tail(s)[i] = s[i + 1]
  BY HeadTailProperties
<1>2. /\ DOMAIN s = 1 .. Len(s) /\ DOMAIN Tail(s) = 1 .. Len(s) - 1
      /\ Len(s) \in Nat \ {0}
  BY <1>1, LenProperties, EmptySeq
<1>3. ASSUME NEW x \in Range(s) PROVE x \in Range(Tail(s)) \cup {Head(s)}
  <2>1. PICK i \in 1 .. Len(s) : x = s[i]
    BY <1>2 DEF Range
  <2>2. CASE i = 1
    BY <1>1, <2>1, <2>2
  <2>3. CASE i # 1
    <3>1. i - 1 \in 1 .. Len(s) - 1 /\ (i - 1) + 1 = i
      BY <1>2, <2>3
    <3>2. Tail(s)[i - 1] = s[i]
      BY <1>1, <3>1
    <3> QED
      BY <1>2, <2>1, <3>1, <3>2, Zenon DEF Range
  <2> QED
    BY <2>2, <2>3
<1>4. Head(s) \in Range(s)
  BY <1>1, <1>2 DEF Range
<1>5. ASSUME NEW x \in Range(Tail(s)) PROVE x \in Range(s)
  <2>1. PICK i \in 1 .. Len(s) - 1 : x = Tail(s)[i]
    BY <1>2 DEF Range
  <2>2. x = s[i + 1] /\ i + 1 \in 1 .. Len(s)
    BY <1>1, <1>2, <2>1
  <2> QED
    BY <1>2, <2>2 DEF Range
<1> QED
  BY <1>3, <1>4, <1>5

\* A stream in which nothing occurs twice still has this property when something
\* new is appended ...
LEMMA InjectiveAppend ==
  ASSUME NEW S, NEW s \in Seq(S), NEW m \in S, IsInjective(s), m \notin Range(s)
  PROVE  IsInjective(Append(s, m))
<1>1. /\ DOMAIN Append(s, m) = 1 .. Len(s) + 1 /\ DOMAIN s = 1 .. Len(s) /\ Len(s) \in Nat
      /\ \A i \in 1 .. Len(s) : Append(s, m)[i] = s[i]
      /\ Append(s, m)[Len(s) + 1] = m
  BY AppendProperties, LenProperties
<1>2. \A i \in 1 .. Len(s) : s[i] # m
  BY <1>1 DEF Range
<1>3. \A i, j \in 1 .. Len(s) : s[i] = s[j] => i = j
  BY <1>1 DEF IsInjective
<1>4. SUFFICES ASSUME NEW i \in 1 .. Len(s) + 1, NEW j \in 1 .. Len(s) + 1,
                      Append(s, m)[i] = Append(s, m)[j]
               PROVE  i = j
  BY <1>1 DEF IsInjective
<1>5. (i \in 1 .. Len(s) \/ i = Len(s) + 1) /\ (j \in 1 .. Len(s) \/ j = Len(s) + 1)
  BY <1>1
<1> QED
  BY <1>1, <1>2, <1>3, <1>4, <1>5

\* ... and when its head is taken off, which then is no longer in it.
LEMMA InjectiveTail ==
  ASSUME NEW S, NEW s \in Seq(S), s # << >>, IsInjective(s)
  PROVE  IsInjective(Tail(s)) /\ Head(s) \notin Range(Tail(s))
<1>1. /\ DOMAIN s = 1 .. Len(s) /\ DOMAIN Tail(s) = 1 .. Len(s) - 1 /\ Len(s) \in Nat \ {0}
      /\ Head(s) = s[1] /\ \A i \in 1 .. Len(s) - 1 : Tail(s)[i] = s[i + 1]
  BY HeadTailProperties, LenProperties, EmptySeq
<1>2. \A i, j \in 1 .. Len(s) : s[i] = s[j] => i = j
  BY <1>1 DEF IsInjective
<1>3. ASSUME NEW i \in 1 .. Len(s) - 1, NEW j \in 1 .. Len(s) - 1, Tail(s)[i] = Tail(s)[j]
      PROVE  i = j
  <2>1. i + 1 \in 1 .. Len(s) /\ j + 1 \in 1 .. Len(s) /\ s[i + 1] = s[j + 1]
    BY <1>1, <1>3
  <2>2. i + 1 = j + 1
    BY <1>2, <2>1
  <2> QED
    BY <2>2
<1>4. ASSUME NEW i \in 1 .. Len(s) - 1 PROVE Tail(s)[i] # Head(s)
  <2>1. i + 1 \in 1 .. Len(s) /\ 1 \in 1 .. Len(s) /\ i + 1 # 1
    BY <1>1
  <2> QED
    BY <1>1, <1>2, <2>1
<1> QED
  BY <1>1, <1>3, <1>4 DEF IsInjective, Range
-----------------------------------------------------------------------------
\* vc_update yields a clock of the same owner that is the componentwise maximum.
LEMMA UpdateIsJoin ==
  ASSUME NEW c \in VC, NEW t \in VC
  PROVE  /\ vc_update(c, t) \in VC
         /\ vc_update(c, t).id = c.id
         /\ \A i \in Procs : vc_update(c, t).vector[i] =
              IF t.vector[i] > c.vector[i] THEN t.vector[i] ELSE c.vector[i]
BY DEF VC, Vector, vc_update

\* vc_now yields a clock of the same owner.
LEMMA NowIsClock ==
  ASSUME NEW c \in VC
  PROVE  vc_now(c) \in VC /\ vc_now(c).id = c.id
BY DEF VC, Vector, vc_now

-----------------------------------------------------------------------------
(***************************************************************************)
(* Sums over finite sets.  The community modules add the elements of a set *)
(* one by one in the order of a CHOOSE; the sum does not depend on it.     *)
(***************************************************************************)

Pick(s) == CHOOSE x \in s : TRUE

\* g[s] is the sum of the w[x] for x in s, for every subset s of S.
IsSum(g, w, S) ==
  g = [s \in SUBSET S |-> IF s = {} THEN 0 ELSE w[Pick(s)] + g[s \ {Pick(s)}]]

\* What is left of a finite set without one of its elements.
LEMMA OneLess ==
  ASSUME NEW S, IsFiniteSet(S), NEW s \in SUBSET S, NEW x \in s
  PROVE  /\ s \ {x} \in SUBSET S /\ Cardinality(s) \in Nat
         /\ Cardinality(s \ {x}) \in Nat /\ Cardinality(s \ {x}) = Cardinality(s) - 1
<1>1. IsFiniteSet(s)
  BY FS_Subset
<1>2. /\ IsFiniteSet(s \ {x}) /\ Cardinality(s \ {x}) = Cardinality(s) - 1
  BY <1>1, FS_RemoveElement
<1> QED
  BY <1>1, <1>2, FS_CardinalityType

LEMMA PickIsIn ==
  ASSUME NEW s, s # {}
  PROVE  Pick(s) \in s
BY DEF Pick

LEMMA SumOfNothing ==
  ASSUME NEW S, NEW w, NEW g, IsSum(g, w, S)
  PROVE  g[{}] = 0
<1>1. {} \in SUBSET S
  OBVIOUS
<1> QED
  BY <1>1 DEF IsSum

LEMMA SumUnfolds ==
  ASSUME NEW S, NEW w, NEW g, IsSum(g, w, S), NEW s \in SUBSET S, s # {}
  PROVE  g[s] = w[Pick(s)] + g[s \ {Pick(s)}]
BY DEF IsSum

LEMMA SumIsInt ==
  ASSUME NEW S, IsFiniteSet(S), NEW w, \A x \in S : w[x] \in Int, NEW g, IsSum(g, w, S)
  PROVE  \A s \in SUBSET S : g[s] \in Int
<1> DEFINE T == {Cardinality(s) : s \in {r \in SUBSET S : g[r] \notin Int}}
<1> SUFFICES ASSUME T # {} PROVE FALSE
  OBVIOUS
<1>1. T \in SUBSET Nat
  BY FS_Subset, FS_CardinalityType
<1>2. PICK n \in T : \A k \in T : n <= k
  <2> HIDE DEF T
  <2> QED
    BY <1>1, LeastNat
<1>3. PICK s \in SUBSET S : g[s] \notin Int /\ n = Cardinality(s)
  OBVIOUS
<1>4. s # {}
  <2>1. g[{}] \in Int
    BY SumOfNothing
  <2> QED
    BY <1>3, <2>1
<1> DEFINE x == Pick(s)
           r == s \ {x}
<1>5. x \in s /\ x \in S
  BY <1>4, PickIsIn
<1> HIDE DEF x
<1>6. r \in SUBSET S /\ Cardinality(r) \in Nat /\ Cardinality(r) = n - 1 /\ n \in Nat
  BY <1>3, <1>5, OneLess
<1>7. g[r] \in Int
  <2>1. Cardinality(r) \notin T
    <3> HIDE DEF T, r
    <3> QED
      BY <1>2, <1>6
  <2> QED
    BY <1>6, <2>1
<1>8. g[s] = w[x] + g[r]
  <2>1. g[s] = w[Pick(s)] + g[s \ {Pick(s)}]
    BY <1>4 DEF IsSum
  <2> QED
    BY <2>1 DEF x
<1> QED
  BY <1>3, <1>5, <1>7, <1>8

\* Any element may be taken out first.
LEMMA SumTakesAny ==
  ASSUME NEW S, IsFiniteSet(S), NEW w, \A x \in S : w[x] \in Int, NEW g, IsSum(g, w, S),
         NEW u \in SUBSET S, NEW v \in u
  PROVE  g[u] = w[v] + g[u \ {v}]
<1> DEFINE Bad(s) == \E x \in s : g[s] # w[x] + g[s \ {x}]
           T == {Cardinality(s) : s \in {r \in SUBSET S : Bad(r)}}
<1> SUFFICES ASSUME T # {} PROVE FALSE
  OBVIOUS
<1>1. T \in SUBSET Nat
  BY FS_Subset, FS_CardinalityType
<1>2. PICK n \in T : \A k \in T : n <= k
  <2> HIDE DEF T
  <2> QED
    BY <1>1, LeastNat
<1>3. PICK s \in SUBSET S : Bad(s) /\ n = Cardinality(s)
  OBVIOUS
<1>4. PICK x \in s : g[s] # w[x] + g[s \ {x}]
  BY <1>3
<1> DEFINE c == Pick(s)
<1>5. c \in s /\ g[s] = w[c] + g[s \ {c}]
  <2>1. s # {}
    BY <1>4
  <2>2. g[s] = w[Pick(s)] + g[s \ {Pick(s)}]
    BY <2>1 DEF IsSum
  <2> QED
    BY <2>1, <2>2, PickIsIn
<1> HIDE DEF c
<1>6. c # x /\ x \in S /\ c \in S
  <2>1. c # x
    BY <1>4, <1>5, Zenon
  <2> QED
    BY <1>5, <2>1
<1>7. ASSUME NEW y \in s, NEW z \in s, y # z PROVE g[s \ {y}] = w[z] + g[(s \ {y}) \ {z}]
  <2> DEFINE r == s \ {y}
  <2>1. r \in SUBSET S /\ Cardinality(r) \in Nat /\ Cardinality(r) = n - 1 /\ n \in Nat
    BY <1>3, OneLess
  <2>2. ~Bad(r)
    <3>1. Cardinality(r) \notin T
      <4> HIDE DEF T, r
      <4> QED
        BY <1>2, <2>1
    <3> HIDE DEF Bad, r
    <3> QED
      BY <2>1, <3>1
  <2> QED
    BY <1>7, <2>2
<1>8. g[s \ {c}] = w[x] + g[(s \ {c}) \ {x}] /\ g[s \ {x}] = w[c] + g[(s \ {x}) \ {c}]
  BY <1>4, <1>5, <1>6, <1>7
<1>9. (s \ {c}) \ {x} = (s \ {x}) \ {c} /\ (s \ {x}) \ {c} \in SUBSET S
  OBVIOUS
<1> DEFINE d == g[(s \ {x}) \ {c}]
<1>10. d \in Int /\ w[c] \in Int /\ w[x] \in Int
  BY <1>6, <1>9, SumIsInt
<1>11. g[s] = w[c] + (w[x] + d) /\ g[s \ {x}] = w[c] + d
  BY <1>5, <1>8, <1>9
<1> HIDE DEF d
<1>12. w[c] + (w[x] + d) = w[x] + (w[c] + d)
  BY <1>10
<1> QED
  BY <1>4, <1>11, <1>12

\* The sum depends on nothing but the elements that are added.
LEMMA SumAgrees ==
  ASSUME NEW S, NEW R, IsFiniteSet(S), NEW w, NEW u, NEW g, NEW h,
         IsSum(g, w, S), IsSum(h, u, R), \A x \in S \cap R : w[x] = u[x],
         NEW t \in SUBSET (S \cap R)
  PROVE  g[t] = h[t]
<1> DEFINE T == {Cardinality(s) : s \in {r \in SUBSET (S \cap R) : g[r] # h[r]}}
<1> SUFFICES ASSUME g[t] # h[t] PROVE FALSE
  OBVIOUS
<1>0. T # {}
  OBVIOUS
<1>1. T \in SUBSET Nat
  <2>1. \A s \in SUBSET (S \cap R) : s \in SUBSET S
    OBVIOUS
  <2> QED
    BY <2>1, FS_Subset, FS_CardinalityType
<1>2. PICK n \in T : \A k \in T : n <= k
  <2> HIDE DEF T
  <2> QED
    BY <1>0, <1>1, LeastNat
<1>3. PICK s \in SUBSET (S \cap R) : g[s] # h[s] /\ n = Cardinality(s)
  OBVIOUS
<1>4. s # {}
  <2>1. g[{}] = 0 /\ h[{}] = 0
    BY SumOfNothing
  <2> QED
    BY <1>3, <2>1
<1> DEFINE x == Pick(s)
           r == s \ {x}
<1>5. x \in s /\ x \in S \cap R /\ s \in SUBSET S /\ s \in SUBSET R
  BY <1>4, PickIsIn
<1>6. g[s] = w[x] + g[r] /\ h[s] = u[x] + h[r]
  <2>1. s \in SUBSET S /\ s \in SUBSET R
    BY <1>5
  <2>2. g[s] = w[Pick(s)] + g[s \ {Pick(s)}]
    BY <1>4, <2>1 DEF IsSum
  <2>3. h[s] = u[Pick(s)] + h[s \ {Pick(s)}]
    BY <1>4, <2>1 DEF IsSum
  <2> QED
    BY <2>2, <2>3
<1> HIDE DEF x
<1>7. r \in SUBSET (S \cap R) /\ Cardinality(r) \in Nat /\ Cardinality(r) = n - 1 /\ n \in Nat
  BY <1>3, <1>5, OneLess
<1>8. g[r] = h[r]
  <2>1. Cardinality(r) \notin T
    <3> HIDE DEF T, r
    <3> QED
      BY <1>2, <1>7
  <2> QED
    BY <1>7, <2>1
<1> QED
  BY <1>3, <1>5, <1>6, <1>8

LEMMA SumExists ==
  ASSUME NEW S, IsFiniteSet(S), NEW w
  PROVE  \E g : IsSum(g, w, S)
<1> DEFINE D(n) == {s \in SUBSET S : Cardinality(s) <= n}
           Rest(s) == s \ {Pick(s)}
           Good(g, n) == g = [s \in D(n) |-> IF s = {} THEN 0 ELSE w[Pick(s)] + g[Rest(s)]]
           T == {n \in Nat : ~\E g : Good(g, n)}
<1>1. \A s \in SUBSET S : Cardinality(s) \in Nat
  BY FS_Subset, FS_CardinalityType
<1>2. ASSUME NEW s \in SUBSET S, s # {}
      PROVE  Rest(s) \in SUBSET S /\ Cardinality(Rest(s)) = Cardinality(s) - 1
  BY <1>2, PickIsIn, OneLess
<1>3. T = {}
  <2> SUFFICES ASSUME T # {} PROVE FALSE
    OBVIOUS
  <2>1. PICK n \in T : \A k \in T : n <= k
    <3>1. T \in SUBSET Nat
      OBVIOUS
    <3> HIDE DEF T
    <3> QED
      BY <3>1, LeastNat
  <2>2. n \in Nat /\ ~\E g : Good(g, n)
    OBVIOUS
  <2>3. ASSUME NEW s \in D(n), n = 0 PROVE s = {}
    <3>1. s \in SUBSET S /\ Cardinality(s) <= 0 /\ Cardinality(s) \in Nat
      BY <1>1, <2>3
    <3>2. ASSUME s # {} PROVE Cardinality(s) - 1 \in Nat
      BY <1>1, <1>2, <3>1, <3>2
    <3> QED
      BY <3>1, <3>2
  <2>4. n # 0
    <3>1. ASSUME n = 0 PROVE Good([s \in D(n) |-> 0], n)
      BY <2>3, <3>1
    <3> QED
      BY <2>2, <3>1
  <2>5. PICK g : Good(g, n - 1)
    <3>1. n - 1 \in Nat /\ n - 1 \notin T
      <4> HIDE DEF T
      <4> QED
        BY <2>1, <2>2, <2>4
    <3> HIDE DEF Good
    <3> QED
      BY <3>1
  <2> DEFINE h == [s \in D(n) |-> IF s = {} THEN 0 ELSE w[Pick(s)] + g[Rest(s)]]
  <2>6. ASSUME NEW s \in D(n), s # {} PROVE Rest(s) \in D(n - 1) /\ Rest(s) \in D(n)
    BY <1>1, <1>2, <2>2, <2>6
  <2>7. \A s \in D(n - 1) : s \in D(n) /\ g[s] = IF s = {} THEN 0 ELSE w[Pick(s)] + g[Rest(s)]
    <3>1. \A s \in D(n - 1) : s \in D(n)
      BY <1>1, <2>2
    <3> HIDE DEF D, Rest
    <3> QED
      BY <2>5, <3>1
  <2> HIDE DEF D, Rest
  <2>8. \A s \in D(n - 1) : h[s] = g[s]
    BY <2>7
  <2>9. ASSUME NEW s \in D(n) PROVE h[s] = IF s = {} THEN 0 ELSE w[Pick(s)] + h[Rest(s)]
    BY <2>6, <2>8
  <2>10. Good(h, n)
    BY <2>9
  <2> QED
    BY <2>2, <2>10
<1>4. PICK g : Good(g, Cardinality(S))
  <2>1. Cardinality(S) \in Nat
    BY FS_CardinalityType
  <2> HIDE DEF Good
  <2> QED
    BY <1>3, <2>1
<1>5. D(Cardinality(S)) = SUBSET S
  BY FS_Subset
<1>6. IsSum(g, w, S)
  BY <1>4, <1>5 DEF IsSum
<1> QED
  BY <1>6

\* What Total computes.
LEMMA TotalIsSum ==
  ASSUME NEW S, IsFiniteSet(S), \A m \in S : m.v \in Int
  PROVE  \E g : IsSum(g, [m \in S |-> m.v], S) /\ Total(S) = g[S]
<1> DEFINE w == [m \in S |-> m.v]
           Eq(g) == g = [s \in SUBSET S |-> IF s = {} THEN 0
                                            ELSE Pick(s).v + g[s \ {Pick(s)}]]
<1>1. Total(S) = (CHOOSE g : Eq(g))[S]
  BY DEF Total, MapThenSumSet, MapThenFoldSet, Pick
<1>2. \A s \in SUBSET S : s # {} => w[Pick(s)] = Pick(s).v
  BY PickIsIn
<1>3. ASSUME NEW g PROVE Eq(g) <=> IsSum(g, w, S)
  <2> HIDE DEF w
  <2>1. ASSUME Eq(g) PROVE IsSum(g, w, S)
    <3>1. \A s \in SUBSET S : g[s] = IF s = {} THEN 0 ELSE w[Pick(s)] + g[s \ {Pick(s)}]
      BY <1>2, <2>1
    <3> QED
      BY <2>1, <3>1 DEF IsSum
  <2>2. ASSUME IsSum(g, w, S) PROVE Eq(g)
    <3>1. \A s \in SUBSET S : g[s] = IF s = {} THEN 0 ELSE Pick(s).v + g[s \ {Pick(s)}]
      BY <1>2, <2>2 DEF IsSum
    <3> QED
      BY <2>2, <3>1 DEF IsSum
  <2> QED
    BY <2>1, <2>2
<1>4. \E g : IsSum(g, w, S)
  BY SumExists
<1> HIDE DEF Eq, w
<1>5. Eq(CHOOSE g : Eq(g))
  BY <1>3, <1>4
<1> QED
  BY <1>1, <1>3, <1>5 DEF w

\* Total adds the value of every command once.
LEMMA TotalFacts ==
  ASSUME NEW S, IsFiniteSet(S), \A m \in S : m.v \in Int
  PROVE  /\ Total({}) = 0
         /\ Total(S) \in Int
         /\ \A m : m \notin S /\ m.v \in Int => Total(S \cup {m}) = Total(S) + m.v
<1> DEFINE w(U) == [m \in U |-> m.v]
<1>1. PICK g : IsSum(g, w(S), S) /\ Total(S) = g[S]
  BY TotalIsSum
<1>2. PICK f : IsSum(f, w({}), {}) /\ Total({}) = f[{}]
  BY TotalIsSum, FS_EmptySet
<1>3. \A m \in S : w(S)[m] \in Int
  OBVIOUS
<1>4. Total({}) = 0
  <2> HIDE DEF w
  <2> QED
    BY <1>2, SumOfNothing
<1>5. Total(S) \in Int
  <2>1. \A s \in SUBSET S : g[s] \in Int
    <3> HIDE DEF w
    <3> QED
      BY <1>1, <1>3, SumIsInt
  <2> QED
    BY <1>1, <2>1
<1>6. ASSUME NEW m, m \notin S, m.v \in Int PROVE Total(S \cup {m}) = Total(S) + m.v
  <2> DEFINE U == S \cup {m}
  <2>1. (\A o \in U : o.v \in Int) /\ IsFiniteSet(U) /\ m \in U /\ U \ {m} = S
    BY <1>6, FS_AddElement
  <2> HIDE DEF U
  <2> DEFINE u == w(U)
             v == w(S)
  <2>2. PICK h : IsSum(h, u, U) /\ Total(U) = h[U]
    BY <2>1, TotalIsSum
  <2>3. (\A x \in U : u[x] \in Int) /\ u[m] = m.v
    BY <2>1
  <2>4. S \subseteq U /\ S \cap U = S
    BY <2>1
  <2>5. IsSum(g, v, S) /\ \A x \in S \cap U : v[x] = u[x]
    BY <1>1, <2>4
  <2> HIDE DEF u, v
  <2>6. h[U] = u[m] + h[U \ {m}]
    <3>1. IsFiniteSet(U) /\ (\A x \in U : u[x] \in Int) /\ IsSum(h, u, U)
      BY <2>1, <2>2, <2>3
    <3>2. U \in SUBSET U /\ m \in U
      BY <2>1
    <3> QED
      BY <3>1, <3>2, SumTakesAny
  <2>7. S \in SUBSET (S \cap U)
    BY <2>4
  <2>8. g[S] = h[S]
    BY <2>2, <2>5, <2>7, SumAgrees
  <2>9. Total(U) = m.v + Total(S)
    BY <1>1, <2>1, <2>2, <2>3, <2>6, <2>8
  <2>10. m.v + Total(S) = Total(S) + m.v
    BY <1>5, <1>6
  <2> QED
    BY <2>9, <2>10 DEF U
<1> QED
  BY <1>4, <1>5, <1>6

\* F gives every command of S another form, with the same value.
IsRenaming(F, S) ==
  /\ \A m, o \in S : F[m] = F[o] => m = o
  /\ \A m \in S : m.v \in Int /\ F[m].v = m.v

Renamed(F, S) == {F[m] : m \in S}

\* Renaming the commands of a set changes neither their number nor the sum of their
\* values.
LEMMA RenamingFacts ==
  ASSUME NEW S, IsFiniteSet(S), NEW F, IsRenaming(F, S)
  PROVE  /\ IsFiniteSet(Renamed(F, S))
         /\ Cardinality(Renamed(F, S)) = Cardinality(S)
         /\ Total(Renamed(F, S)) = Total(S)
<1> DEFINE Img(s) == Renamed(F, s)
           Good(s) == /\ IsFiniteSet(Img(s)) /\ Cardinality(Img(s)) = Cardinality(s)
                      /\ Total(Img(s)) = Total(s)
           T == {Cardinality(s) : s \in {r \in SUBSET S : ~Good(r)}}
<1> SUFFICES ASSUME ~Good(S) PROVE FALSE
  OBVIOUS
<1> HIDE DEF Good
<1>0. T # {}
  OBVIOUS
<1>1. T \in SUBSET Nat
  BY FS_Subset, FS_CardinalityType
<1>2. PICK n \in T : \A k \in T : n <= k
  <2> HIDE DEF T
  <2> QED
    BY <1>0, <1>1, LeastNat
<1>3. PICK s \in SUBSET S : ~Good(s) /\ n = Cardinality(s)
  OBVIOUS
<1>4. s # {}
  <2>1. Img({}) = {}
    BY DEF Renamed
  <2>2. IsFiniteSet({})
    BY FS_EmptySet
  <2> HIDE DEF Img
  <2>3. Good({})
    BY <2>1, <2>2 DEF Good
  <2> QED
    BY <1>3, <2>3
<1> DEFINE x == Pick(s)
           r == s \ {x}
<1>5. x \in s /\ x \in S /\ s \in SUBSET S
  BY <1>4, PickIsIn
<1> HIDE DEF x
<1>6. r \in SUBSET S /\ Cardinality(r) \in Nat /\ Cardinality(r) = n - 1 /\ n \in Nat
  BY <1>3, <1>5, OneLess
<1>7. Good(r)
  <2>1. Cardinality(r) \notin T
    <3> HIDE DEF T, r
    <3> QED
      BY <1>2, <1>6
  <2> QED
    BY <1>6, <2>1
<1>8. Img(s) = Img(r) \cup {F[x]}
  BY <1>5 DEF Renamed
<1>9. F[x] \notin Img(r) /\ x \notin r /\ s = r \cup {x}
  BY <1>5 DEF Renamed, IsRenaming
<1>10. IsFiniteSet(r) /\ \A m \in r : m.v \in Int
  BY <1>6, FS_Subset DEF IsRenaming
<1>11. \A m \in Img(r) : m.v \in Int
  BY <1>6 DEF Renamed, IsRenaming
<1>12. x.v \in Int /\ F[x].v = x.v
  BY <1>5 DEF IsRenaming
<1> DEFINE I == Img(r)
<1> HIDE DEF Img, r
<1>13. /\ IsFiniteSet(I) /\ Cardinality(I) = Cardinality(r) /\ Total(I) = Total(r)
  BY <1>7 DEF Good
<1>14. Total(s) = Total(r) + x.v
  BY <1>9, <1>10, <1>12, TotalFacts
<1>15. Total(Img(s)) = Total(I) + F[x].v
  <2> DEFINE y == F[x]
  <2>1. y \notin I /\ y.v \in Int /\ IsFiniteSet(I) /\ (\A m \in I : m.v \in Int) /\ Img(s) = I \cup {y}
    BY <1>8, <1>9, <1>11, <1>12, <1>13
  <2> HIDE DEF y, I
  <2>2. Total(I \cup {y}) = Total(I) + y.v
    BY <2>1, TotalFacts
  <2> QED
    BY <2>1, <2>2 DEF y
<1>16. IsFiniteSet(Img(s)) /\ Cardinality(Img(s)) = Cardinality(I) + 1
  <2> DEFINE y == F[x]
  <2>1. y \notin I /\ IsFiniteSet(I) /\ Img(s) = I \cup {y}
    BY <1>8, <1>9, <1>13
  <2> HIDE DEF y, I
  <2>2. IsFiniteSet(I \cup {y}) /\ Cardinality(I \cup {y}) = Cardinality(I) + 1
    BY <2>1, FS_AddElement
  <2> QED
    BY <2>1, <2>2
<1>17. Cardinality(s) = Cardinality(r) + 1
  BY <1>3, <1>6
<1> QED
  BY <1>3, <1>12, <1>13, <1>14, <1>15, <1>16, <1>17 DEF Good
=============================================================================
