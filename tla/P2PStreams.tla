----------------------------- MODULE P2PStreams -----------------------------
(***************************************************************************)
(* What travels on the P2P connections: the commands of a server reach a   *)
(* peer in order and from that server alone, for any number of servers,    *)
(* connections and commands, however often peers refuse, connections fail  *)
(* or REPLICATE is repeated.  Every step is also shown to be of one of     *)
(* three kinds, by what it does to the copies of a command, which          *)
(* P2PProofs counts.                                                       *)
(***************************************************************************)
EXTENDS P2P, SequenceTheorems, TLAPS

\* The provers in the order they are tried; the last ones are for slow machines.
USE SMT, Zenon, SMTT(30), ZenonT(30), SMTT(60)

\* What is in a stream after a command was appended to it.
LEMMA RangeAppend ==
  ASSUME NEW S, NEW s \in Seq(S), NEW m \in S
  PROVE  Range(Append(s, m)) = Range(s) \cup {m}
<1>1. /\ Append(s, m) \in Seq(S) /\ Len(Append(s, m)) = Len(s) + 1
      /\ \A i \in 1 .. Len(s) : Append(s, m)[i] = s[i]
      /\ Append(s, m)[Len(s) + 1] = m
  BY AppendProperties
<1>2. DOMAIN Append(s, m) = 1 .. Len(s) + 1 /\ DOMAIN s = 1 .. Len(s) /\ Len(s) \in Nat
  BY <1>1, LenProperties
<1> QED
  BY <1>1, <1>2 DEF Range

\* A list in which nothing occurs twice still has this property when something new
\* is appended.
LEMMA InjectiveAppend ==
  ASSUME NEW S, NEW s \in Seq(S), NEW m \in S, IsInjective(s), m \notin Range(s)
  PROVE  IsInjective(Append(s, m))
<1>1. /\ DOMAIN Append(s, m) = 1 .. Len(s) + 1 /\ DOMAIN s = 1 .. Len(s) /\ Len(s) \in Nat
      /\ \A i \in 1 .. Len(s) : Append(s, m)[i] = s[i]
      /\ Append(s, m)[Len(s) + 1] = m
  BY AppendProperties, LenProperties
<1>2. \A i \in 1 .. Len(s) : s[i] # m
  BY <1>1 DEF Range
<1>3. \A i, j \in 1 .. Len(s) : s[i] = s[j] => i = j
  BY <1>1 DEF IsInjective
<1>4. SUFFICES ASSUME NEW i \in 1 .. Len(s) + 1, NEW j \in 1 .. Len(s) + 1,
                      Append(s, m)[i] = Append(s, m)[j]
               PROVE  i = j
  BY <1>1 DEF IsInjective
<1>5. (i \in 1 .. Len(s) \/ i = Len(s) + 1) /\ (j \in 1 .. Len(s) \/ j = Len(s) + 1)
  BY <1>1
<1> QED
  BY <1>1, <1>2, <1>3, <1>4, <1>5

\* A server writes commands with growing numbers ...
LEMMA IncreasingAppend ==
  ASSUME NEW s \in Seq(Nat), NEW m \in Nat, Increasing(s), \A x \in Range(s) : x < m
  PROVE  Increasing(Append(s, m))
<1>1. /\ DOMAIN Append(s, m) = 1 .. Len(s) + 1 /\ DOMAIN s = 1 .. Len(s) /\ Len(s) \in Nat
      /\ \A i \in 1 .. Len(s) : Append(s, m)[i] = s[i]
      /\ Append(s, m)[Len(s) + 1] = m
  BY AppendProperties, LenProperties
<1>2. \A i \in 1 .. Len(s) : s[i] < m
  BY <1>1 DEF Range
<1>3. \A i, j \in 1 .. Len(s) : i < j => s[i] < s[j]
  BY <1>1 DEF Increasing
<1>4. SUFFICES ASSUME NEW i \in 1 .. Len(s) + 1, NEW j \in 1 .. Len(s) + 1, i < j
               PROVE  Append(s, m)[i] < Append(s, m)[j]
  BY <1>1 DEF Increasing
<1>5. i \in 1 .. Len(s) /\ (j \in 1 .. Len(s) \/ j = Len(s) + 1)
  BY <1>1, <1>4
<1> QED
  BY <1>1, <1>2, <1>3, <1>4, <1>5

\* ... and its peer reads them from the lowest on.
LEMMA IncreasingTail ==
  ASSUME NEW s \in Seq(Nat), s # << >>, Increasing(s)
  PROVE  /\ Increasing(Tail(s)) /\ Tail(s) \in Seq(Nat) /\ Head(s) \in Nat
         /\ \A x \in Range(Tail(s)) : Head(s) < x
         /\ Head(s) \in Range(s) /\ Range(Tail(s)) = Range(s) \ {Head(s)}
<1>1. /\ DOMAIN s = 1 .. Len(s) /\ DOMAIN Tail(s) = 1 .. Len(s) - 1 /\ Len(s) \in Nat \ {0}
      /\ Head(s) = s[1] /\ \A i \in 1 .. Len(s) - 1 : Tail(s)[i] = s[i + 1]
      /\ Tail(s) \in Seq(Nat) /\ Head(s) \in Nat
  BY HeadTailProperties, LenProperties, EmptySeq
<1>2. \A i, j \in 1 .. Len(s) : i < j => s[i] < s[j]
  BY <1>1 DEF Increasing
<1>3. ASSUME NEW i \in 1 .. Len(s) - 1, NEW j \in 1 .. Len(s) - 1, i < j
      PROVE  Tail(s)[i] < Tail(s)[j]
  <2>1. i + 1 \in 1 .. Len(s) /\ j + 1 \in 1 .. Len(s) /\ i + 1 < j + 1
    BY <1>1, <1>3
  <2> QED
    BY <1>1, <1>2, <2>1
<1>4. ASSUME NEW i \in 1 .. Len(s) - 1 PROVE Head(s) < Tail(s)[i]
  <2>1. i + 1 \in 1 .. Len(s) /\ 1 \in 1 .. Len(s) /\ 1 < i + 1
    BY <1>1
  <2> QED
    BY <1>1, <1>2, <2>1
<1>5. \A x \in Range(Tail(s)) : Head(s) < x /\ x \in Nat
  <2> SUFFICES ASSUME NEW x \in Range(Tail(s)) PROVE Head(s) < x /\ x \in Nat
    OBVIOUS
  <2>1. PICK i \in 1 .. Len(s) - 1 : x = Tail(s)[i]
    BY <1>1 DEF Range
  <2>2. Tail(s)[i] \in Nat
    BY <1>1
  <2> QED
    BY <1>4, <2>1, <2>2
<1>6. Range(s) = Range(Tail(s)) \cup {Head(s)}
  <2>1. ASSUME NEW x \in Range(s) PROVE x \in Range(Tail(s)) \cup {Head(s)}
    <3>1. PICK i \in 1 .. Len(s) : x = s[i]
      BY <1>1 DEF Range
    <3>2. i = 1 \/ (i - 1 \in 1 .. Len(s) - 1 /\ (i - 1) + 1 = i)
      BY <1>1
    <3>3. i = 1 \/ (i - 1 \in DOMAIN Tail(s) /\ Tail(s)[i - 1] = x)
      BY <1>1, <3>1, <3>2
    <3> QED
      BY <1>1, <3>1, <3>3, Zenon DEF Range
  <2>2. ASSUME NEW x \in Range(Tail(s)) PROVE x \in Range(s)
    <3>1. PICK i \in 1 .. Len(s) - 1 : x = Tail(s)[i]
      BY <1>1 DEF Range
    <3>2. x = s[i + 1] /\ i + 1 \in 1 .. Len(s)
      BY <1>1, <3>1
    <3> QED
      BY <1>1, <3>2 DEF Range
  <2>3. Head(s) \in Range(s)
    BY <1>1 DEF Range
  <2> QED
    BY <2>1, <2>2, <2>3
<1>7. Head(s) \notin Range(Tail(s))
  BY <1>1, <1>5
<1>8. Increasing(Tail(s))
  <2> SUFFICES ASSUME NEW i \in DOMAIN Tail(s), NEW j \in DOMAIN Tail(s), i < j
               PROVE  Tail(s)[i] < Tail(s)[j]
    BY DEF Increasing
  <2>1. i \in 1 .. Len(s) - 1 /\ j \in 1 .. Len(s) - 1
    BY <1>1
  <2> QED
    BY <1>3, <2>1
<1>9. Head(s) \in Range(s) /\ Range(Tail(s)) = Range(s) \ {Head(s)}
  BY <1>6, <1>7
<1> QED
  BY <1>1, <1>5, <1>8, <1>9

\* Copies of a command behind a stream: none, or one.
LEMMA CopiesBehind ==
  ASSUME NEW s \in Seq(Nat), NEW m \in Nat
  PROVE  /\ s \o [i \in 1 .. 0 |-> m] = s
         /\ s \o [i \in 1 .. 1 |-> m] = Append(s, m)
<1>1. [i \in 1 .. 0 |-> m] = << >>
  OBVIOUS
<1>2. [i \in 1 .. 1 |-> m] = <<m>>
  OBVIOUS
<1>3. s \o << >> = s
  BY ConcatEmptySeq
<1>4. s \o <<m>> = Append(s, m)
  BY AppendIsConcat
<1> QED
  BY <1>1, <1>2, <1>3, <1>4

\* A server connects to other servers.
LEMMA PeersAreOthers ==
  ASSUME NEW p \in Procs
  PROVE  /\ Len(Peers(p)) \in Nat
         /\ \A i \in 1 .. Len(Peers(p)) : Peers(p)[i] \in Procs /\ Peers(p)[i] # p
<1>1. p \in Nat /\ p < N /\ N \in Nat
  BY NAssumption DEF Procs
<1>2. (p + 1) \div 2 \in Nat /\ \A i \in 1 .. (p + 1) \div 2 : i - 1 \in 0 .. N - 1 /\ i - 1 # p
  BY <1>1
<1>3. /\ ScriptPeers(p) \in Seq(Int) /\ Len(ScriptPeers(p)) = p
      /\ \A i \in 1 .. p : ScriptPeers(p)[i] = i - 1
  BY <1>1 DEF ScriptPeers
<1>4. /\ AutomatPeers(p) \in Seq(Int) /\ Len(AutomatPeers(p)) = (p + 1) \div 2
      /\ \A i \in 1 .. (p + 1) \div 2 : AutomatPeers(p)[i] = i - 1
  BY <1>2 DEF AutomatPeers
<1>5. CASE Automat
  BY <1>1, <1>2, <1>4, <1>5 DEF Peers, Procs
<1>6. CASE ~Automat
  BY <1>1, <1>3, <1>6 DEF Peers, Procs
<1> QED
  BY <1>5, <1>6

\* REPLICATE leaves the connections there are alone and starts silent ones.
LEMMA ReplicateFacts ==
  ASSUME TypeOK, NEW p \in Procs, NEW k \in Nat, replicateCommand(p, k)
  PROVE  /\ conns' \in Seq(Connection) /\ stream' \in Seq([Procs -> Seq(Nat)])
         /\ Len(stream') = Len(conns') /\ DOMAIN conns \subseteq DOMAIN conns'
         /\ \A c \in DOMAIN conns : conns'[c] = conns[c] /\ stream'[c] = stream[c]
         /\ \A c \in DOMAIN conns' \ DOMAIN conns :
              /\ conns'[c].from # conns'[c].to /\ conns'[c].state = "connecting"
              /\ stream'[c] = Silent
<1> DEFINE new == [i \in 1 .. k |-> [from |-> p, to |-> Peers(p)[i], state |-> "connecting"]]
           silent == [i \in 1 .. k |-> Silent]
<1>1. k <= Len(Peers(p)) /\ conns' = conns \o new /\ stream' = stream \o silent
  BY PeersAreOthers DEF replicateCommand
<1>2. \A i \in 1 .. k : Peers(p)[i] \in Procs /\ Peers(p)[i] # p
  BY <1>1, PeersAreOthers
<1>3. new \in Seq(Connection) /\ Len(new) = k /\ \A i \in 1 .. k : new[i].from # new[i].to /\ new[i].state = "connecting"
  BY <1>2 DEF Connection
<1>4. Silent \in [Procs -> Seq(Nat)]
  BY DEF Silent
<1>5. silent \in Seq([Procs -> Seq(Nat)]) /\ Len(silent) = k /\ \A i \in 1 .. k : silent[i] = Silent
  BY <1>4
<1>6. conns \in Seq(Connection) /\ stream \in Seq([Procs -> Seq(Nat)]) /\ Len(stream) = Len(conns)
  BY DEF TypeOK
<1> HIDE DEF new, silent
<1> DEFINE n == Len(conns)
<1>7. n \in Nat /\ DOMAIN conns = 1 .. n
  BY <1>6, LenProperties
<1>8. /\ conns' \in Seq(Connection) /\ Len(conns') = n + k
      /\ \A c \in 1 .. n + k : conns'[c] = IF c <= n THEN conns[c] ELSE new[c - n]
  BY <1>1, <1>3, <1>6, ConcatProperties
<1>9. /\ stream' \in Seq([Procs -> Seq(Nat)]) /\ Len(stream') = n + k
      /\ \A c \in 1 .. n + k : stream'[c] = IF c <= n THEN stream[c] ELSE silent[c - n]
  <2> DEFINE S == [Procs -> Seq(Nat)]
  <2>1. stream \in Seq(S) /\ silent \in Seq(S)
    BY <1>5, <1>6
  <2> HIDE DEF S
  <2>2. /\ stream \o silent \in Seq(S) /\ Len(stream \o silent) = Len(stream) + Len(silent)
        /\ \A c \in 1 .. Len(stream) + Len(silent) :
             (stream \o silent)[c] = IF c <= Len(stream) THEN stream[c] ELSE silent[c - Len(stream)]
    BY <2>1, ConcatProperties
  <2> QED
    BY <1>1, <1>5, <1>6, <2>2 DEF S
<1>10. DOMAIN conns' = 1 .. n + k
  BY <1>8, LenProperties
<1> HIDE DEF n
<1>11. ASSUME NEW c \in 1 .. n
       PROVE  c \in 1 .. n + k /\ conns'[c] = conns[c] /\ stream'[c] = stream[c]
  BY <1>7, <1>8, <1>9
<1>12. ASSUME NEW c \in (1 .. n + k) \ (1 .. n)
       PROVE  /\ conns'[c].from # conns'[c].to /\ conns'[c].state = "connecting"
              /\ stream'[c] = Silent
  <2>1. c - n \in 1 .. k /\ ~(c <= n)
    BY <1>7
  <2> QED
    BY <1>3, <1>5, <1>8, <1>9, <2>1
<1> QED
  BY <1>7, <1>8, <1>9, <1>10, <1>11, <1>12
-----------------------------------------------------------------------------
\* The invariant but for the count of copies, which P2PProofs adds.
StreamsInv ==
  TypeOK /\ Listed /\ Greeting /\ OwnInOrder /\ Ahead /\ ExactlyOnceInOrder /\ NoForwarding

\* Connections keep their ends, and the peers of a server never become fewer.
KeepsEnds ==
  /\ DOMAIN conns \subseteq DOMAIN conns'
  /\ \A c \in DOMAIN conns : conns'[c].from = conns[c].from /\ conns'[c].to = conns[c].to

LEMMA EndsKept ==
  ASSUME KeepsEnds, NEW p, NEW q
  PROVE  /\ \A c \in DOMAIN conns : Ends(c)' = Ends(c) /\ Other(c, p)' = Other(c, p)
         /\ \A c \in DOMAIN conns : c \in Links(p, q)' <=> c \in Links(p, q)
         /\ Links(p, q) \subseteq Links(p, q)'
         /\ OneLink(p, q)' => OneLink(p, q)
<1>1. \A c \in DOMAIN conns : Ends(c)' = Ends(c) /\ Other(c, p)' = Other(c, p)
  BY DEF KeepsEnds, Ends, Other
<1>2. \A c \in DOMAIN conns : c \in Links(p, q)' <=> c \in Links(p, q)
  BY <1>1 DEF KeepsEnds, Links
<1>3. Links(p, q) \subseteq Links(p, q)'
  BY <1>2 DEF Links
<1> QED
  BY <1>1, <1>2, <1>3 DEF OneLink

\* Commands are numbered from 1, and come from servers.
LEMMA CommandsAreNumbered ==
  ASSUME TypeOK, NEW m \in DOMAIN issued
  PROVE  m \in Nat /\ m # Handshake /\ m <= Len(issued) /\ issued[m].by \in Procs
<1>1. issued \in Seq([by : Procs, reached : SUBSET Procs])
  BY DEF TypeOK
<1>2. DOMAIN issued = 1 .. Len(issued) /\ Len(issued) \in Nat
  BY <1>1, LenProperties
<1>3. issued[m] \in [by : Procs, reached : SUBSET Procs]
  BY <1>1, <1>2, ElementOfSeq
<1> QED
  BY <1>2, <1>3 DEF Handshake

\* No command is written to any connection.
NothingSent ==
  \A c \in DOMAIN conns', p \in Procs :
    /\ Increasing(stream'[c][p])
    /\ Range(stream'[c][p]) \ {Handshake} # {} =>
         c \in DOMAIN conns /\ Range(stream'[c][p]) \ {Handshake} \subseteq Range(stream[c][p])

\* A step that executes nothing and writes no command.
Quiet == KeepsEnds /\ executed' = executed /\ issued' = issued /\ NothingSent

\* A step that executes nothing and writes no command keeps the invariant.
LEMMA QuietStep ==
  ASSUME StreamsInv, TypeOK', Listed', Greeting', Quiet
  PROVE  StreamsInv'
<1>1. OwnInOrder /\ Ahead /\ ExactlyOnceInOrder /\ NoForwarding
  BY DEF StreamsInv
<1> SUFFICES ASSUME KeepsEnds, executed' = executed, issued' = issued, NothingSent
             PROVE  StreamsInv'
  BY DEF Quiet
<1>2. ASSUME NEW c \in DOMAIN conns', NEW p \in Procs, NEW m \in Range(stream'[c][p]) \ {Handshake}
      PROVE  c \in DOMAIN conns /\ m \in Range(stream[c][p]) \ {Handshake}
  BY DEF NothingSent
<1>3. OwnInOrder'
  <2> SUFFICES ASSUME NEW c \in DOMAIN conns', NEW p \in Procs,
                      NEW m \in Range(stream'[c][p]) \ {Handshake}
               PROVE  m \in DOMAIN issued /\ issued[m].by = p /\ Other(c, p)' \in issued[m].reached
    BY DEF OwnInOrder, NothingSent
  <2>1. c \in DOMAIN conns /\ m \in Range(stream[c][p]) \ {Handshake}
    BY <1>2
  <2>2. Other(c, p)' = Other(c, p)
    BY <2>1, EndsKept
  <2> QED
    BY <1>1, <2>1, <2>2 DEF OwnInOrder
<1>4. Ahead'
  <2> SUFFICES ASSUME NEW p \in Procs, NEW q \in Procs, NEW c \in Links(p, q)', OneLink(p, q)',
                      NEW x \in Range(executed[p]), NEW m \in Range(stream'[c][q]) \ {Handshake},
                      issued[x].by = q
               PROVE  x < m
    BY DEF Ahead
  <2>1. c \in DOMAIN conns /\ m \in Range(stream[c][q]) \ {Handshake}
    BY <1>2 DEF Links
  <2>2. c \in Links(p, q) /\ OneLink(p, q)
    BY <2>1, EndsKept
  <2> QED
    BY <1>1, <2>1, <2>2 DEF Ahead
<1>5. ExactlyOnceInOrder'
  <2> SUFFICES ASSUME NEW p \in Procs, NEW q \in Procs, OneLink(p, q)',
                      NEW i \in DOMAIN executed[p], NEW j \in DOMAIN executed[p],
                      i < j, issued[executed[p][i]].by = q, issued[executed[p][j]].by = q
               PROVE  executed[p][i] < executed[p][j]
    BY DEF ExactlyOnceInOrder
  <2>1. OneLink(p, q)
    BY EndsKept
  <2> QED
    BY <1>1, <2>1 DEF ExactlyOnceInOrder
<1>6. NoForwarding'
  BY <1>1 DEF NoForwarding
<1> QED
  BY <1>3, <1>4, <1>5, <1>6 DEF StreamsInv

LEMMA ReplicateStep ==
  ASSUME StreamsInv, NEW p \in Procs, NEW k \in Nat, replicateCommand(p, k)
  PROVE  StreamsInv' /\ Quiet
<1>1. TypeOK /\ Listed /\ Greeting /\ OwnInOrder
  BY DEF StreamsInv
<1>2. /\ conns' \in Seq(Connection) /\ stream' \in Seq([Procs -> Seq(Nat)])
      /\ Len(stream') = Len(conns') /\ DOMAIN conns \subseteq DOMAIN conns'
      /\ \A c \in DOMAIN conns : conns'[c] = conns[c] /\ stream'[c] = stream[c]
      /\ \A c \in DOMAIN conns' \ DOMAIN conns :
           /\ conns'[c].from # conns'[c].to /\ conns'[c].state = "connecting"
           /\ stream'[c] = Silent
  BY <1>1, ReplicateFacts
<1>3. replicas' = replicas /\ executed' = executed /\ issued' = issued
  BY DEF replicateCommand
<1>4. \A q \in Procs : replicas[q] \in Seq(DOMAIN conns) /\ Range(replicas[q]) \subseteq DOMAIN conns
  <2> SUFFICES ASSUME NEW q \in Procs
               PROVE  replicas[q] \in Seq(DOMAIN conns) /\ Range(replicas[q]) \subseteq DOMAIN conns
    OBVIOUS
  <2>1. replicas[q] \in Seq(DOMAIN conns)
    BY <1>1 DEF TypeOK
  <2> QED
    BY <2>1, RangeOfSeq DEF Range
<1>5. KeepsEnds
  BY <1>2 DEF KeepsEnds
<1>6. \A q \in Procs : Silent[q] = << >> /\ Range(Silent[q]) = {}
  BY DEF Silent, Range
<1>7. TypeOK'
  <2>1. \A c \in DOMAIN conns' : conns'[c].from # conns'[c].to
    BY <1>1, <1>2 DEF TypeOK
  <2>2. replicas \in [Procs -> Seq(DOMAIN conns')]
    <3>1. \A q \in Procs : replicas[q] \in Seq(DOMAIN conns')
      BY <1>2, <1>4, SeqMonotonic
    <3> QED
      BY <1>1, <3>1 DEF TypeOK
  <2>3. \A q \in Procs : \A c \in Range(replicas[q]) : q \in Ends(c)'
    <3> SUFFICES ASSUME NEW q \in Procs, NEW c \in Range(replicas[q]) PROVE q \in Ends(c)'
      OBVIOUS
    <3>1. c \in DOMAIN conns /\ q \in Ends(c)
      BY <1>1, <1>4 DEF TypeOK
    <3> QED
      BY <1>5, <3>1, EndsKept
  <2>4. issued \in Seq([by : Procs, reached : SUBSET Procs]) /\ executed \in [Procs -> Seq(DOMAIN issued)]
    BY <1>1 DEF TypeOK
  <2> QED
    BY <1>2, <1>3, <2>1, <2>2, <2>3, <2>4 DEF TypeOK
<1>8. Listed'
  <2>1. \A q \in Procs : IsInjective(replicas[q])
    BY <1>1 DEF Listed
  <2>2. \A q \in Procs : \A c \in Range(replicas[q]) : conns'[c].state # "connecting"
    BY <1>1, <1>2, <1>4 DEF Listed
  <2>3. \A c \in DOMAIN conns' : conns'[c].state # "connected" => stream'[c] = Silent
    BY <1>1, <1>2 DEF Listed
  <2> QED
    BY <1>3, <2>1, <2>2, <2>3 DEF Listed
<1>9. Greeting'
  <2> SUFFICES ASSUME NEW c \in DOMAIN conns', NEW q \in Procs, Handshake \in Range(stream'[c][q])
               PROVE  q = conns'[c].from /\ c \notin Range(replicas'[conns'[c].to])
    BY DEF Greeting, Handshake
  <2>1. c \in DOMAIN conns
    BY <1>2, <1>6
  <2>2. conns'[c] = conns[c] /\ Handshake \in Range(stream[c][q])
    BY <1>2, <2>1
  <2>3. q = conns[c].from /\ c \notin Range(replicas[conns[c].to])
    BY <1>1, <2>1, <2>2 DEF Greeting
  <2> QED
    BY <1>3, <2>2, <2>3
<1>10. NothingSent
  <2> SUFFICES ASSUME NEW c \in DOMAIN conns', NEW q \in Procs
               PROVE  /\ Increasing(stream'[c][q])
                      /\ Range(stream'[c][q]) \ {Handshake} # {} =>
                           c \in DOMAIN conns /\ Range(stream'[c][q]) \ {Handshake} \subseteq Range(stream[c][q])
    BY DEF NothingSent
  <2>1. CASE c \in DOMAIN conns
    BY <1>1, <1>2, <2>1 DEF OwnInOrder
  <2>2. CASE c \notin DOMAIN conns
    <3>1. stream'[c][q] = << >> /\ Range(stream'[c][q]) = {}
      BY <1>2, <1>6, <2>2
    <3>2. Increasing(<< >>)
      BY DEF Increasing
    <3> QED
      BY <3>1, <3>2
  <2> QED
    BY <2>1, <2>2
<1>11. Quiet
  BY <1>3, <1>5, <1>10 DEF Quiet
<1> QED
  BY <1>7, <1>8, <1>9, <1>11, QuietStep

\* A change of state leaves the ends of all connections alone.
LEMMA StateChange ==
  ASSUME TypeOK, NEW c \in DOMAIN conns, NEW st \in {"connected", "error", "lost"},
         conns' = [conns EXCEPT ![c].state = st]
  PROVE  /\ conns' \in Seq(Connection) /\ DOMAIN conns' = DOMAIN conns /\ Len(conns') = Len(conns)
         /\ \A d \in DOMAIN conns : conns'[d].from = conns[d].from /\ conns'[d].to = conns[d].to
         /\ \A d \in DOMAIN conns : conns'[d].state = IF d = c THEN st ELSE conns[d].state
         /\ KeepsEnds
<1>1. Len(conns) \in Nat /\ conns \in [1 .. Len(conns) -> Connection] /\ DOMAIN conns = 1 .. Len(conns)
  BY LenProperties DEF TypeOK
<1>2. conns[c] \in Connection
  BY <1>1
<1>3. [conns[c] EXCEPT !.state = st] \in Connection
  BY <1>2 DEF Connection
<1>4. conns' \in [1 .. Len(conns) -> Connection]
  BY <1>1, <1>3
<1>5. conns' \in Seq(Connection) /\ Len(conns') = Len(conns)
  BY <1>1, <1>4, SeqDef, LenProperties
<1>6. DOMAIN conns' = DOMAIN conns
  BY <1>1, <1>4
<1>7. ASSUME NEW d \in DOMAIN conns
      PROVE  /\ conns'[d].from = conns[d].from /\ conns'[d].to = conns[d].to
             /\ conns'[d].state = IF d = c THEN st ELSE conns[d].state
  <2>1. CASE d = c
    BY <1>2, <2>1 DEF Connection
  <2>2. CASE d # c
    BY <2>2
  <2> QED
    BY <2>1, <2>2
<1> QED
  BY <1>5, <1>6, <1>7 DEF KeepsEnds

LEMMA StreamChange ==
  ASSUME TypeOK, NEW c \in DOMAIN conns, NEW f \in [Procs -> Seq(Nat)],
         stream' = [stream EXCEPT ![c] = f]
  PROVE  /\ stream' \in Seq([Procs -> Seq(Nat)]) /\ Len(stream') = Len(conns)
         /\ stream[c] \in [Procs -> Seq(Nat)]
         /\ \A d \in DOMAIN conns : stream'[d] = IF d = c THEN f ELSE stream[d]
<1> DEFINE S == [Procs -> Seq(Nat)]
<1>1. stream \in Seq(S) /\ Len(stream) = Len(conns) /\ conns \in Seq(Connection) /\ f \in S
  BY DEF TypeOK
<1> HIDE DEF S
<1>2. /\ Len(stream) \in Nat /\ stream \in [1 .. Len(stream) -> S] /\ DOMAIN stream = 1 .. Len(stream)
      /\ DOMAIN conns = 1 .. Len(stream)
  BY <1>1, LenProperties
<1>3. stream' \in [1 .. Len(stream) -> S] /\ stream[c] \in S
  BY <1>1, <1>2
<1>4. stream' \in Seq(S) /\ Len(stream') = Len(stream)
  BY <1>2, <1>3, SeqDef, LenProperties
<1>5. \A d \in DOMAIN conns : stream'[d] = IF d = c THEN f ELSE stream[d]
  BY <1>2
<1> QED
  BY <1>1, <1>3, <1>4, <1>5 DEF S

\* What a server writes to its peer, or its peer reads, changes one direction.
OneWay(c, p, s) == [stream EXCEPT ![c] = [stream[c] EXCEPT ![p] = s]]

LEMMA DirectionChange ==
  ASSUME TypeOK, NEW c \in DOMAIN conns, NEW p \in Procs, NEW s \in Seq(Nat),
         stream' = OneWay(c, p, s)
  PROVE  /\ stream' \in Seq([Procs -> Seq(Nat)]) /\ Len(stream') = Len(conns)
         /\ \A d \in DOMAIN conns, q \in Procs :
              /\ stream[d][q] \in Seq(Nat)
              /\ stream'[d][q] = IF d = c /\ q = p THEN s ELSE stream[d][q]
         /\ \A d \in DOMAIN conns : d # c => stream'[d] = stream[d]
<1> DEFINE S == [Procs -> Seq(Nat)]
           f == [stream[c] EXCEPT ![p] = s]
<1>1. \A d \in DOMAIN conns : stream[d] \in S
  <2>1. stream \in Seq(S) /\ Len(stream) = Len(conns) /\ conns \in Seq(Connection)
    BY DEF TypeOK
  <2> HIDE DEF S
  <2> QED
    BY <2>1, LenProperties
<1>2. f \in S
  BY <1>1
<1>3. /\ stream' \in Seq(S) /\ Len(stream') = Len(conns)
      /\ \A d \in DOMAIN conns : stream'[d] = IF d = c THEN f ELSE stream[d]
  <2>1. stream' = [stream EXCEPT ![c] = f]
    BY DEF OneWay
  <2> HIDE DEF f
  <2> QED
    BY <1>2, <2>1, StreamChange
<1>4. \A q \in Procs : f[q] = IF q = p THEN s ELSE stream[c][q]
  BY <1>1
<1> HIDE DEF f
<1>5. \A d \in DOMAIN conns, q \in Procs : stream[d][q] \in Seq(Nat)
  BY <1>1
<1>6. \A d \in DOMAIN conns : d # c => stream'[d] = stream[d]
  BY <1>3
<1>7. ASSUME NEW d \in DOMAIN conns, NEW q \in Procs
      PROVE  stream'[d][q] = IF d = c /\ q = p THEN s ELSE stream[d][q]
  <2>1. CASE d = c
    <3>1. stream'[d] = f
      BY <1>3, <2>1
    <3> QED
      BY <1>4, <2>1, <3>1
  <2>2. CASE d # c
    BY <1>6, <2>2
  <2> QED
    BY <2>1, <2>2
<1> QED
  BY <1>3, <1>5, <1>6, <1>7

\* Listing a connection that was not listed before.
WithListing(p, c) == [replicas EXCEPT ![p] = Append(replicas[p], c)]

LEMMA ListingStep ==
  ASSUME TypeOK, Listed, KeepsEnds, DOMAIN conns' = DOMAIN conns,
         NEW p \in Procs, NEW c \in DOMAIN conns, p \in Ends(c), c \notin Range(replicas[p]),
         replicas' = WithListing(p, c)
  PROVE  /\ replicas' \in [Procs -> Seq(DOMAIN conns')]
         /\ \A q \in Procs : IsInjective(replicas'[q])
         /\ \A q \in Procs : Range(replicas'[q]) = Range(replicas[q]) \cup (IF q = p THEN {c} ELSE {})
         /\ \A q \in Procs : \A d \in Range(replicas'[q]) : d \in DOMAIN conns /\ q \in Ends(d)'
<1>1. replicas \in [Procs -> Seq(DOMAIN conns)]
  BY DEF TypeOK
<1>2. \A q \in Procs : replicas'[q] = IF q = p THEN Append(replicas[p], c) ELSE replicas[q]
  BY <1>1 DEF WithListing
<1>3. replicas[p] \in Seq(DOMAIN conns) /\ IsInjective(replicas[p])
  BY <1>1 DEF Listed
<1>4. /\ Append(replicas[p], c) \in Seq(DOMAIN conns) /\ IsInjective(Append(replicas[p], c))
      /\ Range(Append(replicas[p], c)) = Range(replicas[p]) \cup {c}
  BY <1>3, AppendProperties, InjectiveAppend, RangeAppend
<1>5. replicas' \in [Procs -> Seq(DOMAIN conns')]
  BY <1>1, <1>4 DEF WithListing
<1>6. \A q \in Procs : IsInjective(replicas'[q])
  BY <1>2, <1>4 DEF Listed
<1>7. \A q \in Procs : Range(replicas'[q]) = Range(replicas[q]) \cup (IF q = p THEN {c} ELSE {})
  BY <1>2, <1>4
<1>8. ASSUME NEW q \in Procs, NEW d \in Range(replicas'[q])
      PROVE  d \in DOMAIN conns /\ q \in Ends(d)'
  <2>1. d \in Range(replicas[q]) => d \in DOMAIN conns /\ q \in Ends(d)
    <3>1. replicas[q] \in Seq(DOMAIN conns)
      BY <1>1
    <3>2. Range(replicas[q]) \subseteq DOMAIN conns
      BY <3>1, RangeOfSeq DEF Range
    <3> QED
      BY <3>2 DEF TypeOK
  <2>2. d \in DOMAIN conns /\ q \in Ends(d)
    BY <1>7, <2>1
  <2> QED
    BY <2>2, EndsKept
<1> QED
  BY <1>5, <1>6, <1>7, <1>8

\* A server is one end, and what the other end is called.
LEMMA TheOtherEnd ==
  ASSUME TypeOK, NEW c \in DOMAIN conns, NEW p \in Ends(c)
  PROVE  /\ conns[c].from \in Procs /\ conns[c].to \in Procs /\ conns[c].from # conns[c].to
         /\ p \in Procs /\ Other(c, p) \in Procs /\ Other(c, p) # p
         /\ Ends(c) = {p, Other(c, p)} /\ Other(c, Other(c, p)) = p
         /\ c \in Links(p, Other(c, p))
<1>1. conns[c] \in Connection /\ conns[c].from # conns[c].to
  <2>1. conns \in Seq(Connection)
    BY DEF TypeOK
  <2> QED
    BY <2>1, LenProperties DEF TypeOK
<1> QED
  BY <1>1 DEF Connection, Ends, Other, Links

LEMMA HandlerStep ==
  ASSUME StreamsInv, NEW c \in DOMAIN conns, NEW up \in BOOLEAN, replicationHandler(c, up)
  PROVE  StreamsInv' /\ Quiet
<1> DEFINE p == conns[c].from
           st == IF up THEN "connected" ELSE "error"
<1>1. TypeOK /\ Listed /\ Greeting /\ OwnInOrder
  BY DEF StreamsInv
<1>2. /\ conns[c].state = "connecting" /\ conns' = [conns EXCEPT ![c].state = st]
      /\ stream' = IF up THEN [stream EXCEPT ![c] = [stream[c] EXCEPT ![p] = Append(stream[c][p], Handshake)]]
                         ELSE stream
      /\ replicas' = WithListing(p, c)
      /\ executed' = executed /\ issued' = issued
  BY DEF replicationHandler, WithListing
<1>3. /\ conns' \in Seq(Connection) /\ DOMAIN conns' = DOMAIN conns /\ Len(conns') = Len(conns)
      /\ \A d \in DOMAIN conns : conns'[d].from = conns[d].from /\ conns'[d].to = conns[d].to
      /\ \A d \in DOMAIN conns : conns'[d].state = IF d = c THEN st ELSE conns[d].state
      /\ KeepsEnds
  BY <1>1, <1>2, StateChange
<1>4. p \in Ends(c)
  BY DEF Ends
<1>5. p \in Procs /\ conns[c].to \in Procs /\ conns[c].to # p
  BY <1>1, <1>4, TheOtherEnd
<1>6. c \notin Range(replicas[p]) /\ c \notin Range(replicas[conns[c].to]) /\ stream[c] = Silent
  BY <1>1, <1>2, <1>5 DEF Listed
<1>7. /\ replicas' \in [Procs -> Seq(DOMAIN conns')]
      /\ \A q \in Procs : IsInjective(replicas'[q])
      /\ \A q \in Procs : Range(replicas'[q]) = Range(replicas[q]) \cup (IF q = p THEN {c} ELSE {})
      /\ \A q \in Procs : \A d \in Range(replicas'[q]) : d \in DOMAIN conns /\ q \in Ends(d)'
  <2> HIDE DEF p, st
  <2>1. replicas' = WithListing(p, c)
    BY <1>2
  <2> QED
    BY <1>1, <1>3, <1>4, <1>5, <1>6, <2>1, ListingStep
<1>8. \A q \in Procs : Silent[q] = << >>
  BY DEF Silent
<1>9. /\ stream' \in Seq([Procs -> Seq(Nat)]) /\ Len(stream') = Len(conns)
      /\ \A d \in DOMAIN conns, q \in Procs :
           stream'[d][q] = IF d = c /\ q = p /\ up THEN <<Handshake>> ELSE stream[d][q]
      /\ \A d \in DOMAIN conns : d # c \/ ~up => stream'[d] = stream[d]
  <2>1. CASE ~up
    BY <1>1, <1>2, <2>1 DEF TypeOK
  <2>2. CASE up
    <3>0. stream[c][p] = << >>
      BY <1>5, <1>6, <1>8
    <3> HIDE DEF p
    <3>9. Append(<< >>, Handshake) = <<Handshake>> /\ <<Handshake>> \in Seq(Nat)
      BY DEF Handshake
    <3>1. Append(stream[c][p], Handshake) = <<Handshake>>
      BY <3>0, <3>9
    <3>2. stream' = [stream EXCEPT ![c] = [stream[c] EXCEPT ![p] = <<Handshake>>]]
      BY <1>2, <2>2, <3>1
    <3> DEFINE s == <<Handshake>>
    <3>3. s \in Seq(Nat) /\ stream' = OneWay(c, p, s)
      BY <3>9, <3>2 DEF OneWay
    <3> HIDE DEF s
    <3>4. /\ stream' \in Seq([Procs -> Seq(Nat)]) /\ Len(stream') = Len(conns)
          /\ \A d \in DOMAIN conns, q \in Procs :
               stream'[d][q] = IF d = c /\ q = p THEN s ELSE stream[d][q]
          /\ \A d \in DOMAIN conns : d # c => stream'[d] = stream[d]
      BY <1>1, <1>5, <3>3, DirectionChange
    <3> QED
      BY <2>2, <3>4 DEF s
  <2> QED
    BY <2>1, <2>2
<1>10. Range(<<Handshake>>) = {Handshake} /\ Increasing(<<Handshake>>)
  BY DEF Range, Increasing, Handshake
<1> HIDE DEF p, st
<1>11. TypeOK'
  <2>1. \A d \in DOMAIN conns' : conns'[d].from # conns'[d].to
    BY <1>1, <1>3 DEF TypeOK
  <2>2. issued \in Seq([by : Procs, reached : SUBSET Procs]) /\ executed \in [Procs -> Seq(DOMAIN issued)]
    BY <1>1 DEF TypeOK
  <2> QED
    BY <1>2, <1>3, <1>7, <1>9, <2>1, <2>2 DEF TypeOK
<1>12. st # "connecting" /\ (st # "connected" => ~up)
  BY DEF st
<1>13. Listed'
  <2>1. \A q \in Procs : \A d \in Range(replicas'[q]) : conns'[d].state # "connecting"
    BY <1>1, <1>3, <1>7, <1>12 DEF Listed
  <2>2. \A d \in DOMAIN conns' : conns'[d].state # "connected" => stream'[d] = Silent
    BY <1>1, <1>3, <1>6, <1>9, <1>12 DEF Listed
  <2> QED
    BY <1>7, <2>1, <2>2 DEF Listed
<1>14. Greeting'
  <2> SUFFICES ASSUME NEW d \in DOMAIN conns, NEW q \in Procs, Handshake \in Range(stream'[d][q])
               PROVE  q = conns[d].from /\ d \notin Range(replicas'[conns[d].to])
    BY <1>3 DEF Greeting, Handshake
  <2>1. d \in DOMAIN conns /\ conns[d].to \in Procs
    <3>1. conns[d].from \in Ends(d)
      BY DEF Ends
    <3> QED
      BY <1>1, <3>1, TheOtherEnd
  <2>2. CASE d = c
    <3>0. stream[c][q] = << >> /\ Range(<< >>) = {}
      BY <1>6, <1>8 DEF Range
    <3>1. q = p
      BY <1>9, <2>2, <3>0
    <3>2. c \notin Range(replicas'[conns[c].to])
      BY <1>5, <1>6, <1>7
    <3> QED
      BY <2>2, <3>1, <3>2 DEF p
  <2>3. CASE d # c
    <3>1. Handshake \in Range(stream[d][q])
      BY <1>9, <2>3
    <3>2. q = conns[d].from /\ d \notin Range(replicas[conns[d].to])
      BY <1>1, <3>1 DEF Greeting
    <3> QED
      BY <1>7, <2>1, <2>3, <3>2
  <2> QED
    BY <2>2, <2>3
<1>15. NothingSent
  <2> SUFFICES ASSUME NEW d \in DOMAIN conns, NEW q \in Procs
               PROVE  /\ Increasing(stream'[d][q])
                      /\ Range(stream'[d][q]) \ {Handshake} \subseteq Range(stream[d][q])
    BY <1>3 DEF NothingSent
  <2>1. Increasing(stream[d][q])
    BY <1>1 DEF OwnInOrder
  <2> QED
    BY <1>9, <1>10, <2>1
<1>16. Quiet
  BY <1>2, <1>3, <1>15 DEF Quiet
<1> QED
  BY <1>11, <1>13, <1>14, <1>16, QuietStep

LEMMA LostStep ==
  ASSUME StreamsInv, NEW c \in DOMAIN conns, connectionLost(c)
  PROVE  StreamsInv' /\ Quiet
<1>1. TypeOK /\ Listed /\ Greeting /\ OwnInOrder
  BY DEF StreamsInv
<1>2. /\ conns' = [conns EXCEPT ![c].state = "lost"] /\ stream' = [stream EXCEPT ![c] = Silent]
      /\ replicas' = replicas /\ executed' = executed /\ issued' = issued
  BY DEF connectionLost
<1>3. /\ conns' \in Seq(Connection) /\ DOMAIN conns' = DOMAIN conns /\ Len(conns') = Len(conns)
      /\ \A d \in DOMAIN conns : conns'[d].from = conns[d].from /\ conns'[d].to = conns[d].to
      /\ \A d \in DOMAIN conns : conns'[d].state = IF d = c THEN "lost" ELSE conns[d].state
      /\ KeepsEnds
  <2> DEFINE st == "lost"
  <2>1. st \in {"connected", "error", "lost"} /\ conns' = [conns EXCEPT ![c].state = st]
    BY <1>2
  <2> HIDE DEF st
  <2> QED
    BY <1>1, <2>1, StateChange DEF st
<1>4. Silent \in [Procs -> Seq(Nat)] /\ \A q \in Procs : Silent[q] = << >>
  BY DEF Silent
<1>5. /\ stream' \in Seq([Procs -> Seq(Nat)]) /\ Len(stream') = Len(conns)
      /\ \A d \in DOMAIN conns : stream'[d] = IF d = c THEN Silent ELSE stream[d]
  BY <1>1, <1>2, <1>4, StreamChange
<1>6. Range(<< >>) = {} /\ Increasing(<< >>)
  BY DEF Range, Increasing
<1>7. TypeOK'
  <2>1. \A d \in DOMAIN conns' : conns'[d].from # conns'[d].to
    BY <1>1, <1>3 DEF TypeOK
  <2>2. replicas \in [Procs -> Seq(DOMAIN conns')]
    BY <1>1, <1>3 DEF TypeOK
  <2>3. \A q \in Procs : \A d \in Range(replicas[q]) : q \in Ends(d)'
    <3> SUFFICES ASSUME NEW q \in Procs, NEW d \in Range(replicas[q]) PROVE q \in Ends(d)'
      OBVIOUS
    <3>1. replicas[q] \in Seq(DOMAIN conns)
      BY <1>1 DEF TypeOK
    <3>2. d \in DOMAIN conns
      BY <3>1, RangeOfSeq DEF Range
    <3>3. q \in Ends(d)
      BY <1>1 DEF TypeOK
    <3> QED
      BY <1>3, <3>2, <3>3, EndsKept
  <2>4. issued \in Seq([by : Procs, reached : SUBSET Procs]) /\ executed \in [Procs -> Seq(DOMAIN issued)]
    BY <1>1 DEF TypeOK
  <2> QED
    BY <1>2, <1>3, <1>5, <2>1, <2>2, <2>3, <2>4 DEF TypeOK
<1>8. Listed'
  <2>1. \A q \in Procs : \A d \in Range(replicas[q]) : d \in DOMAIN conns
    <3> SUFFICES ASSUME NEW q \in Procs, NEW d \in Range(replicas[q]) PROVE d \in DOMAIN conns
      OBVIOUS
    <3>1. replicas[q] \in Seq(DOMAIN conns)
      BY <1>1 DEF TypeOK
    <3> QED
      BY <3>1, RangeOfSeq DEF Range
  <2>2. \A q \in Procs : \A d \in Range(replicas[q]) : conns'[d].state # "connecting"
    BY <1>1, <1>3, <2>1 DEF Listed
  <2>3. \A d \in DOMAIN conns' : conns'[d].state # "connected" => stream'[d] = Silent
    BY <1>1, <1>3, <1>5 DEF Listed
  <2>4. \A q \in Procs : IsInjective(replicas[q])
    BY <1>1 DEF Listed
  <2> QED
    BY <1>2, <2>2, <2>3, <2>4 DEF Listed
<1>9. Greeting'
  <2> SUFFICES ASSUME NEW d \in DOMAIN conns, NEW q \in Procs, Handshake \in Range(stream'[d][q])
               PROVE  q = conns[d].from /\ d \notin Range(replicas[conns[d].to])
    BY <1>2, <1>3 DEF Greeting, Handshake
  <2>1. Handshake \in Range(stream[d][q])
    BY <1>4, <1>5, <1>6
  <2> QED
    BY <1>1, <2>1 DEF Greeting
<1>10. NothingSent
  <2> SUFFICES ASSUME NEW d \in DOMAIN conns, NEW q \in Procs
               PROVE  /\ Increasing(stream'[d][q])
                      /\ Range(stream'[d][q]) \ {Handshake} \subseteq Range(stream[d][q])
    BY <1>3 DEF NothingSent
  <2>1. Increasing(stream[d][q])
    BY <1>1 DEF OwnInOrder
  <2> QED
    BY <1>4, <1>5, <1>6, <2>1
<1>11. Quiet
  BY <1>2, <1>3, <1>10 DEF Quiet
<1> QED
  BY <1>7, <1>8, <1>9, <1>11, QuietStep

\* Command m, the oldest that q has written to connection c, is taken off its stream,
\* which leaves the other streams and what is behind it.
Taken(c, q, m) ==
  /\ stream' \in Seq([Procs -> Seq(Nat)]) /\ Len(stream') = Len(conns)
  /\ \A d \in DOMAIN conns : d # c => stream'[d] = stream[d]
  /\ \A d \in DOMAIN conns, r \in Procs :
       Increasing(stream'[d][r]) /\ Range(stream'[d][r]) \subseteq Range(stream[d][r])
  /\ m \in Nat /\ m \in Range(stream[c][q]) /\ m \notin Range(stream'[c][q])
  /\ \A x \in Range(stream'[c][q]) : m < x

LEMMA OldestTaken ==
  ASSUME TypeOK, OwnInOrder, NEW c \in DOMAIN conns, NEW q \in Procs, stream[c][q] # << >>,
         stream' = OneWay(c, q, Tail(stream[c][q]))
  PROVE  Taken(c, q, Head(stream[c][q]))
<1> DEFINE s == stream[c][q]
           u == Tail(s)
<1>1. s \in Seq(Nat)
  <2> DEFINE S == [Procs -> Seq(Nat)]
  <2>1. stream \in Seq(S) /\ Len(stream) = Len(conns) /\ conns \in Seq(Connection)
    BY DEF TypeOK
  <2>2. stream[c] \in S
    <3> HIDE DEF S
    <3> QED
      BY <2>1, LenProperties
  <2> QED
    BY <2>2
<1>2. \A d \in DOMAIN conns, r \in Procs : Increasing(stream[d][r])
  BY DEF OwnInOrder
<1>3. /\ Increasing(u) /\ u \in Seq(Nat) /\ Head(s) \in Nat /\ \A x \in Range(u) : Head(s) < x
      /\ Range(u) = Range(s) \ {Head(s)} /\ Head(s) \in Range(s)
  <2> HIDE DEF s
  <2>1. s # << >> /\ Increasing(s)
    BY <1>2 DEF s
  <2> QED
    BY <1>1, <2>1, IncreasingTail
<1> HIDE DEF u
<1>4. stream' = OneWay(c, q, u)
  BY DEF u
<1>5. /\ stream' \in Seq([Procs -> Seq(Nat)]) /\ Len(stream') = Len(conns)
      /\ \A d \in DOMAIN conns, r \in Procs :
           stream'[d][r] = IF d = c /\ r = q THEN u ELSE stream[d][r]
      /\ \A d \in DOMAIN conns : d # c => stream'[d] = stream[d]
  <2>1. u \in Seq(Nat)
    BY <1>3
  <2> QED
    BY <1>4, <2>1, DirectionChange
<1>6. ASSUME NEW d \in DOMAIN conns, NEW r \in Procs
      PROVE  Increasing(stream'[d][r]) /\ Range(stream'[d][r]) \subseteq Range(stream[d][r])
  <2>1. CASE d = c /\ r = q
    BY <1>3, <1>5, <2>1
  <2>2. CASE ~(d = c /\ r = q)
    BY <1>2, <1>5, <2>2
  <2> QED
    BY <2>1, <2>2
<1>7. stream'[c][q] = u
  BY <1>5
<1> QED
  BY <1>3, <1>5, <1>6, <1>7, Zenon DEF Taken

LEMMA HandshakenStep ==
  ASSUME StreamsInv, NEW c \in DOMAIN conns, NEW p \in Ends(c), stream[c][Other(c, p)] # << >>,
         Head(stream[c][Other(c, p)]) = Handshake, conns[c].state = "connected",
         Handshaken(p, c), UNCHANGED <<conns, issued>>
  PROVE  StreamsInv' /\ Quiet
<1> DEFINE q == Other(c, p)
<1>1. TypeOK /\ Listed /\ Greeting /\ OwnInOrder
  BY DEF StreamsInv
<1>2. /\ conns[c].from \in Procs /\ conns[c].to \in Procs /\ conns[c].from # conns[c].to
      /\ p \in Procs /\ q \in Procs /\ q # p /\ Ends(c) = {p, q}
  BY <1>1, TheOtherEnd
<1>3. /\ replicas' = WithListing(p, c) /\ stream' = OneWay(c, q, Tail(stream[c][q]))
      /\ executed' = executed /\ issued' = issued /\ conns' = conns
  BY DEF Handshaken, OneWay, WithListing
<1> HIDE DEF q
<1>4. Taken(c, q, Handshake)
  <2>1. stream[c][q] # << >> /\ Head(stream[c][q]) = Handshake
    BY DEF q
  <2> QED
    BY <1>1, <1>2, <1>3, <2>1, OldestTaken
<1>5. /\ stream' \in Seq([Procs -> Seq(Nat)]) /\ Len(stream') = Len(conns)
      /\ \A d \in DOMAIN conns : d # c => stream'[d] = stream[d]
      /\ \A d \in DOMAIN conns, r \in Procs :
           Increasing(stream'[d][r]) /\ Range(stream'[d][r]) \subseteq Range(stream[d][r])
      /\ Handshake \in Range(stream[c][q]) /\ Handshake \notin Range(stream'[c][q])
  BY <1>4, Zenon DEF Taken
<1>6. q = conns[c].from /\ p = conns[c].to /\ c \notin Range(replicas[p])
  <2>1. q = conns[c].from /\ c \notin Range(replicas[conns[c].to])
    BY <1>1, <1>2, <1>5 DEF Greeting
  <2>2. p = conns[c].to
    BY <1>2, <2>1 DEF Ends
  <2> QED
    BY <2>1, <2>2
<1>7. KeepsEnds /\ DOMAIN conns' = DOMAIN conns
  BY <1>3 DEF KeepsEnds
<1>8. /\ replicas' \in [Procs -> Seq(DOMAIN conns')]
      /\ \A r \in Procs : IsInjective(replicas'[r])
      /\ \A r \in Procs : Range(replicas'[r]) = Range(replicas[r]) \cup (IF r = p THEN {c} ELSE {})
      /\ \A r \in Procs : \A d \in Range(replicas'[r]) : d \in DOMAIN conns /\ r \in Ends(d)'
  BY <1>1, <1>2, <1>3, <1>6, <1>7, ListingStep, Zenon
<1>9. TypeOK'
  <2>1. conns \in Seq(Connection) /\ \A d \in DOMAIN conns : conns[d].from # conns[d].to
    BY <1>1 DEF TypeOK
  <2>2. issued \in Seq([by : Procs, reached : SUBSET Procs]) /\ executed \in [Procs -> Seq(DOMAIN issued)]
    BY <1>1 DEF TypeOK
  <2> QED
    BY <1>3, <1>5, <1>8, <2>1, <2>2, Zenon DEF TypeOK
<1>10. Listed'
  <2>1. \A r \in Procs : \A d \in Range(replicas'[r]) : conns[d].state # "connecting"
    BY <1>1, <1>8 DEF Listed
  <2>2. \A d \in DOMAIN conns : conns[d].state # "connected" => stream'[d] = Silent
    BY <1>1, <1>5, Zenon DEF Listed
  <2> QED
    BY <1>3, <1>8, <2>1, <2>2 DEF Listed
<1>11. Greeting'
  <2> SUFFICES ASSUME NEW d \in DOMAIN conns, NEW r \in Procs, Handshake \in Range(stream'[d][r])
               PROVE  r = conns[d].from /\ d \notin Range(replicas'[conns[d].to])
    BY <1>3 DEF Greeting, Handshake
  <2>1. Handshake \in Range(stream[d][r]) /\ ~(d = c /\ r = q)
    BY <1>5, Zenon
  <2>2. r = conns[d].from /\ d \notin Range(replicas[conns[d].to])
    BY <1>1, <2>1 DEF Greeting
  <2>3. d # c
    BY <1>6, <2>1, <2>2
  <2>4. conns[d].to \in Procs
    <3>1. conns[d].from \in Ends(d)
      BY DEF Ends
    <3> QED
      BY <1>1, <3>1, TheOtherEnd
  <2> QED
    BY <1>8, <2>2, <2>3, <2>4
<1>12. NothingSent
  BY <1>3, <1>5, Zenon DEF NothingSent
<1>13. Quiet
  BY <1>3, <1>7, <1>12 DEF Quiet
<1> QED
  BY <1>9, <1>10, <1>11, <1>13, QuietStep
-----------------------------------------------------------------------------
\* What a server has executed grows by one command.
WithExecution(p, m) == [executed EXCEPT ![p] = Append(executed[p], m)]

OneMore(p, m) ==
  /\ \A r \in Procs : r # p => executed'[r] = executed[r]
  /\ executed'[p] = Append(executed[p], m)
  /\ \A r \in Procs : \A i \in DOMAIN executed'[r] :
       \/ i \in DOMAIN executed[r] /\ executed'[r][i] = executed[r][i]
       \/ r = p /\ i = Len(executed[p]) + 1 /\ executed'[r][i] = m
  /\ \A r \in Procs : \A x \in Range(executed'[r]) : x \in Range(executed[r]) \/ (r = p /\ x = m)
  /\ \A r \in Procs : \A n : ~(r = p /\ n = m) => Executions(n, r)' = Executions(n, r)
  /\ Executions(m, p)' = Executions(m, p) \cup {Len(executed[p]) + 1}
  /\ \A i \in DOMAIN executed[p] : i < Len(executed[p]) + 1

LEMMA ExecutionFacts ==
  ASSUME TypeOK, NEW p \in Procs, NEW m \in Nat, executed' = WithExecution(p, m)
  PROVE  OneMore(p, m)
<1> DEFINE e == executed[p]
<1>1. executed \in [Procs -> Seq(DOMAIN issued)] /\ e \in Seq(DOMAIN issued)
  BY DEF TypeOK
<1>2. /\ \A r \in Procs : r # p => executed'[r] = executed[r]
      /\ executed'[p] = Append(e, m)
  BY <1>1 DEF WithExecution
<1>3. /\ DOMAIN e = 1 .. Len(e) /\ Len(e) \in Nat
  BY <1>1, LenProperties
<1>4. /\ DOMAIN Append(e, m) = 1 .. Len(e) + 1
      /\ \A i \in 1 .. Len(e) : Append(e, m)[i] = e[i]
      /\ Append(e, m)[Len(e) + 1] = m
  <2> DEFINE S == (DOMAIN issued) \cup {m}
  <2>1. e \in Seq(S) /\ m \in S
    BY <1>1, SeqMonotonic
  <2> HIDE DEF S, e
  <2>2. Append(e, m) \in Seq(S) /\ Len(Append(e, m)) = Len(e) + 1
    BY <2>1, AppendProperties
  <2>3. DOMAIN Append(e, m) = 1 .. Len(e) + 1
    BY <2>2, LenProperties
  <2> QED
    BY <2>1, <2>3, AppendProperties
<1>5. \A i \in 1 .. Len(e) + 1 : i \in 1 .. Len(e) \/ i = Len(e) + 1
  BY <1>3
<1>6. \A r \in Procs : \A i \in DOMAIN executed'[r] :
        \/ i \in DOMAIN executed[r] /\ executed'[r][i] = executed[r][i]
        \/ r = p /\ i = Len(e) + 1 /\ executed'[r][i] = m
  <2> SUFFICES ASSUME NEW r \in Procs, NEW i \in DOMAIN executed'[r]
               PROVE  \/ i \in DOMAIN executed[r] /\ executed'[r][i] = executed[r][i]
                      \/ r = p /\ i = Len(e) + 1 /\ executed'[r][i] = m
    OBVIOUS
  <2>1. CASE r # p
    BY <1>2, <2>1
  <2>2. CASE r = p
    <3> HIDE DEF e
    <3>1. executed'[r] = Append(e, m) /\ executed[r] = e
      BY <1>2, <2>2 DEF e
    <3>2. i \in 1 .. Len(e) \/ i = Len(e) + 1
      BY <1>4, <1>5, <3>1
    <3> QED
      BY <1>3, <1>4, <2>2, <3>1, <3>2
  <2> QED
    BY <2>1, <2>2
<1>7. \A r \in Procs : \A x \in Range(executed'[r]) : x \in Range(executed[r]) \/ (r = p /\ x = m)
  <2> HIDE DEF e
  <2> QED
    BY <1>6 DEF Range
<1>8. ASSUME NEW r \in Procs, NEW n, ~(r = p /\ n = m)
      PROVE  Executions(n, r)' = Executions(n, r)
  <2>1. CASE r # p
    BY <1>2, <2>1 DEF Executions
  <2>2. CASE r = p
    <3> HIDE DEF e
    <3>0. executed'[r] = Append(e, m) /\ executed[r] = e /\ n # m
      BY <1>2, <1>8, <2>2 DEF e
    <3>1. Executions(n, r)' = {i \in DOMAIN Append(e, m) : Append(e, m)[i] = n}
      BY <3>0 DEF Executions
    <3>2. Executions(n, r) = {i \in DOMAIN e : e[i] = n}
      BY <3>0 DEF Executions
    <3>3. {i \in DOMAIN Append(e, m) : Append(e, m)[i] = n} \subseteq {i \in DOMAIN e : e[i] = n}
      BY <1>3, <1>4, <1>5, <3>0
    <3>4. {i \in DOMAIN e : e[i] = n} \subseteq {i \in DOMAIN Append(e, m) : Append(e, m)[i] = n}
      BY <1>3, <1>4
    <3> QED
      BY <3>1, <3>2, <3>3, <3>4
  <2> QED
    BY <2>1, <2>2
<1>9. Executions(m, p)' = Executions(m, p) \cup {Len(e) + 1}
  <2> HIDE DEF e
  <2>0. executed'[p] = Append(e, m) /\ executed[p] = e
    BY <1>2 DEF e
  <2>1. Executions(m, p)' = {i \in DOMAIN Append(e, m) : Append(e, m)[i] = m}
    BY <2>0 DEF Executions
  <2>2. Executions(m, p) = {i \in DOMAIN e : e[i] = m}
    BY <2>0 DEF Executions
  <2>3. {i \in DOMAIN Append(e, m) : Append(e, m)[i] = m} \subseteq {i \in DOMAIN e : e[i] = m} \cup {Len(e) + 1}
    BY <1>3, <1>4, <1>5
  <2>4. {i \in DOMAIN e : e[i] = m} \cup {Len(e) + 1} \subseteq {i \in DOMAIN Append(e, m) : Append(e, m)[i] = m}
    BY <1>3, <1>4
  <2> QED
    BY <2>1, <2>2, <2>3, <2>4
<1>10. \A i \in DOMAIN e : i < Len(e) + 1
  BY <1>3
<1> QED
  BY <1>2, <1>6, <1>7, <1>8, <1>9, <1>10 DEF OneMore

\* What was executed are commands that were issued.
LEMMA ExecutedWereIssued ==
  ASSUME TypeOK, NEW p \in Procs
  PROVE  /\ DOMAIN executed[p] = 1 .. Len(executed[p]) /\ Len(executed[p]) \in Nat
         /\ \A i \in DOMAIN executed[p] : executed[p][i] \in DOMAIN issued
         /\ Range(executed[p]) \subseteq DOMAIN issued
<1>1. executed[p] \in Seq(DOMAIN issued)
  BY DEF TypeOK
<1>2. DOMAIN executed[p] = 1 .. Len(executed[p]) /\ Len(executed[p]) \in Nat
  BY <1>1, LenProperties
<1>3. \A i \in DOMAIN executed[p] : executed[p][i] \in DOMAIN issued
  BY <1>1, <1>2, ElementOfSeq
<1> QED
  BY <1>2, <1>3 DEF Range

\* One more command executed, later than those of the same issuer, is in order ...
LEMMA OneMoreInOrder ==
  ASSUME TypeOK, ExactlyOnceInOrder, NEW p \in Procs, NEW m, OneMore(p, m), conns' = conns,
         \A x \in DOMAIN issued : issued'[x] = issued[x],
         \A x \in Range(executed[p]) :
           OneLink(p, issued'[m].by) /\ issued[x].by = issued'[m].by => x < m
  PROVE  ExactlyOnceInOrder'
<1> SUFFICES ASSUME NEW r \in Procs, NEW t \in Procs, OneLink(r, t)',
                    NEW i \in DOMAIN executed'[r], NEW j \in DOMAIN executed'[r],
                    i < j, issued'[executed'[r][i]].by = t, issued'[executed'[r][j]].by = t
             PROVE  executed'[r][i] < executed'[r][j]
  BY DEF ExactlyOnceInOrder
<1>1. DOMAIN executed[p] = 1 .. Len(executed[p]) /\ Len(executed[p]) \in Nat
  BY ExecutedWereIssued
<1>2. \A k \in DOMAIN executed'[r] :
        \/ k \in DOMAIN executed[r] /\ executed'[r][k] = executed[r][k]
        \/ r = p /\ k = Len(executed[p]) + 1 /\ executed'[r][k] = m
  BY DEF OneMore
<1>3. i \in DOMAIN executed[r] /\ executed'[r][i] = executed[r][i]
  <2> SUFFICES ASSUME r = p, i = Len(executed[p]) + 1 PROVE FALSE
    BY <1>2
  <2>1. j \in 1 .. Len(executed[p]) \/ j = Len(executed[p]) + 1
    BY <1>1, <1>2
  <2> QED
    BY <1>1, <2>1
<1>4. executed[r][i] \in DOMAIN issued /\ executed[r][i] \in Range(executed[r])
  BY <1>3, ExecutedWereIssued DEF Range
<1>5. issued[executed[r][i]].by = t
  BY <1>3, <1>4
<1>6. OneLink(r, t)
  BY Zenon DEF OneLink, Links, Ends
<1>7. CASE j \in DOMAIN executed[r] /\ executed'[r][j] = executed[r][j]
  <2>1. executed[r][j] \in DOMAIN issued
    BY <1>7, ExecutedWereIssued
  <2>2. issued[executed[r][j]].by = t
    BY <1>7, <2>1
  <2> QED
    BY <1>3, <1>5, <1>6, <1>7, <2>2 DEF ExactlyOnceInOrder
<1>8. CASE r = p /\ executed'[r][j] = m
  BY <1>3, <1>4, <1>5, <1>6, <1>8
<1> QED
  BY <1>2, <1>7, <1>8

\* ... and was sent by its issuer, if that is where it comes from.
LEMMA OneMoreDirect ==
  ASSUME TypeOK, NoForwarding, NEW p \in Procs, NEW m, OneMore(p, m),
         \A x \in DOMAIN issued : issued'[x] = issued[x],
         p # issued'[m].by => p \in issued'[m].reached
  PROVE  NoForwarding'
<1> SUFFICES ASSUME NEW r \in Procs, NEW i \in DOMAIN executed'[r], r # issued'[executed'[r][i]].by
             PROVE  r \in issued'[executed'[r][i]].reached
  BY DEF NoForwarding
<1>1. CASE i \in DOMAIN executed[r] /\ executed'[r][i] = executed[r][i]
  <2>1. executed[r][i] \in DOMAIN issued
    BY <1>1, ExecutedWereIssued
  <2> QED
    BY <1>1, <2>1 DEF NoForwarding
<1>2. CASE r = p /\ executed'[r][i] = m
  BY <1>2
<1> QED
  BY <1>1, <1>2 DEF OneMore

\* Taking a command off a stream keeps what is said of the streams.
LEMMA TakenFromStream ==
  ASSUME Listed, Greeting, OwnInOrder, UNCHANGED <<conns, replicas, issued>>,
         NEW c \in DOMAIN conns, NEW q \in Procs, NEW m, Taken(c, q, m),
         conns[c].state = "connected"
  PROVE  Listed' /\ Greeting' /\ OwnInOrder'
<1>1. /\ \A d \in DOMAIN conns : d # c => stream'[d] = stream[d]
      /\ \A d \in DOMAIN conns, r \in Procs :
           Increasing(stream'[d][r]) /\ Range(stream'[d][r]) \subseteq Range(stream[d][r])
  BY DEF Taken
<1>2. Listed'
  BY <1>1 DEF Listed
<1>3. Greeting'
  BY <1>1 DEF Greeting, Handshake
<1>4. \A d, r : Other(d, r)' = Other(d, r)
  BY DEF Other
<1>5. OwnInOrder'
  BY <1>1, <1>4 DEF OwnInOrder, Handshake
<1> QED
  BY <1>2, <1>3, <1>5

\* The command executed was sent before those that are left.
LEMMA DeliveredAhead ==
  ASSUME Ahead, NEW p \in Procs, NEW q \in Procs, NEW c \in Links(p, q), NEW m, OneMore(p, m),
         issued[m].by = q, UNCHANGED <<conns, issued>>, Taken(c, q, m)
  PROVE  Ahead'
<1>1. \A r, t : Links(r, t)' = Links(r, t) /\ OneLink(r, t)' = OneLink(r, t)
  BY DEF Links, OneLink, Ends
<1> SUFFICES ASSUME NEW r \in Procs, NEW t \in Procs, NEW d \in Links(r, t), OneLink(r, t),
                    NEW x \in Range(executed'[r]), NEW y \in Range(stream'[d][t]) \ {Handshake},
                    issued[x].by = t
             PROVE  x < y
  BY <1>1 DEF Ahead, Handshake
<1>2. y \in Range(stream[d][t]) \ {Handshake}
  BY Zenon DEF Links, Taken
<1>3. CASE x \in Range(executed[r])
  BY <1>2, <1>3 DEF Ahead
<1>4. CASE r = p /\ x = m
  <2>1. t = q /\ d = c
    BY <1>4 DEF OneLink
  <2> QED
    BY <1>4, <2>1 DEF Taken
<1> QED
  BY <1>3, <1>4 DEF OneMore

\* The types when one more of the commands there are, or were just issued, is executed.
LEMMA ExecutionTypes ==
  ASSUME TypeOK, NEW p \in Procs, NEW m \in DOMAIN issued', executed' = WithExecution(p, m),
         UNCHANGED <<conns, replicas>>, DOMAIN issued \subseteq DOMAIN issued',
         issued' \in Seq([by : Procs, reached : SUBSET Procs]),
         stream' \in Seq([Procs -> Seq(Nat)]), Len(stream') = Len(conns)
  PROVE  TypeOK'
<1>1. executed \in [Procs -> Seq(DOMAIN issued)]
  BY DEF TypeOK
<1>2. \A r \in Procs : executed[r] \in Seq(DOMAIN issued')
  BY <1>1, SeqMonotonic
<1>3. Append(executed[p], m) \in Seq(DOMAIN issued')
  BY <1>2, AppendProperties
<1>4. executed' \in [Procs -> Seq(DOMAIN issued')]
  BY <1>1, <1>2, <1>3 DEF WithExecution
<1>5. \A r \in Procs : \A d \in Range(replicas[r]) : r \in Ends(d)'
  BY DEF TypeOK, Ends
<1>6. /\ conns \in Seq(Connection) /\ \A d \in DOMAIN conns : conns[d].from # conns[d].to
      /\ replicas \in [Procs -> Seq(DOMAIN conns)]
  BY DEF TypeOK
<1> QED
  BY <1>4, <1>5, <1>6, Zenon DEF TypeOK

\* A copy of a command that was on its way is executed instead.
Delivered ==
  /\ UNCHANGED <<conns, issued>>
  /\ \E p, q \in Procs : \E c \in Links(p, q), m \in DOMAIN issued :
       issued[m].by = q /\ OneMore(p, m) /\ Taken(c, q, m)

\* A command executed at a peer was one of the copies on their way.
LEMMA EffectOnlyStep ==
  ASSUME StreamsInv, NEW c \in DOMAIN conns, NEW p \in Ends(c), stream[c][Other(c, p)] # << >>,
         NEW m, m = Head(stream[c][Other(c, p)]), m # Handshake, conns[c].state = "connected",
         EffectOnly(p, c), UNCHANGED <<conns, issued>>
  PROVE  StreamsInv' /\ Delivered
<1> DEFINE q == Other(c, p)
<1>1. /\ TypeOK /\ Listed /\ Greeting /\ OwnInOrder /\ Ahead
      /\ ExactlyOnceInOrder /\ NoForwarding
  BY DEF StreamsInv
<1>2. p \in Procs /\ q \in Procs /\ Other(c, q) = p /\ c \in Links(p, q)
  BY <1>1, TheOtherEnd
<1>3. /\ executed' = WithExecution(p, m) /\ stream' = OneWay(c, q, Tail(stream[c][q]))
      /\ replicas' = replicas
  BY DEF EffectOnly, OneWay, WithExecution
<1> HIDE DEF q
<1>4. stream[c][q] # << >> /\ m = Head(stream[c][q])
  BY DEF q
<1>5. Taken(c, q, m)
  BY <1>1, <1>2, <1>3, <1>4, OldestTaken, Zenon
<1>6. m \in DOMAIN issued /\ issued[m].by = q /\ p \in issued[m].reached
  <2>1. m \in Range(stream[c][q]) \ {Handshake}
    BY <1>5 DEF Taken
  <2> QED
    BY <1>1, <1>2, <2>1 DEF OwnInOrder
<1>7. OneMore(p, m)
  <2>1. m \in Nat
    BY <1>5 DEF Taken
  <2> QED
    BY <1>1, <1>2, <1>3, <2>1, ExecutionFacts
<1>8. TypeOK'
  <2>1. issued \in Seq([by : Procs, reached : SUBSET Procs])
    BY <1>1 DEF TypeOK
  <2>2. stream' \in Seq([Procs -> Seq(Nat)]) /\ Len(stream') = Len(conns)
    BY <1>5 DEF Taken
  <2>3. m \in DOMAIN issued' /\ issued' \in Seq([by : Procs, reached : SUBSET Procs])
    BY <1>6, <2>1
  <2> QED
    BY <1>1, <1>2, <1>3, <2>2, <2>3, ExecutionTypes, Zenon
<1>9. Listed' /\ Greeting' /\ OwnInOrder'
  BY <1>1, <1>2, <1>3, <1>5, TakenFromStream
<1>10. Ahead'
  BY <1>1, <1>2, <1>5, <1>6, <1>7, DeliveredAhead
<1>11. Delivered
  BY <1>2, <1>5, <1>6, <1>7 DEF Delivered
<1>12. ExactlyOnceInOrder'
  <2>1. \A x \in Range(executed[p]) : OneLink(p, q) /\ issued[x].by = q => x < m
    <3>1. m \in Range(stream[c][q]) \ {Handshake}
      BY <1>5 DEF Taken
    <3> QED
      BY <1>1, <1>2, <3>1 DEF Ahead
  <2>2. issued'[m].by = q /\ \A x \in DOMAIN issued : issued'[x] = issued[x]
    BY <1>6
  <2> QED
    BY <1>1, <1>2, <1>7, <2>1, <2>2, OneMoreInOrder
<1>13. NoForwarding'
  <2>1. p \in issued'[m].reached /\ \A x \in DOMAIN issued : issued'[x] = issued[x]
    BY <1>6
  <2> QED
    BY <1>1, <1>2, <1>7, <2>1, OneMoreDirect
<1> QED
  BY <1>8, <1>9, <1>10, <1>11, <1>12, <1>13 DEF StreamsInv
-----------------------------------------------------------------------------
\* A client structure is listed at most once, as a count.
OneListing ==
  \A p \in Procs, c \in DOMAIN conns : Listings(p, c) = IF c \in Range(replicas[p]) THEN 1 ELSE 0

\* replicationBroadcast writes one copy to each listed connection that is up.
LEMMA BroadcastFacts ==
  ASSUME TypeOK, OneListing, NEW p \in Procs, NEW m \in Nat, stream' = Broadcast(p, m)
  PROVE  /\ stream' \in Seq([Procs -> Seq(Nat)]) /\ Len(stream') = Len(conns)
         /\ \A d \in DOMAIN conns : conns[d].state # "connected" => stream'[d] = stream[d]
         /\ \A d \in DOMAIN conns, r \in Procs :
              /\ stream[d][r] \in Seq(Nat)
              /\ stream'[d][r] = IF r = p /\ d \in Range(replicas[p]) /\ conns[d].state = "connected"
                                 THEN Append(stream[d][r], m) ELSE stream[d][r]
<1> DEFINE S == [Procs -> Seq(Nat)]
           new(d) == stream[d][p] \o [i \in 1 .. Listings(p, d) |-> m]
           f(d) == IF conns[d].state = "connected" THEN [stream[d] EXCEPT ![p] = new(d)] ELSE stream[d]
<1>1. stream \in Seq(S) /\ Len(stream) = Len(conns) /\ conns \in Seq(Connection)
  BY DEF TypeOK
<1>2. /\ Len(stream) \in Nat /\ DOMAIN stream = 1 .. Len(stream) /\ DOMAIN conns = DOMAIN stream
      /\ \A d \in DOMAIN conns : stream[d] \in S
  <2> HIDE DEF S
  <2> QED
    BY <1>1, LenProperties
<1>3. \A d \in DOMAIN conns : new(d) = IF d \in Range(replicas[p]) THEN Append(stream[d][p], m) ELSE stream[d][p]
  <2> SUFFICES ASSUME NEW d \in DOMAIN conns
               PROVE  new(d) = IF d \in Range(replicas[p]) THEN Append(stream[d][p], m) ELSE stream[d][p]
    BY Zenon
  <2>1. Listings(p, d) = IF d \in Range(replicas[p]) THEN 1 ELSE 0
    BY DEF OneListing
  <2>2. stream[d][p] \in Seq(Nat)
    BY <1>2
  <2>3. /\ stream[d][p] \o [i \in 1 .. 0 |-> m] = stream[d][p]
        /\ stream[d][p] \o [i \in 1 .. 1 |-> m] = Append(stream[d][p], m)
    BY <2>2, CopiesBehind
  <2>4. CASE d \in Range(replicas[p])
    <3>1. Listings(p, d) = 1
      BY <2>1, <2>4
    <3> QED
      BY <2>3, <2>4, <3>1
  <2>5. CASE d \notin Range(replicas[p])
    <3>1. Listings(p, d) = 0
      BY <2>1, <2>5
    <3> QED
      BY <2>3, <2>5, <3>1
  <2> QED
    BY <2>4, <2>5, Zenon
<1>4. ASSUME NEW d \in DOMAIN conns
      PROVE  new(d) \in Seq(Nat) /\ \A r \in Procs : stream[d][r] \in Seq(Nat)
  <2>1. \A r \in Procs : stream[d][r] \in Seq(Nat)
    BY <1>2
  <2>2. Append(stream[d][p], m) \in Seq(Nat)
    BY <2>1, AppendProperties
  <2> HIDE DEF new
  <2> QED
    BY <1>3, <2>1, <2>2
<1>5. stream' = [d \in 1 .. Len(conns) |-> f(d)]
  BY <1>1, <1>2 DEF Broadcast
<1> HIDE DEF new
<1>6. ASSUME NEW d \in DOMAIN conns
      PROVE  /\ f(d) \in S
             /\ \A r \in Procs : f(d)[r] = IF r = p /\ conns[d].state = "connected" THEN new(d) ELSE stream[d][r]
  BY <1>2, <1>4
<1>7. \A d \in DOMAIN conns : conns[d].state # "connected" => f(d) = stream[d]
  OBVIOUS
<1> HIDE DEF f
<1>8. \A d \in DOMAIN conns : stream'[d] = f(d)
  BY <1>1, <1>2, <1>5
<1>9. stream' \in Seq(S) /\ Len(stream') = Len(conns)
  <2> HIDE DEF S
  <2>1. stream' \in [1 .. Len(conns) -> S]
    BY <1>1, <1>2, <1>5, <1>6
  <2> QED
    BY <1>1, <1>2, <2>1, SeqDef, LenProperties
<1>10. ASSUME NEW d \in DOMAIN conns, NEW r \in Procs
       PROVE  stream'[d][r] = IF r = p /\ d \in Range(replicas[p]) /\ conns[d].state = "connected"
                              THEN Append(stream[d][r], m) ELSE stream[d][r]
  <2>1. stream'[d][r] = IF r = p /\ conns[d].state = "connected" THEN new(d) ELSE stream[d][r]
    BY <1>6, <1>8
  <2> QED
    BY <1>3, <2>1, Zenon
<1> QED
  BY <1>4, <1>7, <1>8, <1>9, <1>10

\* Command m of a client of p, with the peers p sends it to, follows those issued.
NewCommand(p, m) ==
  /\ m \in Nat /\ m # Handshake /\ m \notin DOMAIN issued
  /\ issued' \in Seq([by : Procs, reached : SUBSET Procs])
  /\ DOMAIN issued' = DOMAIN issued \cup {m}
  /\ \A x \in DOMAIN issued : issued'[x] = issued[x] /\ x \in Nat /\ x < m
  /\ issued'[m].by = p /\ issued'[m].reached = Reached(p)

\* Command m is written to connections that p lists, behind what is there.
Sent(p, m) ==
  /\ stream' \in Seq([Procs -> Seq(Nat)]) /\ Len(stream') = Len(conns)
  /\ \A d \in DOMAIN conns : conns[d].state # "connected" => stream'[d] = stream[d]
  /\ \A d \in DOMAIN conns, r \in Procs :
       /\ stream[d][r] \in Seq(Nat)
       /\ \/ stream'[d][r] = stream[d][r]
          \/ r = p /\ d \in Range(replicas[p]) /\ stream'[d][r] = Append(stream[d][r], m)
       /\ \A y \in Range(stream'[d][r]) :
            y \in Range(stream[d][r]) \/ (y = m /\ r = p /\ d \in Range(replicas[p]))

\* The peers a server sends to are the other ends of the connections it lists.
LEMMA ReachedAreListed ==
  ASSUME TypeOK, NEW p \in Procs
  PROVE  /\ Reached(p) \subseteq Procs
         /\ \A c \in Range(replicas[p]) : Other(c, p) \in Reached(p)
<1>1. replicas[p] \in Seq(DOMAIN conns)
  BY DEF TypeOK
<1>2. /\ DOMAIN replicas[p] = 1 .. Len(replicas[p])
      /\ \A i \in 1 .. Len(replicas[p]) : replicas[p][i] \in DOMAIN conns
  BY <1>1, LenProperties, ElementOfSeq
<1>3. ASSUME NEW i \in 1 .. Len(replicas[p]) PROVE Other(replicas[p][i], p) \in Procs
  <2>1. replicas[p][i] \in DOMAIN conns /\ p \in Ends(replicas[p][i])
    BY <1>2, Zenon DEF TypeOK, Range
  <2> QED
    BY <2>1, TheOtherEnd
<1> QED
  BY <1>2, <1>3 DEF Reached, Range

LEMMA CommandIsNew ==
  ASSUME TypeOK, NEW p \in Procs, NEW m, m = Len(issued) + 1,
         issued' = Append(issued, [by |-> p, reached |-> Reached(p)])
  PROVE  NewCommand(p, m)
<1> DEFINE rec == [by |-> p, reached |-> Reached(p)]
           R == [by : Procs, reached : SUBSET Procs]
<1>1. issued \in Seq(R) /\ Len(issued) \in Nat /\ DOMAIN issued = 1 .. Len(issued)
  BY LenProperties DEF TypeOK
<1>2. m \in Nat /\ m # Handshake /\ m \notin DOMAIN issued /\ \A x \in DOMAIN issued : x \in Nat /\ x < m
  BY <1>1 DEF Handshake
<1>3. rec \in R /\ rec.by = p /\ rec.reached = Reached(p)
  BY ReachedAreListed
<1> HIDE DEF rec, R
<1>4. /\ issued' \in Seq(R) /\ Len(issued') = Len(issued) + 1 /\ issued'[Len(issued) + 1] = rec
      /\ \A x \in 1 .. Len(issued) : issued'[x] = issued[x]
  <2>1. issued' = Append(issued, rec)
    BY DEF rec
  <2> QED
    BY <1>1, <1>3, <2>1, AppendProperties
<1>5. DOMAIN issued' = 1 .. Len(issued) + 1
  BY <1>4, LenProperties
<1>6. 1 .. Len(issued) + 1 = (1 .. Len(issued)) \cup {Len(issued) + 1}
  BY <1>1
<1>7. DOMAIN issued' = DOMAIN issued \cup {m} /\ issued'[m] = rec /\ \A x \in DOMAIN issued : issued'[x] = issued[x]
  BY <1>1, <1>4, <1>5, <1>6
<1> QED
  BY <1>2, <1>3, <1>4, <1>7 DEF NewCommand, R

LEMMA BroadcastIsSent ==
  ASSUME TypeOK, OneListing, NEW p \in Procs, NEW m \in Nat, stream' = Broadcast(p, m)
  PROVE  Sent(p, m)
<1>1. /\ stream' \in Seq([Procs -> Seq(Nat)]) /\ Len(stream') = Len(conns)
      /\ \A d \in DOMAIN conns : conns[d].state # "connected" => stream'[d] = stream[d]
      /\ \A d \in DOMAIN conns, r \in Procs :
           /\ stream[d][r] \in Seq(Nat)
           /\ stream'[d][r] = IF r = p /\ d \in Range(replicas[p]) /\ conns[d].state = "connected"
                              THEN Append(stream[d][r], m) ELSE stream[d][r]
  BY BroadcastFacts
<1>2. ASSUME NEW d \in DOMAIN conns, NEW r \in Procs
      PROVE  /\ \/ stream'[d][r] = stream[d][r]
                \/ r = p /\ d \in Range(replicas[p]) /\ stream'[d][r] = Append(stream[d][r], m)
             /\ \A y \in Range(stream'[d][r]) :
                  y \in Range(stream[d][r]) \/ (y = m /\ r = p /\ d \in Range(replicas[p]))
  <2>1. \/ stream'[d][r] = stream[d][r]
        \/ r = p /\ d \in Range(replicas[p]) /\ stream'[d][r] = Append(stream[d][r], m)
    BY <1>1
  <2>2. Range(Append(stream[d][r], m)) = Range(stream[d][r]) \cup {m}
    <3>1. stream[d][r] \in Seq(Nat)
      BY <1>1
    <3> QED
      BY <3>1, RangeAppend
  <2> QED
    BY <2>1, <2>2, Zenon
<1>3. \A d \in DOMAIN conns, r \in Procs : stream[d][r] \in Seq(Nat)
  BY <1>1
<1> QED
  BY <1>1, <1>2, <1>3, Zenon DEF Sent

\* The new command is the last of the sender's on every stream, and no handshake.
LEMMA SentOnStreams ==
  ASSUME TypeOK, Listed, Greeting, OwnInOrder, NEW p \in Procs, NEW m, NewCommand(p, m), Sent(p, m),
         UNCHANGED <<conns, replicas>>
  PROVE  Listed' /\ Greeting' /\ OwnInOrder'
<1>1. Listed'
  BY Zenon DEF Listed, Sent
<1>2. \A d \in DOMAIN conns, r \in Procs : \A y \in Range(stream'[d][r]) :
        y \in Range(stream[d][r]) \/ (y = m /\ r = p /\ d \in Range(replicas[p]))
  BY Zenon DEF Sent
<1>3. Greeting'
  <2>1. m # Handshake
    BY DEF NewCommand
  <2>2. \A d \in DOMAIN conns, r \in Procs :
          Handshake \in Range(stream'[d][r]) => Handshake \in Range(stream[d][r])
    BY <1>2, <2>1
  <2> QED
    BY <2>2 DEF Greeting, Handshake
<1>4. ASSUME NEW d \in DOMAIN conns, NEW r \in Procs PROVE Increasing(stream'[d][r])
  <2>1. Increasing(stream[d][r]) /\ stream[d][r] \in Seq(Nat)
    BY DEF OwnInOrder, Sent
  <2>2. m \in Nat /\ Handshake < m /\ \A y \in DOMAIN issued : y < m
    BY DEF NewCommand, Handshake
  <2>3. \A y \in Range(stream[d][r]) : y < m
    BY <2>2 DEF OwnInOrder
  <2>4. Increasing(Append(stream[d][r], m))
    BY <2>1, <2>2, <2>3, IncreasingAppend
  <2> QED
    BY <2>1, <2>4, Zenon DEF Sent
<1>5. ASSUME NEW d \in DOMAIN conns, NEW r \in Procs, NEW x \in Range(stream'[d][r]) \ {Handshake}
      PROVE  x \in DOMAIN issued' /\ issued'[x].by = r /\ Other(d, r) \in issued'[x].reached
  <2>1. CASE x \in Range(stream[d][r])
    <3>1. x \in DOMAIN issued /\ issued[x].by = r /\ Other(d, r) \in issued[x].reached
      BY <2>1 DEF OwnInOrder
    <3> QED
      BY <3>1 DEF NewCommand
  <2>2. CASE x = m /\ r = p /\ d \in Range(replicas[p])
    <3>1. Other(d, r) \in Reached(p)
      BY <2>2, ReachedAreListed
    <3> QED
      BY <2>2, <3>1 DEF NewCommand
  <2> QED
    BY <1>2, <2>1, <2>2
<1>6. \A d, r : Other(d, r)' = Other(d, r)
  BY DEF Other
<1>7. OwnInOrder'
  BY <1>4, <1>5, <1>6 DEF OwnInOrder, Handshake
<1> QED
  BY <1>1, <1>3, <1>7

\* It is later than everything executed before.
LEMMA SentAhead ==
  ASSUME TypeOK, Ahead, NEW p \in Procs, NEW m, NewCommand(p, m), Sent(p, m), OneMore(p, m),
         conns' = conns
  PROVE  Ahead'
<1>1. \A r, t : Links(r, t)' = Links(r, t) /\ OneLink(r, t)' = OneLink(r, t)
  BY DEF Links, OneLink, Ends
<1> SUFFICES ASSUME NEW r \in Procs, NEW t \in Procs, NEW d \in Links(r, t), OneLink(r, t),
                    NEW x \in Range(executed'[r]), NEW y \in Range(stream'[d][t]) \ {Handshake},
                    issued'[x].by = t
             PROVE  x < y
  BY <1>1 DEF Ahead, Handshake
<1>2. d \in DOMAIN conns /\ r # t
  <2>1. d \in DOMAIN conns /\ Ends(d) = {r, t}
    BY DEF Links
  <2>2. conns[d].from # conns[d].to
    BY <2>1 DEF TypeOK
  <2> QED
    BY <2>1, <2>2 DEF Ends
<1>3. x \in Range(executed[r]) \/ (r = p /\ x = m)
  BY DEF OneMore
<1>4. x \in Range(executed[r])
  BY <1>2, <1>3 DEF NewCommand
<1>5. x \in DOMAIN issued
  BY <1>4, ExecutedWereIssued
<1>6. issued[x].by = t /\ x < m
  BY <1>5 DEF NewCommand
<1>7. y \in Range(stream[d][t]) \/ y = m
  BY <1>2, Zenon DEF Sent
<1>8. CASE y \in Range(stream[d][t])
  BY <1>4, <1>6, <1>8, Zenon DEF Ahead
<1>9. CASE y = m
  BY <1>6, <1>9, Zenon
<1> QED
  BY <1>7, <1>8, <1>9

\* A new command is executed where it was issued, and sent from there.
Issued ==
  /\ conns' = conns
  /\ \E p \in Procs : \E m : NewCommand(p, m) /\ Sent(p, m) /\ OneMore(p, m)

\* A client's command is executed here, and a copy goes to every listed peer.
LEMMA ClientStep ==
  ASSUME StreamsInv, OneListing, NEW p \in Procs, NEW m, m = Len(issued) + 1, clientCommand(p)
  PROVE  StreamsInv' /\ Issued
<1>1. /\ TypeOK /\ Listed /\ Greeting /\ OwnInOrder /\ Ahead
      /\ ExactlyOnceInOrder /\ NoForwarding
  BY DEF StreamsInv
<1>2. /\ executed' = WithExecution(p, m) /\ stream' = Broadcast(p, m)
      /\ issued' = Append(issued, [by |-> p, reached |-> Reached(p)])
      /\ conns' = conns /\ replicas' = replicas
  BY DEF clientCommand, WithExecution
<1>3. NewCommand(p, m)
  BY <1>1, <1>2, CommandIsNew
<1>4. /\ m \in Nat /\ DOMAIN issued' = DOMAIN issued \cup {m} /\ issued'[m].by = p
      /\ issued' \in Seq([by : Procs, reached : SUBSET Procs])
      /\ \A x \in DOMAIN issued : issued'[x] = issued[x] /\ x < m
  BY <1>3 DEF NewCommand
<1>5. Sent(p, m)
  BY <1>1, <1>2, <1>4, BroadcastIsSent
<1>6. OneMore(p, m)
  BY <1>1, <1>2, <1>4, ExecutionFacts
<1>7. TypeOK'
  <2>1. stream' \in Seq([Procs -> Seq(Nat)]) /\ Len(stream') = Len(conns)
    BY <1>5 DEF Sent
  <2>2. m \in DOMAIN issued' /\ DOMAIN issued \subseteq DOMAIN issued'
    BY <1>4
  <2> QED
    BY <1>1, <1>2, <1>4, <2>1, <2>2, ExecutionTypes, Zenon
<1>8. Listed' /\ Greeting' /\ OwnInOrder'
  BY <1>1, <1>2, <1>3, <1>5, SentOnStreams
<1>9. Ahead'
  BY <1>1, <1>2, <1>3, <1>5, <1>6, SentAhead
<1>10. Issued
  BY <1>2, <1>3, <1>5, <1>6 DEF Issued
<1>11. ExactlyOnceInOrder'
  <2>1. \A x \in Range(executed[p]) : x < m
    BY <1>1, <1>4, ExecutedWereIssued
  <2> QED
    BY <1>1, <1>2, <1>4, <1>6, <2>1, OneMoreInOrder
<1>12. NoForwarding'
  BY <1>1, <1>4, <1>6, OneMoreDirect
<1> QED
  BY <1>7, <1>8, <1>9, <1>10, <1>11, <1>12 DEF StreamsInv
-----------------------------------------------------------------------------
LEMMA InitStreams == Init => StreamsInv
<1> SUFFICES ASSUME Init PROVE StreamsInv
  OBVIOUS
<1>1. /\ conns = << >> /\ stream = << >> /\ issued = << >>
      /\ replicas = [p \in Procs |-> << >>] /\ executed = [p \in Procs |-> << >>]
  BY DEF Init
<1>2. DOMAIN conns = {} /\ DOMAIN issued = {} /\ \A p \in Procs : DOMAIN executed[p] = {} /\ DOMAIN replicas[p] = {}
  BY <1>1
<1>3. TypeOK
  BY <1>1, <1>2, EmptySeq DEF TypeOK, Range
<1>4. Listed /\ Greeting /\ OwnInOrder /\ Ahead
  BY <1>2 DEF Listed, Greeting, OwnInOrder, Ahead, IsInjective, Range, Links
<1>5. ExactlyOnceInOrder /\ NoForwarding
  BY <1>2 DEF ExactlyOnceInOrder, NoForwarding
<1> QED
  BY <1>3, <1>4, <1>5 DEF StreamsInv

\* Every step keeps the invariant, and is one of three kinds.
LEMMA NextStreams ==
  ASSUME StreamsInv, OneListing, [Next]_vars
  PROVE  StreamsInv' /\ (Quiet \/ Delivered \/ Issued)
<1> DEFINE Step == StreamsInv' /\ (Quiet \/ Delivered \/ Issued)
<1>1. ASSUME UNCHANGED <<conns, stream, replicas, executed, issued>>
      PROVE  Step
  <2>1. TypeOK /\ Listed /\ Greeting /\ OwnInOrder
    BY DEF StreamsInv
  <2>2. TypeOK'
    BY <1>1, <2>1 DEF TypeOK, Ends
  <2>3. Listed' /\ Greeting' /\ KeepsEnds
    BY <1>1, <2>1 DEF Listed, Greeting, KeepsEnds
  <2>4. \A c \in DOMAIN conns, p \in Procs : Increasing(stream[c][p])
    BY <2>1 DEF OwnInOrder
  <2>5. NothingSent
    BY <1>1, <2>4 DEF NothingSent
  <2>6. Quiet
    BY <1>1, <2>3, <2>5 DEF Quiet
  <2> QED
    BY <2>2, <2>3, <2>6, QuietStep
<1>2. CASE UNCHANGED vars
  BY <1>1, <1>2 DEF vars
<1>3. ASSUME NEW p \in Procs, NEW k \in 0 .. N, replicateCommand(p, k)
      PROVE  Step
  <2>1. k \in Nat
    BY NAssumption
  <2> QED
    BY <1>3, <2>1, ReplicateStep
<1>4. ASSUME NEW c \in DOMAIN conns, NEW up \in BOOLEAN, replicationHandler(c, up)
      PROVE  Step
  BY <1>4, HandlerStep
<1>5. ASSUME NEW p \in Procs, clientCommand(p)
      PROVE  Step
  <2>1. PICK m : m = Len(issued) + 1
    OBVIOUS
  <2> QED
    BY <1>5, <2>1, ClientStep
<1>6. ASSUME NEW p \in Procs, NEW c \in DOMAIN conns, readQuery(p, c)
      PROVE  Step
  <2>1. /\ p \in Ends(c) /\ conns[c].state = "connected" /\ stream[c][Other(c, p)] # << >>
        /\ UNCHANGED <<conns, issued>>
    BY <1>6 DEF readQuery
  <2>2. PICK m : m = Head(stream[c][Other(c, p)])
    OBVIOUS
  <2>3. (m = Handshake /\ Handshaken(p, c)) \/ (m # Handshake /\ EffectOnly(p, c))
    BY <1>6, <2>2 DEF readQuery
  <2>4. CASE m = Handshake /\ Handshaken(p, c)
    BY <2>1, <2>2, <2>4, HandshakenStep
  <2>5. CASE m # Handshake /\ EffectOnly(p, c)
    BY <2>1, <2>2, <2>5, EffectOnlyStep
  <2> QED
    BY <2>3, <2>4, <2>5
<1>7. ASSUME NEW c \in DOMAIN conns, connectionLost(c)
      PROVE  Step
  BY <1>7, LostStep
<1>8. ASSUME NEW p \in Procs, NEW c \in DOMAIN conns, freeClient(p, c)
      PROVE  Step
  <2>1. UNCHANGED <<conns, stream, replicas, executed, issued>>
    BY <1>8 DEF freeClient
  <2> QED
    BY <1>1, <2>1
<1> QED
  BY <1>2, <1>3, <1>4, <1>5, <1>6, <1>7, <1>8 DEF Next, Setup, Traffic, Failure
=============================================================================
