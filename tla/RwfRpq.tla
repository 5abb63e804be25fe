------------------------------- MODULE RwfRpq -------------------------------
(***************************************************************************)
(* The RWF-RPQ of t_rwfzset.c: a replicated priority queue whose elements  *)
(* carry the header of the Remove-Win framework.  Every replica keeps one  *)
(* rwfze per element (the hash table "<key>_rwfzets_") and the zset that   *)
(* the read commands look at.                                              *)
(*                                                                         *)
(* The elements of a queue do not influence each other, so one key with    *)
(* the elements Elements stands for any number of queues.  rehHTGet        *)
(* creates a missing rwfze with rwfzeNew, and every precondition treats a  *)
(* missing one like a new one, so rwfze[p] is total from the start.        *)
(***************************************************************************)
EXTENDS RWFramework, Replication, FiniteSets

CONSTANTS Elements,     \* the elements clients name in their commands
          AddValues,    \* the initial priorities given to RWFZADD
          IncValues,    \* the increments given to RWFZINCRBY
          None,         \* "not in the zset"
          MaxOps        \* bound: client commands accepted in a behaviour

ASSUME RwfRpqAssumption ==
  /\ AddValues \subseteq Int
  /\ IncValues \subseteq Int
  /\ None \notin Int

VARIABLES rwfze,   \* rwfze[p][e]: the metadata of e at replica p
          zset,    \* zset[p][e]: the score of e in p's zset, or None
          net,     \* the replication streams
          seen     \* history: seen[p] is the set of commands executed at p

vars == <<rwfze, zset, net, seen>>

Commands == {"rwfzadd", "rwfzincrby", "rwfzrem"}

\* rargv: the command, its element, its value (0 for rwfzrem) and the remove
\* history the prepare part appends.  n numbers the commands of one replica; the
\* code does not send it, it only keeps equal commands apart in seen.
Message == [cmd : Commands, e : Elements, v : Int, t : VC, n : Nat]

Rwfze == [header : Header, innate : Int, acquired : Int]

\* What a replica holds about one element: its rwfze and its place in the zset.
Entry == [meta : Rwfze, score : Int \cup {None}]
-----------------------------------------------------------------------------
rwfzeNew(p) == [header |-> REH_INIT(p), innate |-> 0, acquired |-> 0]

SCORE(m) == m.innate + m.acquired

\* Variant: the element stays in the zset.
removeFunc_keeps_zset(x, t) ==
  IF removeCheck(x.meta.header, t)
  THEN [x EXCEPT !.meta = [header   |-> REH_RMV_FUNC(x.meta.header, t),
                           innate   |-> 0,
                           acquired |-> 0]]
  ELSE x

removeFunc(x, t) ==
  IF removeCheck(x.meta.header, t)
  THEN [meta  |-> [header   |-> REH_RMV_FUNC(x.meta.header, t),
                   innate   |-> 0,
                   acquired |-> 0],
        score |-> None]
  ELSE x

\* zsetAdd with the score of the updated metadata.
Stored(m) == [meta |-> m, score |-> SCORE(m)]

addEffect(x, v, t) ==
  LET m == removeFunc(x, t).meta
  IN  IF addCheck(m.header, t)
      THEN Stored([m EXCEPT !.header = addHeader(m.header, t), !.innate = v])
      ELSE removeFunc(x, t)

incrbyEffect(x, v, t) ==
  LET m == removeFunc(x, t).meta
  IN  IF updateCheck(m.header, t)
      THEN Stored([m EXCEPT !.header = updateHeader(m.header),
                            !.acquired = m.acquired + v])
      ELSE removeFunc(x, t)

remEffect(x, t) == removeFunc(x, t)

\* The effect part of a command, the same at its own replica and at a peer.
Effect(x, m) ==
  CASE m.cmd = "rwfzadd"    -> addEffect(x, m.v, m.t)
    [] m.cmd = "rwfzincrby" -> incrbyEffect(x, m.v, m.t)
    [] m.cmd = "rwfzrem"    -> remEffect(x, m.t)

EntryOf(p, e) == [meta |-> rwfze[p][e], score |-> zset[p][e]]

Execute(p, m) ==
  LET x == Effect(EntryOf(p, m.e), m)
  IN  /\ rwfze' = [rwfze EXCEPT ![p][m.e] = x.meta]
      /\ zset'  = [zset  EXCEPT ![p][m.e] = x.score]
      /\ seen'  = [seen  EXCEPT ![p] = seen[p] \cup {m}]

Issued == UNION {seen[p] : p \in Procs}

\* The commands that the clients of p have issued.
IssuedAt(p) == {o \in seen[p] : o.t.id = p}

\* call(): the effect at the replica of the client, then the broadcast.
Call(p, cmd, e, v, t) ==
  LET m == [cmd |-> cmd, e |-> e, v |-> v, t |-> t, n |-> Cardinality(IssuedAt(p))]
  IN  /\ Cardinality(Issued) < MaxOps
      /\ Execute(p, m)
      /\ net' = replicationBroadcast(net, p, m)
-----------------------------------------------------------------------------
Init ==
  /\ rwfze = [p \in Procs |-> [e \in Elements |-> rwfzeNew(p)]]
  /\ zset = [p \in Procs |-> [e \in Elements |-> None]]
  /\ net = EmptyNetwork
  /\ seen = [p \in Procs |-> {}]

rwfzaddCommand(p, e, v) ==
  /\ ~EXISTS(rwfze[p][e].header)
  /\ Call(p, "rwfzadd", e, v, rwfze[p][e].header.current)

rwfzincrbyCommand(p, e, v) ==
  /\ EXISTS(rwfze[p][e].header)
  /\ Call(p, "rwfzincrby", e, v, rwfze[p][e].header.current)

rwfzremCommand(p, e) ==
  /\ EXISTS(rwfze[p][e].header)
  /\ Call(p, "rwfzrem", e, 0, vc_now(rwfze[p][e].header.current))

\* q executes the next command of the stream from p.
ReplicaExecute(p, q) ==
  /\ net[p][q] # << >>
  /\ Execute(q, Head(net[p][q]))
  /\ net' = Consume(net, p, q)

\* The reads look at the zset of their own replica.
rwfzscoreCommand(p, e) == zsetScore(zset[p], e)

rwfzmaxCommand(p) == zsetLast(zset[p], None)

ClientStep ==
  \E p \in Procs, e \in Elements :
    \/ \E v \in AddValues : rwfzaddCommand(p, e, v)
    \/ \E v \in IncValues : rwfzincrbyCommand(p, e, v)
    \/ rwfzremCommand(p, e)

Next == ClientStep \/ \E p, q \in Procs : ReplicaExecute(p, q)

Spec == Init /\ [][Next]_vars

-----------------------------------------------------------------------------
(***************************************************************************)
(* Correctness.                                                            *)
(***************************************************************************)

\* Every variable keeps its type: no command ever leaves a header outside the ids
\* of replicas and the two marks of RWFramework.h, or a clock that counts below 0.
TypeOK ==
  /\ rwfze \in [Procs -> [Elements -> Rwfze]]
  /\ zset \in [Procs -> [Elements -> Int \cup {None}]]
  /\ net \in Network(Message)
  /\ seen \in [Procs -> SUBSET Message]

SeenOf(p, e) == {m \in seen[p] : m.e = e}

\* Strong eventual consistency of the metadata: two replicas that executed the
\* same commands on an element, in whatever orders the streams delivered them,
\* agree on its remove history, on the add that won and on its initial priority,
\* and so on whether addCheck, updateCheck and the preconditions will pass.
MetadataConvergence ==
  \A p, q \in Procs, e \in Elements :
    SeenOf(p, e) = SeenOf(q, e) =>
      /\ vc_equal(rwfze[p][e].header.current, rwfze[q][e].header.current)
      /\ rwfze[p][e].header.pid = rwfze[q][e].header.pid
      /\ rwfze[p][e].innate = rwfze[q][e].innate

\* Strong eventual consistency of what clients read: the same commands give the
\* same score, so no increment is applied twice, lost, or kept past a remove.
ScoreConvergence ==
  \A p, q \in Procs, e \in Elements :
    SeenOf(p, e) = SeenOf(q, e) => zset[p][e] = zset[q][e]

\* Strong eventual consistency of the whole state of an element.
StrongConvergence == MetadataConvergence /\ ScoreConvergence

\* The zset that RWFZSCORE and RWFZMAX read is in step with the metadata that the
\* preconditions of the next commands are checked on: removeFunc, rwfzaddCommand
\* and rwfzincrbyCommand never change one without the other.
ZsetMatchesMetadata ==
  \A p \in Procs, e \in Elements :
    zset[p][e] = IF EXISTS(rwfze[p][e].header) THEN SCORE(rwfze[p][e]) ELSE None

\* An element that only exists because an RWFZINCRBY overtook the RWFZADD it
\* depends on (PID_WAIT_INNATE) does so no longer than that add is on its way:
\* with nothing in flight no such element is left.
NoOrphanAtRest ==
  ~InFlight(net) =>
    \A p \in Procs, e \in Elements : rwfze[p][e].header.pid # PID_WAIT_INNATE

\* The remove history of an element never forgets a remove: vc_update in
\* REH_RMV_FUNC merges, it does not overwrite.
HistoryGrows ==
  [][\A p \in Procs, e \in Elements, i \in Procs :
       rwfze[p][e].header.current.vector[i] <= rwfze'[p][e].header.current.vector[i]]_vars

\* All replicas answer RWFZSCORE and RWFZMAX alike.
AnswersAlike ==
  \A p, q \in Procs :
    /\ \A e \in Elements : rwfzscoreCommand(p, e) = rwfzscoreCommand(q, e)
    /\ rwfzmaxCommand(p) = rwfzmaxCommand(q)

\* With nothing in flight all replicas answer RWFZSCORE and RWFZMAX alike: every
\* command reached every replica, and the orders they arrived in left no trace.
AlikeAtRest == ~InFlight(net) => AnswersAlike

-----------------------------------------------------------------------------
(***************************************************************************)
(* The inductive invariant behind them.                                    *)
(***************************************************************************)

\* The adds, or increments, among the commands S on an element with metadata r
\* that know every remove r knows of.
Live(r, S, cmd) == {m \in S : m.cmd = cmd /\ vc_equal(m.t, r.header.current)}

\* The remove history is the join of the histories of the commands executed.
HistoryIsJoin(r, S) ==
  \A i \in Procs :
    /\ \A m \in S : m.t.vector[i] <= r.header.current.vector[i]
    /\ \/ r.header.current.vector[i] = 0
       \/ \E m \in S : m.t.vector[i] = r.header.current.vector[i]

\* The header names the live add of the greatest replica, whose value is innate.
HeaderIsWinner(r, S) ==
  /\ r.header.pid \in Procs =>
       /\ \A m \in Live(r, S, "rwfzadd") : m.t.id <= r.header.pid
       /\ \E m \in Live(r, S, "rwfzadd") : m.t.id = r.header.pid /\ m.v = r.innate
  /\ r.header.pid \notin Procs => Live(r, S, "rwfzadd") = {} /\ r.innate = 0
  /\ r.header.pid = PID_NEXIST => Live(r, S, "rwfzincrby") = {}
  /\ r.header.pid = PID_WAIT_INNATE => Live(r, S, "rwfzincrby") # {}

\* A command in flight was executed where it was issued, and one executed anywhere
\* was executed where it was issued; the ids in the clocks say where that is.
OriginSaw ==
  /\ \A p \in Procs, e \in Elements : rwfze[p][e].header.current.id = p
  /\ \A p, q \in Procs : \A m \in Range(net[p][q]) : m \in seen[p] /\ m.t.id = p
  /\ \A p \in Procs : \A m \in seen[p] : m \in seen[m.t.id]

\* A replica adds an element at most once between two removes it knows of.
OneAddPerHistory ==
  \A p \in Procs : \A m1, m2 \in seen[p] :
    /\ m1.cmd = "rwfzadd" /\ m2.cmd = "rwfzadd"
    /\ m1.e = m2.e /\ m1.t.id = p /\ m1.t = m2.t
    => m1.v = m2.v

\* Before an increment there was an add with the same remove history.
IncHasAdd ==
  \A p \in Procs : \A m \in seen[p] :
    m.cmd = "rwfzincrby" =>
      \E q \in Procs : \E a \in seen[q] :
        a.cmd = "rwfzadd" /\ a.e = m.e /\ vc_equal(a.t, m.t)

\* A command is on its way to every replica that has not executed it.
SeenOrInFlight ==
  \A p, q \in Procs : \A m \in seen[p] :
    m.t.id = p /\ p # q => m \in seen[q] \cup Range(net[p][q])

\* What is known of the metadata: its type, the header of each element as a
\* function of the commands executed, and where commands can be.
MetadataInv ==
  /\ TypeOK
  /\ \A p \in Procs : IsFiniteSet(seen[p])
  /\ \A p \in Procs, e \in Elements :
       HistoryIsJoin(rwfze[p][e], SeenOf(p, e)) /\ HeaderIsWinner(rwfze[p][e], SeenOf(p, e))
  /\ ZsetMatchesMetadata
  /\ OriginSaw
  /\ OneAddPerHistory
  /\ IncHasAdd
  /\ SeenOrInFlight

\* A command reaches a replica once: it is not sent twice, and not to a replica
\* that has executed it.
ExactlyOnce ==
  /\ \A p \in Procs : \A m \in IssuedAt(p) : m.n < Cardinality(IssuedAt(p))
  /\ \A p, q \in Procs : IsInjective(net[p][q]) /\ Range(net[p][q]) \cap seen[q] = {}

\* acquired is the sum of the increments that know every remove.
AcquiredIsTotal(r, S) == r.acquired = Total(Live(r, S, "rwfzincrby"))

\* The inductive invariant: every part of the metadata is a function of the
\* commands executed, each of which is executed once.
IInv ==
  /\ MetadataInv
  /\ ExactlyOnce
  /\ \A p \in Procs, e \in Elements : AcquiredIsTotal(rwfze[p][e], SeenOf(p, e))
=============================================================================
