----------------------------- MODULE AddWinRpq -----------------------------
(***************************************************************************)
(* The Add-Win RPQ of t_ozset.c.  Every add has a tag of its own.  An      *)
(* increment and a remove name the tags their replica knows at that time,  *)
(* and only affect those.  An element is there as long as some tag in aset *)
(* has not been removed; its score is the priority of the greatest tag     *)
(* plus the increments of the tag that was incremented most.               *)
(*                                                                         *)
(* The lists aset and rset are sets here: every loop over them looks for   *)
(* one tag or for a greatest one.  As in RwfRpq the elements do not        *)
(* influence each other and a missing oze behaves like a new one.          *)
(***************************************************************************)
EXTENDS Replication, FiniteSets, FiniteSetsExt

CONSTANTS Elements,     \* the elements clients name in their commands
          AddValues,    \* the initial priorities given to OZADD
          IncValues,    \* the increments given to OZINCRBY
          Garbage,      \* what the memory that zmalloc returns may hold
          None,         \* NULL, and "not in the zset"
          MaxOps        \* bound: client commands accepted in a behaviour

VARIABLES oze,     \* oze[p][e]: the metadata of e at replica p
          zset,    \* zset[p][e]: the score of e in p's zset, or None
          net,     \* the replication streams
          seen     \* history: seen[p] is the set of commands executed at p

vars == <<oze, zset, net, seen>>

Commands == {"ozadd", "ozincrby", "ozrem"}

Tag == [x : Nat, id : Procs]

\* rargv: the command, its element, its value (0 for ozrem) and the tags the
\* prepare part appends.  by and n, the n-th command of by, are not sent; they
\* keep equal commands apart in seen.
Message == [cmd : Commands, e : Elements, v : Int, tags : SUBSET Tag, by : Procs, n : Nat]

oz_ase == [t : Tag, x : Int, inc : Int, count : Int]

\* innate and acquired are the tags of the entries the code points to.
Oze == [current : Nat, innate : Tag \cup {None}, acquired : Tag \cup {None},
        aset : SUBSET oz_ase, rset : SUBSET Tag]
-----------------------------------------------------------------------------
ozeNew == [current |-> 0, innate |-> None, acquired |-> None, aset |-> {}, rset |-> {}]

\* lc_cmp_as_tag < 0.
TagLess(t1, t2) == t1.id < t2.id \/ (t1.id = t2.id /\ t1.x < t2.x)

Tags(r) == {a.t : a \in r.aset}

asetGet(r, t) == CHOOSE a \in r.aset : a.t = t

LOOKUP(r) == r.aset # {}

SCORE(r) == (IF r.innate = None THEN 0 ELSE asetGet(r, r.innate).x)
            + (IF r.acquired = None THEN 0 ELSE asetGet(r, r.acquired).inc)

\* a comes after b in the order by which acquired is chosen.
CountLess(b, a) == b.count < a.count \/ (b.count = a.count /\ TagLess(b.t, a.t))

GreatestTag(aset) == (CHOOSE a \in aset : \A b \in aset : b = a \/ TagLess(b.t, a.t)).t

GreatestCount(aset) == (CHOOSE a \in aset : \A b \in aset : b = a \/ CountLess(b, a)).t

Entry == [meta : Oze, score : Int \cup {None}]

Stored(r) == [meta |-> r, score |-> SCORE(r)]

\* Variant: an add that arrives after its remove is carried out.
addEffect_ignores_rset(x, t, v) ==
  LET r   == x.meta
      new == [r EXCEPT !.aset = {b \in r.aset : b.t # t} \cup
                                {[t |-> t, x |-> v, inc |-> 0, count |-> 0]}]
  IN  IF r.innate = None \/ (r.innate # None /\ TagLess(r.innate, t))
      THEN Stored([new EXCEPT !.innate = t])
      ELSE [x EXCEPT !.meta = new]

\* Variant: the add that arrives last gives the priority.
addEffect_last_wins(x, t, v) ==
  LET r == x.meta
      a == IF t \in Tags(r) THEN [asetGet(r, t) EXCEPT !.x = v]
           ELSE [t |-> t, x |-> v, inc |-> 0, count |-> 0]
  IN  IF t \in r.rset THEN x
      ELSE Stored([r EXCEPT !.aset = {b \in r.aset : b.t # t} \cup {a}, !.innate = t])

\* update_innate_value for the one tag of an add, and the zsetAdd if it returns 1.
addEffect(x, t, v) ==
  LET r   == x.meta
      a   == IF t \in Tags(r) THEN [asetGet(r, t) EXCEPT !.x = v]
             ELSE [t |-> t, x |-> v, inc |-> 0, count |-> 0]
      new == [r EXCEPT !.aset = {b \in r.aset : b.t # t} \cup {a}]
  IN  IF t \in r.rset THEN x
      ELSE IF r.innate = None \/ (r.innate # None /\ TagLess(r.innate, t))
           THEN Stored([new EXCEPT !.innate = t])
           ELSE [x EXCEPT !.meta = new]

\* add_ase leaves the field x of a new entry as zmalloc returned it.
add_ase(T) == {[t |-> t, x |-> g, inc |-> 0, count |-> 0] : t \in T, g \in Garbage}

\* The choices of one new entry for each tag in T.
NewEntries(T) ==
  {A \in SUBSET add_ase(T) : /\ \A t \in T : \E a \in A : a.t = t
                             /\ \A a, b \in A : a.t = b.t => a = b}

\* update_acquired_value for every tag of an increment, then the zsetAdd if one of
\* them returned 1.  The order of the tags does not matter: each is compared with
\* its final count, so acquired ends at the greatest of those named and the old one,
\* and some call returned 1 iff that is one of those named.
incrbyEffect(x, tags, v) ==
  LET r     == x.meta
      named == tags \ r.rset
      After(fresh) ==
        LET raised == {[a EXCEPT !.inc = a.inc + v, !.count = a.count + (IF v > 0 THEN v ELSE -v)] :
                         a \in {b \in r.aset : b.t \in named} \cup fresh}
            old    == {a \in r.aset : a.t \notin named}
            best   == GreatestCount(raised \cup {a \in old : a.t = r.acquired})
            new    == [r EXCEPT !.aset = raised \cup old, !.acquired = best]
        IN  IF best \in named THEN Stored(new)
            ELSE [x EXCEPT !.meta = new]
  IN  IF named = {} THEN {x}
      ELSE {After(fresh) : fresh \in NewEntries(named \ Tags(r))}

resort(r) ==
  IF (r.innate # None /\ r.acquired # None) \/ r.aset = {} THEN r
  ELSE [r EXCEPT !.innate = GreatestTag(r.aset), !.acquired = GreatestCount(r.aset)]

\* remove_tag for every tag of a remove.
removeTags(r, tags) ==
  [r EXCEPT !.aset     = {a \in r.aset : a.t \notin tags},
            !.rset     = r.rset \cup tags,
            !.innate   = IF r.innate \in tags THEN None ELSE r.innate,
            !.acquired = IF r.acquired \in tags THEN None ELSE r.acquired]

remEffect(x, tags) ==
  LET r   == removeTags(x.meta, tags)
      new == resort(r)
  IN  IF r.innate # None /\ r.acquired # None THEN [x EXCEPT !.meta = r]
      ELSE IF LOOKUP(new) THEN Stored(new)
      ELSE [meta |-> new, score |-> None]

\* The effect part of a command: the entries it may leave.
Effect(x, m) ==
  CASE m.cmd = "ozadd"    -> {addEffect(x, t, m.v) : t \in m.tags}
    [] m.cmd = "ozincrby" -> incrbyEffect(x, m.tags, m.v)
    [] m.cmd = "ozrem"    -> {remEffect(x, m.tags)}

\* The effect at p of m, on the entry x the prepare part has left.
Execute(p, x, m) ==
  \E y \in Effect(x, m) :
    /\ oze'  = [oze  EXCEPT ![p][m.e] = y.meta]
    /\ zset' = [zset EXCEPT ![p][m.e] = y.score]
    /\ seen' = [seen EXCEPT ![p] = seen[p] \cup {m}]

EntryOf(p, e) == [meta |-> oze[p][e], score |-> zset[p][e]]

Issued == UNION {seen[p] : p \in Procs}

Call(p, x, cmd, e, v, tags) ==
  LET m == [cmd |-> cmd, e |-> e, v |-> v, tags |-> tags, by |-> p,
            n |-> Cardinality({o \in seen[p] : o.by = p})]
  IN  /\ Cardinality(Issued) < MaxOps
      /\ Execute(p, x, m)
      /\ net' = replicationBroadcast(net, p, m)
-----------------------------------------------------------------------------
Init ==
  /\ oze = [p \in Procs |-> [e \in Elements |-> ozeNew]]
  /\ zset = [p \in Procs |-> [e \in Elements |-> None]]
  /\ net = EmptyNetwork
  /\ seen = [p \in Procs |-> {}]

\* A new tag: current is counted up by the prepare part.
ozaddCommand(p, e, v) ==
  LET r == oze[p][e]
  IN  /\ ~LOOKUP(r)
      /\ Call(p, [EntryOf(p, e) EXCEPT !.meta.current = r.current + 1],
              "ozadd", e, v, {[x |-> r.current, id |-> p]})

ozincrbyCommand(p, e, v) ==
  /\ LOOKUP(oze[p][e])
  /\ Call(p, EntryOf(p, e), "ozincrby", e, v, Tags(oze[p][e]))

ozremCommand(p, e) ==
  /\ LOOKUP(oze[p][e])
  /\ Call(p, EntryOf(p, e), "ozrem", e, 0, Tags(oze[p][e]))

\* q executes the next command of the stream from p.
ReplicaExecute(p, q) ==
  /\ net[p][q] # << >>
  /\ net' = Consume(net, p, q)
  /\ Execute(q, EntryOf(q, Head(net[p][q]).e), Head(net[p][q]))

\* The reads look at the zset of their own replica.
ozscoreCommand(p, e) == zsetScore(zset[p], e)

ozmaxCommand(p) == zsetLast(zset[p], None)

ClientStep ==
  \E p \in Procs, e \in Elements :
    \/ \E v \in AddValues : ozaddCommand(p, e, v)
    \/ \E v \in IncValues : ozincrbyCommand(p, e, v)
    \/ ozremCommand(p, e)

Next == ClientStep \/ \E p, q \in Procs : ReplicaExecute(p, q)

Spec == Init /\ [][Next]_vars
-----------------------------------------------------------------------------
(***************************************************************************)
(* Correctness.                                                            *)
(***************************************************************************)

\* Every variable keeps its type; aset holds one entry per tag, never a removed one.
TypeOK ==
  /\ \A p \in Procs, e \in Elements :
       LET r == oze[p][e]
       IN  /\ r.current \in Nat
           /\ {r.innate, r.acquired} \subseteq Tag \cup {None}
           /\ \A a \in r.aset : a \in oz_ase /\ a.t \notin r.rset
           /\ \A a, b \in r.aset : a.t = b.t => a = b
           /\ \A t \in r.rset : t \in Tag
  /\ zset \in [Procs -> [Elements -> Int \cup {None}]]
  /\ \A p, q \in Procs : \A m \in Range(net[p][q]) : m \in seen[p]

SeenOf(p, e) == {m \in seen[p] : m.e = e}

\* innate and acquired never point to an entry that remove_tag has freed, not even
\* when several tags go at once.
NoDanglingPointer ==
  \A p \in Procs, e \in Elements :
    {oze[p][e].innate, oze[p][e].acquired} \subseteq Tags(oze[p][e]) \cup {None}

Named(S, cmd) == UNION {m.tags : m \in {o \in S : o.cmd = cmd}}

\* The tags that are there after the commands S.
LiveTags(S) == (Named(S, "ozadd") \cup Named(S, "ozincrby")) \ Named(S, "ozrem")

\* The increments of a tag among the commands S, and the sum of their sizes.
IncOf(S, t) ==
  MapThenSumSet(LAMBDA m : m.v, {m \in S : m.cmd = "ozincrby" /\ t \in m.tags})

CountOf(S, t) ==
  MapThenSumSet(LAMBDA m : IF m.v > 0 THEN m.v ELSE -m.v,
                {m \in S : m.cmd = "ozincrby" /\ t \in m.tags})

\* The entries are a function of the set of commands executed, whatever the order:
\* a tag is there iff it was added or incremented and not removed, it has all of
\* its increments, and its priority once its add has arrived.
EntriesFollowHistory ==
  \A p \in Procs, e \in Elements :
    LET r == oze[p][e]
        S == SeenOf(p, e)
    IN  /\ Tags(r) = LiveTags(S)
        /\ r.rset = Named(S, "ozrem")
        /\ \A a \in r.aset :
             /\ a.inc = IncOf(S, a.t) /\ a.count = CountOf(S, a.t)
             /\ \A m \in S : m.cmd = "ozadd" /\ a.t \in m.tags => a.x = m.v

\* All replicas have the same score in their metadata, whatever their zset shows.
MetadataAlike ==
  \A p, q \in Procs, e \in Elements : SCORE(oze[p][e]) = SCORE(oze[q][e])

\* With nothing in flight the pointers select the same priority and the same
\* increments everywhere: the metadata has converged.
MetadataAgreesAtRest ==
  ~InFlight(net) => MetadataAlike

\* The score after the commands S: the priority of the greatest tag that is there
\* plus the increments of the one incremented most, by the sizes of the increments,
\* the greatest of those if there are several.
AddWinValue(S) ==
  LET L == LiveTags(S)
      first == CHOOSE t \in L : \A u \in L : u = t \/ TagLess(u, t)
      most  == CHOOSE t \in L : \A u \in L : \/ u = t
                                             \/ CountOf(S, u) < CountOf(S, t)
                                             \/ CountOf(S, u) = CountOf(S, t) /\ TagLess(u, t)
      add   == CHOOSE m \in S : m.cmd = "ozadd" /\ first \in m.tags
  IN  IF L = {} THEN None ELSE add.v + IncOf(S, most)

\* What a replica shows for an element is a function of the set of commands it has
\* executed on it, in which an add beats the removes that do not know of it.
AddWinSemantics ==
  \A p \in Procs, e \in Elements : zset[p][e] = AddWinValue(SeenOf(p, e))

\* With nothing in flight all replicas show the same scores.
ScoresAgreeAtRest ==
  ~InFlight(net) => \A p, q \in Procs : zset[p] = zset[q]

\* All replicas answer OZSCORE and OZMAX alike.
AnswersAlike ==
  \A p, q \in Procs :
    /\ \A e \in Elements : ozscoreCommand(p, e) = ozscoreCommand(q, e)
    /\ ozmaxCommand(p) = ozmaxCommand(q)
=============================================================================
