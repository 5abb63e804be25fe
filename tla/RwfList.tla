------------------------------ MODULE RwfList ------------------------------
(***************************************************************************)
(* The RWF-List of t_rwflist.c: a replicated list of formatted text.  An   *)
(* element carries the header of the Remove-Win framework, the identifier  *)
(* that places it in the list for good, its content, and properties that   *)
(* updates overwrite in the order of Lamport clocks.  A replica keeps the  *)
(* elements it has a position for in a linked list, removed ones included, *)
(* and counts the existing ones in a field of the list's hash table.       *)
(*                                                                         *)
(* README.md leaves it undefined what happens when two insertions name the *)
(* same new element, so each element is given a position once; re-adding   *)
(* is free.  A missing rwfle behaves like a new one, as in RwfRpq.         *)
(***************************************************************************)
EXTENDS RWFramework, Replication, ListId, FiniteSets, SequencesExt

CONSTANTS Elements,     \* the element ids
          NormalTypes,  \* font, size, color: not initialised by rwfleNew
          BitmapTypes,  \* bold, italic, underline: 0 in a new element
          Values,       \* the property values in insertions and updates
          Uninit,       \* what zmalloc left in an uninitialised property
          Rands,        \* the values of rand()
          None,         \* a NULL clock, and "null" for the element before
          MaxOps        \* bound: client commands accepted in a behaviour

VARIABLES rwfle,   \* rwfle[p][e]: the element e at replica p
          list,    \* list[p]: the linked list that getHead(ht) starts
          len,     \* len[p]: the field "length"
          cur,     \* cur[p]: the clock in the field "current"
          net,     \* the replication streams
          seen     \* history: seen[p] is the set of commands executed at p

vars == <<rwfle, list, len, cur, net, seen>>

Types == NormalTypes \cup BitmapTypes

\* rwfleNew.  The identifier is << >> as long as oid, content and pos_id are NULL;
\* x is the Lamport clock current, whose id stays that of the replica.
rwfleNew(p) ==
  [header |-> REH_INIT(p), pos |-> << >>, x |-> 0,
   clock  |-> [y \in Types |-> None],
   value  |-> [y \in Types |-> IF y \in NormalTypes THEN Uninit ELSE 0]]

lc_less_equal(a, b) == a.x < b.x \/ (a.x = b.x /\ a.id <= b.id)

\* An update of one property, ordered by its Lamport clock.
acquired_update(r, m) ==
  IF r.clock[m.type] = None \/ lc_less_equal(r.clock[m.type], m.lt)
  THEN [r EXCEPT !.clock[m.type] = m.lt, !.value[m.type] = m.v, !.x = Max({r.x, m.lt.x})]
  ELSE r

\* What a command changes: the element, the linked list and the length.
Entry(p, e) == [r |-> rwfle[p][e], list |-> list[p], len |-> len[p]]

\* The values of the properties are left alone.
removeFunc(n, t) ==
  IF ~removeCheck(n.r.header, t) THEN n
  ELSE [n EXCEPT !.r.header = REH_RMV_FUNC(n.r.header, t),
                 !.r.clock = [y \in Types |-> None], !.r.x = 0,
                 !.len = IF EXISTS(n.r.header) THEN n.len - 1 ELSE n.len]

\* The identifiers p knows.
Ids(p) == [e \in Elements |-> rwfle[p][e].pos]

\* A first insertion to arrive places the element, whether or not it still counts.
insertEffect(p, n, m) ==
  LET new  == removeFunc(n, m.t)
      n1   == IF new.r.pos # << >> THEN new
              ELSE [new EXCEPT !.r.pos = m.pos, !.list = Link(new.list, Ids(p), m.pre, m.e, m.pos)]
      h    == n1.r.header
  IN  IF ~addCheck(h, m.t) THEN n1
      ELSE [n1 EXCEPT !.r.header = addHeader(h, m.t),
                      !.len = IF EXISTS(h) THEN n1.len ELSE n1.len + 1,
                      !.r.value = [y \in Types |-> IF n1.r.clock[y] = None
                                                   THEN m.v[y] ELSE n1.r.value[y]]]

updateEffect(n, m) ==
  LET new == removeFunc(n, m.t)
  IN  IF ~updateCheck(new.r.header, m.t) THEN new
      ELSE [new EXCEPT !.r = acquired_update([new.r EXCEPT !.header = updateHeader(@)], m)]

Effect(p, m) ==
  LET n == Entry(p, m.e)
  IN  CASE m.cmd = "rwflinsert" -> insertEffect(p, n, m)
        [] m.cmd = "rwflupdate" -> updateEffect(n, m)
        [] m.cmd = "rwflrem"    -> removeFunc(n, m.t)

\* The effect part of a command, the same at its own replica and at a peer.
Execute(p, m) ==
  \E n \in {Effect(p, m)} :
    /\ rwfle' = [rwfle EXCEPT ![p][m.e] = n.r]
    /\ list' = [list EXCEPT ![p] = n.list]
    /\ len'  = [len  EXCEPT ![p] = n.len]
    /\ seen' = [seen EXCEPT ![p] = seen[p] \cup {m}]

Issued == UNION {seen[p] : p \in Procs}

\* call(): the effect at the replica of the client, then the broadcast.  n keeps
\* equal commands of one replica apart in seen.
Call(p, arg) ==
  \E m \in {[n |-> Cardinality({o \in seen[p] : o.t.id = p})] @@ arg} :
    /\ Cardinality(Issued) < MaxOps
    /\ net' = replicationBroadcast(net, p, m)
    /\ Execute(p, m)
-----------------------------------------------------------------------------
Init ==
  /\ rwfle = [p \in Procs |-> [e \in Elements |-> rwfleNew(p)]]
  /\ list = [p \in Procs |-> << >>]
  /\ len = [p \in Procs |-> 0]
  /\ cur = [p \in Procs |-> vc_new(p)]
  /\ net = EmptyNetwork
  /\ seen = [p \in Procs |-> {}]

\* An insertion of a new element behind pre, or at the beginning.
rwflinsertCommand(p, pre, e, v, r) ==
  /\ pre # None => EXISTS(rwfle[p][pre].header) /\ rwfle[p][pre].pos # << >>
  /\ ~EXISTS(rwfle[p][e].header)
  /\ ~\E o \in Issued : o.cmd = "rwflinsert" /\ o.e = e
  /\ cur' = [cur EXCEPT ![p] = vc_now(cur[p])]
  /\ Call(p, [cmd |-> "rwflinsert", pre |-> pre, e |-> e, v |-> v,
              pos |-> NewId(list[p], Ids(p), pre, cur[p], r), t |-> rwfle[p][e].header.current])

\* The same command with "readd" for pre.
rwflinsertReadd(p, e, v) ==
  /\ ~EXISTS(rwfle[p][e].header)
  /\ rwfle[p][e].pos # << >>
  /\ Call(p, [cmd |-> "rwflinsert", pre |-> None, e |-> e, v |-> v,
              pos |-> rwfle[p][e].pos, t |-> rwfle[p][e].header.current])
  /\ UNCHANGED cur

rwflupdateCommand(p, e, y, v) ==
  /\ EXISTS(rwfle[p][e].header)
  /\ Call(p, [cmd |-> "rwflupdate", e |-> e, type |-> y, v |-> v,
              lt |-> [x |-> rwfle[p][e].x + 1, id |-> p],
              t |-> rwfle[p][e].header.current])
  /\ UNCHANGED cur

rwflremCommand(p, e) ==
  /\ EXISTS(rwfle[p][e].header)
  /\ Call(p, [cmd |-> "rwflrem", e |-> e, t |-> vc_now(rwfle[p][e].header.current)])
  /\ UNCHANGED cur

\* q executes the next command of the stream from p.
ReplicaExecute(p, q) ==
  /\ net[p][q] # << >>
  /\ net' = Consume(net, p, q)
  /\ Execute(q, Head(net[p][q]))
  /\ UNCHANGED cur

rwfllenCommand(p) == len[p]

\* The elements the reply consists of; its array header announces len[p] of them.
rwfllistCommand(p) ==
  LET shown == SelectSeq(list[p], LAMBDA e : EXISTS(rwfle[p][e].header))
  IN  [i \in 1 .. Len(shown) |-> <<shown[i], rwfle[p][shown[i]].value>>]

ClientStep ==
  \E p \in Procs, e \in Elements :
    \/ \E v \in [Types -> Values] :
         \/ \E pre \in (Elements \ {e}) \cup {None}, r \in Rands :
              rwflinsertCommand(p, pre, e, v, r)
         \/ rwflinsertReadd(p, e, v)
    \/ \E y \in Types, v \in Values : rwflupdateCommand(p, e, y, v)
    \/ rwflremCommand(p, e)

Next == ClientStep \/ \E p, q \in Procs : ReplicaExecute(p, q)

Spec == Init /\ [][Next]_vars
-----------------------------------------------------------------------------
(***************************************************************************)
(* Correctness.                                                            *)
(***************************************************************************)

\* Every variable keeps its type: clocks count from 0 up, a property is one of the
\* values sent or what its memory held before.
TypeOK ==
  /\ \A p \in Procs, e \in Elements :
       LET r == rwfle[p][e]
       IN  /\ r.header \in Header /\ r.pos \in Seq(Position) /\ r.x \in Nat
           /\ \A y \in Types :
                /\ r.clock[y] = None \/ r.clock[y] \in [x : Nat, id : Procs]
                /\ r.value[y] \in Values \cup {Uninit, 0}
  /\ \A p \in Procs : list[p] \in Seq(Elements) /\ len[p] \in Int /\ cur[p] \in VC

SeenOf(p, e) == {m \in seen[p] : m.e = e}

\* The linked list of every replica is always in the order of the identifiers and
\* holds each element whose position is known once, although elements arrive in
\* different orders and the walk starts at a different place each time.
ListSorted ==
  \A p \in Procs :
    /\ Range(list[p]) = {e \in Elements : rwfle[p][e].pos # << >>}
    /\ \A i, j \in 1 .. Len(list[p]) :
         i < j => leid_less(rwfle[p][list[p][i]].pos, rwfle[p][list[p][j]].pos)

\* An element has the same identifier wherever it is known, and no two elements
\* share one, whichever replicas they were inserted at and however close together:
\* with ListSorted, two elements are in the same order at all replicas.
OneTotalOrder ==
  \A p, q \in Procs, e, f \in Elements :
    rwfle[p][e].pos # << >> /\ rwfle[q][f].pos # << >> =>
      (rwfle[p][e].pos = rwfle[q][f].pos <=> e = f)

\* What the user asked for: a new element ends up right behind the one it was
\* inserted after, or in front of all.  The prepare part only draws an identifier;
\* it is the walk of the effect part that places the element.
InsertedWhereAskedStep ==
  \A p \in Procs : cur'[p] # cur[p] =>
    \E m \in seen'[p] \ seen[p] :
      list'[p] = IF m.pre = None THEN <<m.e>> \o list[p]
                 ELSE InsertAt(list[p], PlaceOf(list[p], m.pre) + 1, m.e)
InsertedWhereAsked == [][InsertedWhereAskedStep]_vars

\* Strong eventual consistency: replicas that executed the same commands on an
\* element agree on its header and, once the insertion it depends on is among
\* them, on every property and on the clock the next update will get.
ElementConvergence ==
  \A p, q \in Procs, e \in Elements :
    SeenOf(p, e) = SeenOf(q, e) =>
      LET r == rwfle[p][e]
          s == rwfle[q][e]
      IN  /\ vc_equal(r.header.current, s.header.current)
          /\ r.header.pid = s.header.pid
          /\ r.clock = s.clock /\ r.x = s.x
          /\ r.header.pid \in Procs => r.value = s.value

\* With nothing in flight no client reads a property that was never given a value.
NothingUninitialisedAtRest ==
  ~InFlight(net) =>
    \A p \in Procs, e \in Elements :
      EXISTS(rwfle[p][e].header) => \A y \in Types : rwfle[p][e].value[y] # Uninit

\* The array length that RWFLLIST announces is the number of elements that follow,
\* and is what RWFLLEN answers.
LengthIsShown == \A p \in Procs : rwfllenCommand(p) = Len(rwfllistCommand(p))

\* With nothing in flight all replicas answer RWFLLEN alike.
LengthsAgreeAtRest ==
  ~InFlight(net) => \A p, q \in Procs : rwfllenCommand(p) = rwfllenCommand(q)

ListsAlike == \A p, q \in Procs : rwfllistCommand(p) = rwfllistCommand(q)
=============================================================================
