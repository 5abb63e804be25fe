-------------------------------- MODULE Sets --------------------------------
(***************************************************************************)
(* Sets (t_set.c, intset.c) and SORT (sort.c, pqsort.c).  A small set of   *)
(* integers is an intset: a sorted array whose cells are as wide as its    *)
(* widest member needs, upgraded in place when a wider one arrives; any    *)
(* other set is a hash table.  A replica runs what the master propagates,  *)
(* which for SPOP is not the command the client sent.                      *)
(***************************************************************************)
EXTENDS Integers, Sequences, FiniteSets, SequencesExt, FiniteSetsExt, TLC

CONSTANTS Elements,       \* integers that stand for the members
          Text,           \* those that are not the text of an integer
          Int16, Int32,   \* the largest integer of the two narrow widths
          MaxIntset,      \* set-max-intset-entries
          MoveMul,        \* SPOP_MOVE_STRATEGY_MUL
          Keys,           \* keys that hold sets
          Lists,          \* keys that hold the lists SORT stores
          Weights,        \* the values the keys of a BY pattern may have
          SmallSort,      \* below this length pqsort sorts by insertion
          Uses,           \* the commands clients send
          None

VARIABLES db, rep,        \* the objects at the master and at the replica
          weight,         \* the value of the key weight_<e>, or None
          abs             \* the set of each key

vars == <<db, rep, weight, abs>>

----------------------------------------------------------------------------
(* intset.c.  The array is a sequence of cells; a value of width w takes   *)
(* w cells, the first of which holds it.                                   *)

ValueEncoding(v) == IF v < -Int32 \/ v > Int32 THEN 4 ELSE IF v < -Int16 \/ v > Int16 THEN 2 ELSE 1

intsetNew == [encoding |-> 1, length |-> 0, contents |-> << >>]

GetEncoded(is, pos, enc) == is.contents[pos * enc + 1]

intsetGet(is, pos) == GetEncoded(is, pos, is.encoding)

intsetSet(is, pos, v) ==
    [is EXCEPT !.contents = [c \in DOMAIN @ |-> IF c = pos * is.encoding + 1 THEN v
                                                ELSE IF c \in pos * is.encoding + 2 .. (pos + 1) * is.encoding THEN None
                                                ELSE @[c]]]

intsetResize(is, len) ==
    [is EXCEPT !.contents = [c \in 1 .. len * is.encoding |-> IF c \in DOMAIN @ THEN @[c] ELSE None]]

RECURSIVE Bisect(_, _, _, _)
Bisect(is, v, min, max) ==
    LET mid == (min + max) \div 2
        cur == intsetGet(is, mid)
    IN  IF max < min THEN [found |-> FALSE, pos |-> min]
        ELSE IF v > cur THEN Bisect(is, v, mid + 1, max)
        ELSE IF v < cur THEN Bisect(is, v, min, mid - 1)
        ELSE [found |-> TRUE, pos |-> mid]

intsetSearch(is, v) ==
    IF is.length = 0 THEN [found |-> FALSE, pos |-> 0]
    ELSE IF v > intsetGet(is, is.length - 1) THEN [found |-> FALSE, pos |-> is.length]
    ELSE IF v < intsetGet(is, 0) THEN [found |-> FALSE, pos |-> 0]
    ELSE Bisect(is, v, 0, is.length - 1)

(* The values are moved from the last to the first, each to the place it   *)
(* has at the new width; the new value is beyond all others on one side.   *)
intsetUpgradeAndAdd(is, v) ==
    LET prepend == IF v < 0 THEN 1 ELSE 0
        wide    == intsetResize([is EXCEPT !.encoding = ValueEncoding(v)], is.length + 1)
        moved   == FoldLeft(LAMBDA s, i : intsetSet(s, i - 1 + prepend, GetEncoded(s, i - 1, is.encoding)),
                            wide, [i \in 1 .. is.length |-> is.length + 1 - i])
    IN  [intsetSet(moved, IF prepend = 1 THEN 0 ELSE is.length, v) EXCEPT !.length = @ + 1]

(* memmove() of the values from position from on.                          *)
intsetMoveTail(is, from, to) ==
    LET w    == is.encoding
        dst  == to * w + 1 .. (to + is.length - from) * w
    IN  [is EXCEPT !.contents = [c \in DOMAIN @ |-> IF c \in dst THEN @[c - (to - from) * w] ELSE @[c]]]

intsetAdd(is, v) ==
    LET at   == intsetSearch(is, v)
        room == intsetResize(is, is.length + 1)
        open == IF at.pos < is.length THEN intsetMoveTail(room, at.pos, at.pos + 1) ELSE room
    IN  IF ValueEncoding(v) > is.encoding THEN [is |-> intsetUpgradeAndAdd(is, v), ok |-> TRUE]
        ELSE IF at.found THEN [is |-> is, ok |-> FALSE]
        ELSE [is |-> [intsetSet(open, at.pos, v) EXCEPT !.length = @ + 1], ok |-> TRUE]

intsetFind(is, v) == ValueEncoding(v) <= is.encoding /\ intsetSearch(is, v).found

intsetRemove(is, v) ==
    LET at   == intsetSearch(is, v)
        shut == IF at.pos < is.length - 1 THEN intsetMoveTail(is, at.pos + 1, at.pos) ELSE is
    IN  IF intsetFind(is, v)
        THEN [is |-> [intsetResize(shut, is.length - 1) EXCEPT !.length = @ - 1], ok |-> TRUE]
        ELSE [is |-> is, ok |-> FALSE]

----------------------------------------------------------------------------
(* t_set.c: objects of the two encodings.                                  *)

Intset(is) == [enc |-> "intset", is |-> is]

Table(S) == [enc |-> "ht", ht |-> S]

setTypeCreate(v) == IF v \in Text THEN Table({}) ELSE Intset(intsetNew)

setTypeSize(o) == IF o.enc = "ht" THEN Cardinality(o.ht) ELSE o.is.length

(* What the iterator returns, a hash table's members in any order.         *)
Iterated(o) == IF o.enc = "ht" THEN SetToSeq(o.ht) ELSE [i \in 1 .. o.is.length |-> intsetGet(o.is, i - 1)]

setTypeConvert(o) == Table(ToSet(Iterated(o)))

setTypeIsMember(o, v) == IF o.enc = "ht" THEN v \in o.ht ELSE v \notin Text /\ intsetFind(o.is, v)

setTypeAdd(o, v) ==
    LET add  == intsetAdd(o.is, v)
        ints == Intset(add.is)
    IN  IF o.enc = "ht" THEN [o |-> Table(o.ht \cup {v}), ok |-> v \notin o.ht]
        ELSE IF v \in Text THEN [o |-> Table(setTypeConvert(o).ht \cup {v}), ok |-> TRUE]
        ELSE [o |-> IF add.ok /\ add.is.length > MaxIntset THEN setTypeConvert(ints) ELSE ints, ok |-> add.ok]

setTypeRemove(o, v) ==
    LET rem == intsetRemove(o.is, v)
    IN  IF o.enc = "ht" THEN [o |-> Table(o.ht \ {v}), ok |-> v \in o.ht]
        ELSE IF v \in Text THEN [o |-> o, ok |-> FALSE]
        ELSE [o |-> Intset(rem.is), ok |-> rem.ok]

AddAll(o, seq) == FoldLeft(LAMBDA s, v : setTypeAdd(s, v).o, o, seq)

RemoveAll(o, seq) == FoldLeft(LAMBDA s, v : setTypeRemove(s, v).o, o, seq)

(* An empty set is not kept.                                               *)
Kept(o) == IF setTypeSize(o) = 0 THEN None ELSE o

saddCommand(o, seq) == AddAll(IF o = None THEN setTypeCreate(seq[1]) ELSE o, seq)

sremCommand(o, seq) == IF o = None THEN None ELSE Kept(RemoveAll(o, seq))

(* The two sets of SMOVE, which does nothing when v is not in the first.   *)
smoveCommand(src, dst, v) ==
    IF src = None \/ ~setTypeRemove(src, v).ok THEN <<src, dst>>
    ELSE <<Kept(setTypeRemove(src, v).o), saddCommand(dst, <<v>>)>>

----------------------------------------------------------------------------
(* Set algebra.  objs is a sequence of objects or None, named by the keys. *)

Size0(o) == IF o = None THEN 0 ELSE setTypeSize(o)

(* The smallest set is walked, and its members looked up in the others.    *)
sinterGenericCommand(d, ks) ==
    LET sets == SortSeq(ks, LAMBDA a, b : setTypeSize(d[a]) < setTypeSize(d[b]))
        In(v) == \A j \in 2 .. Len(sets) : sets[j] = sets[1] \/ setTypeIsMember(d[sets[j]], v)
    IN  IF \E j \in DOMAIN ks : d[ks[j]] = None THEN None
        ELSE Kept(AddAll(Intset(intsetNew), SelectSeq(Iterated(d[sets[1]]), In)))

UnionOf(d, ks) ==
    FoldLeft(LAMBDA s, k : IF d[k] = None THEN s ELSE AddAll(s, Iterated(d[k])), Intset(intsetNew), ks)

(* Members of the first set that are in none of the others ...             *)
DiffOne(d, ks) ==
    LET sets == SortSeq(Tail(ks), LAMBDA a, b : Size0(d[a]) > Size0(d[b]))
        Out(v) == \A j \in DOMAIN sets : \/ d[sets[j]] = None
                                         \/ sets[j] # ks[1] /\ ~setTypeIsMember(d[sets[j]], v)
    IN  AddAll(Intset(intsetNew), SelectSeq(Iterated(d[ks[1]]), Out))

(* Variant: the first set is among those taken away.                       *)
DiffTwo_allSets(d, ks) ==
    FoldLeft(LAMBDA s, k : IF d[k] = None \/ setTypeSize(s) = 0 THEN s ELSE RemoveAll(s, Iterated(d[k])),
             AddAll(Intset(intsetNew), Iterated(d[ks[1]])), ks)

(* ... or all members of the first set, less those of the others.          *)
DiffTwo(d, ks) ==
    FoldLeft(LAMBDA s, k : IF d[k] = None \/ setTypeSize(s) = 0 THEN s ELSE RemoveAll(s, Iterated(d[k])),
             AddAll(Intset(intsetNew), Iterated(d[ks[1]])), Tail(ks))

Diff(d, ks) ==
    LET there == SelectSeq(ks, LAMBDA k : d[k] # None)
        one   == (Len(there) * setTypeSize(d[ks[1]])) \div 2
        two   == FoldLeft(LAMBDA n, k : n + setTypeSize(d[k]), 0, there)
    IN  IF d[ks[1]] = None THEN Intset(intsetNew) ELSE IF one <= two THEN DiffOne(d, ks) ELSE DiffTwo(d, ks)

sunionDiffGenericCommand(d, ks, op) == Kept(IF op = "union" THEN UnionOf(d, ks) ELSE Diff(d, ks))

----------------------------------------------------------------------------
(* SPOP of the members of seq; the client's command is replaced by what    *)
(* removes exactly these members.                                          *)

Popped(o, seq) ==
    LET left == SetToSeq(ToSet(Iterated(o)) \ ToSet(seq))
    IN  IF left = << >> THEN None
        ELSE IF Len(seq) = 1 \/ Len(left) * MoveMul > Len(seq) THEN RemoveAll(o, seq)
        ELSE AddAll(setTypeCreate(left[1]), left)

(* Variant: SPOP is propagated as it was received.                         *)
SpopPropagates_verbatim(o, seq) ==
    IF Len(seq) = Len(Iterated(o)) THEN <<[op |-> "del"]>> ELSE <<[op |-> "spop", n |-> Len(seq)]>>

SpopPropagates(o, seq) ==
    IF Len(seq) = Len(Iterated(o)) /\ Len(seq) > 1 THEN <<[op |-> "del"]>>
    ELSE [i \in DOMAIN seq |-> [op |-> "srem", v |-> seq[i]]]

(* The objects a replica may have after it has run the commands; SPOP, if  *)
(* it were sent, would choose anew.                                        *)
Runs(o, cmds) ==
    FoldLeft(LAMBDA os, c :
                 CASE c.op = "del"  -> {None}
                   [] c.op = "srem" -> {sremCommand(p, <<c.v>>) : p \in os}
                   [] c.op = "spop" -> UNION {{sremCommand(p, SetToSeq(S)) : S \in kSubset(c.n, ToSet(Iterated(p)))} : p \in os},
             {o}, cmds)

----------------------------------------------------------------------------
(* SORT.                                                                   *)

(* Strings compare in an order that is not the numeric one.                *)
compareStrings(a, b) == b - a

(* A missing BY value counts 0, or as the smallest string.                 *)
sortCompare(o, a, b) ==
    LET wa  == IF o.by = "pattern" THEN weight[a] ELSE a
        wb  == IF o.by = "pattern" THEN weight[b] ELSE b
        num == (IF wa = None THEN 0 ELSE wa) - (IF wb = None THEN 0 ELSE wb)
        cmp == IF ~o.alpha THEN IF num = 0 THEN compareStrings(a, b) ELSE num
               ELSE IF wa = None \/ wb = None THEN IF wa = wb THEN 0 ELSE IF wa = None THEN -1 ELSE 1
               ELSE compareStrings(wa, wb)
    IN  IF o.desc THEN -cmp ELSE cmp

(* pqsort: sorts what falls into positions l .. r; of the two sides of the *)
(* pivot, only those that overlap the range are sorted further.            *)
RECURSIVE pqsort(_, _, _, _)
pqsort(o, s, l, r) ==
    LET n     == Len(s)
        pivot == s[n \div 2 + 1]
        less  == SelectSeq(s, LAMBDA x : sortCompare(o, x, pivot) < 0)
        same  == SelectSeq(s, LAMBDA x : sortCompare(o, x, pivot) = 0)
        more  == SelectSeq(s, LAMBDA x : sortCompare(o, x, pivot) > 0)
        from  == Len(less) + Len(same)
        left  == IF Len(less) > 1 /\ l <= Len(less) /\ r >= 1 THEN pqsort(o, less, l, r) ELSE less
        right == IF Len(more) > 1 /\ l <= n /\ r > from THEN pqsort(o, more, l - from, r - from) ELSE more
    IN  IF n < SmallSort THEN SortSeq(s, LAMBDA a, b : sortCompare(o, a, b) < 0) ELSE left \o same \o right

(* LIMIT: the first and the last position of the output, from 0.           *)
Window(n, limit) ==
    LET start == IF limit[1] < 0 THEN 0 ELSE limit[1]
        end   == IF limit[2] < 0 THEN n - 1 ELSE start + limit[2] - 1
    IN  IF start >= n THEN <<n - 1, n - 2>> ELSE <<start, IF end >= n THEN n - 1 ELSE end>>

(* BY a pattern without * means no sorting, but not when a set's order     *)
(* would be stored.                                                        *)
Options(o) == IF o.by = "nosort" /\ o.store THEN [o EXCEPT !.by = "no", !.alpha = TRUE] ELSE o

Fails(o, S) == /\ o.by # "nosort" /\ ~o.alpha
               /\ IF o.by = "pattern" THEN \E e \in S : weight[e] \in Text ELSE S \cap Text # {}

(* The output for a set whose members were iterated in the order of s.     *)
Sorted(o, s) ==
    LET w   == Window(Len(s), o.limit)
        all == IF o.by = "nosort" THEN s
               ELSE IF o.by = "pattern" /\ w # <<0, Len(s) - 1>> THEN pqsort(o, s, w[1] + 1, w[2] + 1)
               ELSE SortSeq(s, LAMBDA a, b : sortCompare(o, a, b) < 0)
        out == SubSeq(all, w[1] + 1, w[2] + 1)
    IN  IF o.get THEN [i \in DOMAIN out |-> weight[out[i]]] ELSE out

(* What SORT ... STORE may leave in the destination: the order a hash      *)
(* table is walked in is its own.                                          *)
Outcomes(o, obj) ==
    LET opt == Options(o)
        seqs == IF obj = None THEN {<< >>}
                ELSE IF obj.enc = "intset" THEN {Iterated(obj)} ELSE SetToSeqs(obj.ht)
    IN  {Sorted(opt, s) : s \in seqs}

----------------------------------------------------------------------------
(* Behaviour.                                                              *)

Members(o) == IF o = None THEN {} ELSE ToSet(Iterated(o))

Both(k, Op(_), S) == /\ db' = [db EXCEPT ![k] = Op(@)]
                     /\ rep' = [rep EXCEPT ![k] = Op(@)]
                     /\ abs' = [abs EXCEPT ![k] = S]
                     /\ UNCHANGED weight

SAdd == /\ "sadd" \in Uses
        /\ \E k \in Keys, v \in Elements : Both(k, LAMBDA o : saddCommand(o, <<v>>), abs[k] \cup {v})

SRem == /\ "srem" \in Uses
        /\ \E k \in Keys, v \in Elements : db[k] # None /\ Both(k, LAMBDA o : sremCommand(o, <<v>>), abs[k] \ {v})

SMove == /\ "smove" \in Uses
         /\ \E src, dst \in Keys, v \in Elements :
                /\ src # dst
                /\ \E m \in {smoveCommand(db[src], db[dst], v)}, r \in {smoveCommand(rep[src], rep[dst], v)} :
                       /\ db' = [db EXCEPT ![src] = m[1], ![dst] = m[2]]
                       /\ rep' = [rep EXCEPT ![src] = r[1], ![dst] = r[2]]
                /\ abs' = IF v \in abs[src] THEN [abs EXCEPT ![src] = @ \ {v}, ![dst] = @ \cup {v}] ELSE abs
                /\ UNCHANGED weight

SPop == /\ "spop" \in Uses
        /\ \E k \in Keys : db[k] # None /\ \E S \in SUBSET Members(db[k]) \ {{}} :
               /\ db' = [db EXCEPT ![k] = Popped(@, SetToSeq(S))]
               /\ \E o \in Runs(rep[k], SpopPropagates(db[k], SetToSeq(S))) : rep' = [rep EXCEPT ![k] = o]
               /\ abs' = [abs EXCEPT ![k] = @ \ S]
               /\ UNCHANGED weight

Meaning(op, ks) == CASE op = "inter" -> {v \in abs[ks[1]] : \A j \in DOMAIN ks : v \in abs[ks[j]]}
                     [] op = "union" -> UNION {abs[ks[j]] : j \in DOMAIN ks}
                     [] op = "diff"  -> {v \in abs[ks[1]] : \A j \in 2 .. Len(ks) : v \notin abs[ks[j]]}

Combined(d, op, ks) == IF op = "inter" THEN sinterGenericCommand(d, ks) ELSE sunionDiffGenericCommand(d, ks, op)

SStore == /\ "store" \in Uses
          /\ \E op \in {"inter", "union", "diff"}, dst \in Keys, ks \in [1 .. 2 -> Keys] :
                 /\ db' = [db EXCEPT ![dst] = Combined(db, op, ks)]
                 /\ rep' = [rep EXCEPT ![dst] = Combined(rep, op, ks)]
                 /\ abs' = [abs EXCEPT ![dst] = Meaning(op, ks)]
                 /\ UNCHANGED weight

SortOptions == [desc : BOOLEAN, alpha : BOOLEAN, by : {"no", "nosort", "pattern"}, get : BOOLEAN,
                limit : {<<0, -1>>, <<1, 1>>}, store : {TRUE}]

(* ALPHA with BY leaves the order of members with equal or no BY values    *)
(* to the sort.                                                            *)
Tied(o, S) == o.alpha /\ o.by = "pattern" /\ \E a, b \in S : a # b /\ weight[a] = weight[b]

(* The list SORT stores, with a history field: whether it had such ties.   *)
Stored(out, tied) == IF out = << >> THEN None ELSE [list |-> out, tied |-> tied]

(* Master and replica each sort their own copy.                            *)
Sort == /\ "sort" \in Uses
        /\ \E k \in Keys, dst \in Lists, o \in SortOptions :
               /\ ~Fails(Options(o), Members(db[k]))
               /\ \E m \in Outcomes(o, db[k]), r \in Outcomes(o, rep[k]) :
                      /\ db' = [db EXCEPT ![dst] = Stored(m, Tied(o, Members(db[k])))]
                      /\ rep' = [rep EXCEPT ![dst] = Stored(r, Tied(o, Members(rep[k])))]
               /\ UNCHANGED <<weight, abs>>

(* A restart from a dump: a set saved as a hash table is read member by    *)
(* member, and is an intset again when it is small and all are integers.   *)
rdbLoadSet(o) ==
    IF o = None \/ o.enc = "intset" THEN o
    ELSE FoldLeft(LAMBDA s, v : IF s.enc = "ht" THEN Table(s.ht \cup {v})
                                ELSE IF v \in Text THEN Table(setTypeConvert(s).ht \cup {v})
                                ELSE Intset(intsetAdd(s.is, v).is),
                  IF Cardinality(o.ht) > MaxIntset THEN Table({}) ELSE Intset(intsetNew), SetToSeq(o.ht))

(* A restart from a rewritten log.                                         *)
rewriteSetObject(o) == IF o = None THEN None ELSE saddCommand(None, Iterated(o))

Restart == /\ "restart" \in Uses
           /\ \/ db' = [k \in DOMAIN db |-> IF k \in Keys THEN rdbLoadSet(db[k]) ELSE db[k]]
              \/ db' = [k \in DOMAIN db |-> IF k \in Keys THEN rewriteSetObject(db[k]) ELSE db[k]]
           /\ UNCHANGED <<rep, weight, abs>>

Init == /\ db = [k \in Keys \cup Lists |-> None]
        /\ rep = [k \in Keys \cup Lists |-> None]
        /\ weight \in [Elements -> Weights \cup {None}]
        /\ abs = [k \in Keys |-> {}]

Next == SAdd \/ SRem \/ SMove \/ SPop \/ SStore \/ Sort \/ Restart

Spec == Init /\ [][Next]_vars

----------------------------------------------------------------------------
(* Properties.                                                             *)

(* Every set holds its members at both servers whatever its encoding; an   *)
(* intset is sorted, without duplicates, wide enough for each member and   *)
(* no larger than allowed; no empty set stays in the database (intset.c,   *)
(* setTypeAdd, setTypeConvert).                                            *)
HoldsTheMembers ==
    \A d \in {db, rep}, k \in Keys :
        /\ Members(d[k]) = abs[k]
        /\ d[k] # None =>
               /\ abs[k] # {}
               /\ setTypeSize(d[k]) = Cardinality(abs[k])
               /\ d[k].enc = "intset" =>
                      /\ Len(d[k].is.contents) = d[k].is.length * d[k].is.encoding
                      /\ d[k].is.length <= MaxIntset
                      /\ \A i \in 1 .. d[k].is.length - 1 : intsetGet(d[k].is, i - 1) < intsetGet(d[k].is, i)
                      /\ \A v \in abs[k] : v \notin Text /\ ValueEncoding(v) <= d[k].is.encoding

(* A replica that runs the propagated commands has the sets and the stored *)
(* lists of its master, though SPOP chooses at random and SORT walks a     *)
(* hash table in an order of its own (spopCommand, sortCompare).  The      *)
(* exception of the code: SORT BY ... ALPHA does not break the ties of     *)
(* equal or missing BY values, so that only these agree in each place.     *)
ReplicaAgrees ==
    /\ \A k \in Keys : Members(rep[k]) = Members(db[k])
    /\ \A k \in Lists :
           \/ rep[k] = db[k]
           \/ /\ db[k] # None /\ rep[k] # None /\ db[k].tied
              /\ LET by(l) == [i \in DOMAIN l.list |-> weight[l.list[i]]] IN by(rep[k]) = by(db[k])

(* SISMEMBER, SINTER, SUNION and SDIFF answer what set algebra says, for   *)
(* any two sets of any encodings, one of them missing or both the same     *)
(* (sinterGenericCommand, sunionDiffGenericCommand).                       *)
AlgebraAgrees ==
    /\ \A k \in Keys, v \in Elements : db[k] # None => (setTypeIsMember(db[k], v) <=> v \in abs[k])
    /\ \A op \in {"inter", "union", "diff"}, n \in 1 .. 4 : \A ks \in [1 .. n -> Keys] :
           Members(Combined(db, op, ks)) = Meaning(op, ks)

(* pqsort with LIMIT yields the part of the sorted sequence that was       *)
(* asked for, though it leaves the rest unsorted.                          *)
LimitIsASlice ==
    \A k \in Keys, desc \in BOOLEAN, limit \in {<<0, 1>>, <<1, 1>>, <<1, 2>>, <<2, 5>>} : db[k] # None =>
        LET o   == [desc |-> desc, alpha |-> FALSE, by |-> "pattern", get |-> FALSE, limit |-> limit, store |-> FALSE]
            s   == Iterated(db[k])
            all == SortSeq(s, LAMBDA a, b : sortCompare(o, a, b) < 0)
            w   == Window(Len(s), limit)
        IN  Sorted(o, s) = SubSeq(all, w[1] + 1, w[2] + 1)
============================================================================
