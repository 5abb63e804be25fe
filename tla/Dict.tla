-------------------------------- MODULE Dict --------------------------------
(***************************************************************************)
(* The hash table of dict.c: two tables while it is being rehashed, a      *)
(* bucket at a time, by the operations that use it; iterators that stop    *)
(* the rehashing; and dictScan, whose only state is the cursor the caller  *)
(* keeps between calls.                                                    *)
(*                                                                         *)
(* A table is a function from indexes to chains of keys; "used" is the     *)
(* number of keys in it.  Values are left out.                             *)
(***************************************************************************)
EXTENDS Integers, SequencesExt, FiniteSetsExt

CONSTANTS Keys,
          Hash,          \* Hash[k], below 2^W
          W,             \* the width of a cursor in bits
          InitialSize,   \* DICT_HT_INITIAL_SIZE
          ForceRatio,    \* dict_force_resize_ratio
          MinFill,       \* HASHTABLE_MIN_FILL, in percent
          EmptyVisits,   \* empty buckets a rehashing step passes at most
          MaxSize        \* bound: no table is larger

VARIABLES d,      \* the dictionary: ht0, ht1, rehashidx, iterators
          can,    \* dict_can_resize
          scan,   \* a caller of dictScan: its cursor, what it must see and has seen
          iter,   \* a caller of a safe iterator, likewise
          answer  \* what the last call returned

vars == <<d, can, scan, iter, answer>>

NoTable == [i \in {} |-> << >>]
NewTable(n) == [i \in 0 .. n - 1 |-> << >>]
Size(t) == Cardinality(DOMAIN t)
KeysOf(t) == UNION {ToSet(t[i]) : i \in DOMAIN t}
Used(t) == MapThenSumSet(LAMBDA i : Len(t[i]), DOMAIN t)
dictKeys(x) == KeysOf(x.ht0) \cup KeysOf(x.ht1)
dictIsRehashing(x) == x.rehashidx # -1
Idle == [on |-> FALSE]

Init ==
  /\ d = [ht0 |-> NoTable, ht1 |-> NoTable, rehashidx |-> -1, iterators |-> 0]
  /\ can = TRUE
  /\ scan = Idle
  /\ iter = Idle
  /\ answer = "none"

\* _dictNextPower
NextPower(n) == InitialSize * 2 ^ Min({e \in 0 .. W : InitialSize * 2 ^ e >= n})

dictExpand(x, n) ==
  IF dictIsRehashing(x) \/ Used(x.ht0) > n \/ NextPower(n) = Size(x.ht0) THEN x
  ELSE IF Size(x.ht0) = 0 THEN [x EXCEPT !.ht0 = NewTable(NextPower(n))]
  ELSE [x EXCEPT !.ht1 = NewTable(NextPower(n)), !.rehashidx = 0]

dictResize(x) ==
  IF ~can \/ dictIsRehashing(x) THEN x
  ELSE dictExpand(x, Max({Used(x.ht0), InitialSize}))

\* Everything of bucket i of the old table goes to the front of its new bucket.
MoveBucket(x, i) ==
  [x EXCEPT !.ht0[i] = << >>,
            !.ht1 = [j \in DOMAIN x.ht1 |->
                       Reverse(SelectSeq(x.ht0[i], LAMBDA k : Hash[k] % Size(x.ht1) = j))
                         \o x.ht1[j]],
            !.rehashidx = i + 1]

\* The new table takes the place of the old one when that is empty.
FinishRehash(x) ==
  IF Used(x.ht0) = 0
  THEN [x EXCEPT !.ht0 = x.ht1, !.ht1 = NoTable, !.rehashidx = -1]
  ELSE x

\* dictRehash: at most n buckets, and at most EmptyVisits times n empty ones.
RECURSIVE RehashLoop(_, _, _)
RehashLoop(x, n, visits) ==
  IF n = 0 \/ Used(x.ht0) = 0 THEN FinishRehash(x)
  ELSE LET i == Min({j \in DOMAIN x.ht0 : j >= x.rehashidx /\ x.ht0[j] # << >>})
       IN  IF i - x.rehashidx >= visits THEN [x EXCEPT !.rehashidx = @ + visits]
           ELSE RehashLoop(MoveBucket(x, i), n - 1, visits - (i - x.rehashidx))

dictRehash(x, n) ==
  IF dictIsRehashing(x) THEN RehashLoop(x, n, n * EmptyVisits) ELSE x

\* _dictRehashStep
RehashStep(x) == IF x.iterators = 0 THEN dictRehash(x, 1) ELSE x

\* _dictExpandIfNeeded
ExpandIfNeeded(x) ==
  IF dictIsRehashing(x) THEN x
  ELSE IF Size(x.ht0) = 0 THEN dictExpand(x, InitialSize)
  ELSE IF Used(x.ht0) >= Size(x.ht0) /\ (can \/ Used(x.ht0) \div Size(x.ht0) > ForceRatio)
       THEN dictExpand(x, 2 * Used(x.ht0))
       ELSE x

\* Variant: only the bucket of the old table is looked at.
Holds_old_only(x, k) ==
  Size(x.ht0) > 0 /\ k \in ToSet(x.ht0[Hash[k] % Size(x.ht0)])

\* The search of dictFind, _dictKeyIndex and dictGenericDelete: the bucket of the
\* old table and, while rehashing, that of the new one.
Holds(x, k) ==
  \/ Size(x.ht0) > 0 /\ k \in ToSet(x.ht0[Hash[k] % Size(x.ht0)])
  \/ dictIsRehashing(x) /\ k \in ToSet(x.ht1[Hash[k] % Size(x.ht1)])

\* dictAddRaw: at the front of the chain, in the new table while rehashing.
AddRaw(y, k) ==
  LET x == ExpandIfNeeded(RehashStep(y))
  IN  IF Holds(x, k) THEN x
      ELSE IF dictIsRehashing(x)
           THEN [x EXCEPT !.ht1[Hash[k] % Size(x.ht1)] = <<k>> \o @]
           ELSE [x EXCEPT !.ht0[Hash[k] % Size(x.ht0)] = <<k>> \o @]

Without(t, k) == [i \in DOMAIN t |-> IF i = Hash[k] % Size(t)
                                     THEN SelectSeq(t[i], LAMBDA j : j # k) ELSE t[i]]

\* dictGenericDelete
GenericDelete(y, k) ==
  LET x == RehashStep(y)
  IN  IF Used(y.ht0) = 0 /\ Used(y.ht1) = 0 THEN y
      ELSE [x EXCEPT !.ht0 = Without(@, k), !.ht1 = Without(@, k)]

\* The keys a random bucket and a random position in its chain can give.  While
\* rehashing, the buckets before rehashidx are not drawn.
RandomKeys(x) ==
  IF dictIsRehashing(x)
  THEN UNION {ToSet(x.ht0[i]) : i \in {j \in DOMAIN x.ht0 : j >= x.rehashidx}} \cup KeysOf(x.ht1)
  ELSE KeysOf(x.ht0)

Bit(v, i) == (v \div 2 ^ i) % 2
rev(v) == MapThenSumSet(LAMBDA i : Bit(v, i) * 2 ^ (W - 1 - i), 0 .. W - 1)

\* Variant: the cursor is incremented from its low bits.
Advance_forward(v, n) == IF v + 1 >= n THEN 0 ELSE v + 1

\* The bits above the mask are set and the reversed cursor is incremented.
Advance(v, n) == rev((rev((v % n) + 2 ^ W - n) + 1) % 2 ^ W)

\* The loop over the larger table: all expansions of the cursor's bucket.
RECURSIVE Expansions(_, _, _, _)
Expansions(v, small, large, got) ==
  LET w == Advance(v, Size(large))
      g == got \cup ToSet(large[v % Size(large)])
  IN  IF (w % Size(large)) \div small # 0 THEN Expansions(w, small, large, g)
      ELSE [cursor |-> w, got |-> g]

\* dictScan: the next cursor and the keys handed to the callback.
dictScan(x, v) ==
  LET small == IF Size(x.ht0) > Size(x.ht1) THEN x.ht1 ELSE x.ht0
      large == IF Size(x.ht0) > Size(x.ht1) THEN x.ht0 ELSE x.ht1
  IN  IF dictKeys(x) = {} THEN [cursor |-> 0, got |-> {}]
      ELSE IF ~dictIsRehashing(x)
           THEN [cursor |-> Advance(v, Size(x.ht0)), got |-> ToSet(x.ht0[v % Size(x.ht0)])]
           ELSE Expansions(v, Size(small), large, ToSet(small[v % Size(small)]))
-----------------------------------------------------------------------------
\* What a deletion or an insertion means to the callers that are iterating.
Dropped(k) ==
  /\ scan' = IF scan.on THEN [scan EXCEPT !.must = @ \ {k}] ELSE scan
  /\ iter' = IF iter.on THEN [iter EXCEPT !.must = @ \ {k}] ELSE iter

\* An iterator's user may delete the entry it was just given, and nothing else.
MayDelete(k) == iter.on => k = iter.entry

dictAdd(k) ==
  /\ Size(AddRaw(d, k).ht1) <= MaxSize
  /\ answer' = IF Holds(d, k) THEN "err" ELSE "ok"
  /\ d' = AddRaw(d, k)
  /\ UNCHANGED <<can, scan, iter>>

dictDelete(k) ==
  /\ MayDelete(k)
  /\ answer' = IF Holds(d, k) THEN "ok" ELSE "err"
  /\ d' = GenericDelete(d, k)
  /\ Dropped(k)
  /\ UNCHANGED can

dictFind(k) ==
  /\ d' = IF dictKeys(d) = {} THEN d ELSE RehashStep(d)
  /\ answer' = IF dictKeys(d) # {} /\ Holds(RehashStep(d), k) THEN "ok" ELSE "err"
  /\ UNCHANGED <<can, scan, iter>>

dictGetRandomKey ==
  /\ d' = IF dictKeys(d) = {} THEN d ELSE RehashStep(d)
  /\ answer' \in (IF dictKeys(d) = {} THEN {"err"} ELSE RandomKeys(RehashStep(d)))
  /\ UNCHANGED <<can, scan, iter>>

\* FLUSHDB and the like, never from within an iteration.
dictEmpty ==
  /\ ~iter.on
  /\ d' = [ht0 |-> NoTable, ht1 |-> NoTable, rehashidx |-> -1, iterators |-> 0]
  /\ scan' = IF scan.on THEN [scan EXCEPT !.must = {}] ELSE scan
  /\ answer' = "ok"
  /\ UNCHANGED <<can, iter>>

htNeedsResize(x) ==
  LET size == Size(x.ht0) + Size(x.ht1)
  IN  size > InitialSize /\ ((Used(x.ht0) + Used(x.ht1)) * 100) \div size < MinFill

\* serverCron, between commands: shrink a sparse table, rehash for a millisecond,
\* and allow resizing only while there is no child process.
databasesCron ==
  /\ ~iter.on
  /\ \/ htNeedsResize(d) /\ d' = dictResize(d) /\ UNCHANGED can
     \/ d' = dictRehash(d, 100) /\ UNCHANGED can
     \/ can' = ~can /\ UNCHANGED d
  /\ UNCHANGED <<scan, iter, answer>>

scanStart ==
  /\ ~scan.on
  /\ scan' = [on |-> TRUE, cursor |-> 0, must |-> dictKeys(d), got |-> {}]
  /\ UNCHANGED <<d, can, iter, answer>>

scanStep ==
  LET r == dictScan(d, scan.cursor)
  IN  /\ scan.on /\ (scan.cursor # 0 \/ scan.got = {})
      /\ scan' = [scan EXCEPT !.cursor = r.cursor, !.got = @ \cup r.got \cup {"called"}]
      /\ UNCHANGED <<d, can, iter, answer>>

scanEnd ==
  /\ scan.on /\ scan.cursor = 0 /\ scan.got # {}
  /\ scan' = Idle
  /\ UNCHANGED <<d, can, iter, answer>>

\* The table an iterator is in, and where dictNext goes from a bucket's end: on in
\* the table, then to the new table if there is one by then.
Table(x, t) == IF t = 0 THEN x.ht0 ELSE x.ht1

NextPlace(x, t, i) ==
  {<<t, j>> : j \in {j \in DOMAIN Table(x, t) : j >= i /\ Table(x, t)[j] # << >>}}
    \cup (IF t = 0 /\ dictIsRehashing(x)
          THEN {<<1, j>> : j \in {j \in DOMAIN x.ht1 : x.ht1[j] # << >>}} ELSE {})

First(places) == CHOOSE p \in places : \A q \in places : p[1] < q[1] \/ (p[1] = q[1] /\ p[2] <= q[2])

After(chain, k) == LET i == CHOOSE i \in DOMAIN chain : chain[i] = k
                   IN  IF i < Len(chain) THEN chain[i + 1] ELSE "null"

iterStart ==
  /\ ~iter.on
  /\ iter' = [on |-> TRUE, table |-> 0, index |-> -1, entry |-> "null", next |-> "null",
              must |-> dictKeys(d), got |-> << >>]
  /\ UNCHANGED <<d, can, scan, answer>>

\* The iterator is counted when dictNext is first called.
Counted == ~(iter.index = -1 /\ iter.table = 0)

\* dictNext: the saved next entry of the chain, else the first of the next bucket.
iterNext ==
  LET places == NextPlace(d, iter.table, iter.index + 1)
      p      == IF iter.next # "null" THEN <<iter.table, iter.index>> ELSE First(places)
      chain  == Table(d, p[1])[p[2]]
      k      == IF iter.next # "null" THEN iter.next ELSE Head(chain)
  IN  /\ iter.on /\ (iter.next # "null" \/ places # {})
      /\ iter' = [iter EXCEPT !.table = p[1], !.index = p[2], !.entry = k,
                              !.next = After(chain, k), !.got = Append(@, k)]
      /\ d' = IF Counted THEN d ELSE [d EXCEPT !.iterators = @ + 1]
      /\ UNCHANGED <<can, scan, answer>>

\* dictReleaseIterator, when dictNext has returned NULL.
iterEnd ==
  /\ iter.on /\ iter.next = "null" /\ NextPlace(d, iter.table, iter.index + 1) = {}
  /\ iter' = Idle
  /\ d' = IF Counted THEN [d EXCEPT !.iterators = @ - 1] ELSE d
  /\ UNCHANGED <<can, scan, answer>>

Scanning == scanStart \/ scanStep \/ scanEnd
Iterating == iterStart \/ iterNext \/ iterEnd

Next ==
  \/ \E k \in Keys : dictAdd(k) \/ dictDelete(k) \/ dictFind(k)
  \/ dictGetRandomKey \/ dictEmpty \/ databasesCron
  \/ Scanning \/ Iterating

Spec == Init /\ [][Next]_vars
-----------------------------------------------------------------------------
\* Every key is in the one bucket its hash selects, and the buckets of the old table
\* before rehashidx are empty, which the searches and the random draws rely on.
TypeOK ==
  /\ \A i \in DOMAIN d.ht0 : \A k \in ToSet(d.ht0[i]) : Hash[k] % Size(d.ht0) = i
  /\ \A i \in DOMAIN d.ht1 : \A k \in ToSet(d.ht1[i]) : Hash[k] % Size(d.ht1) = i
  /\ d.iterators \in 0 .. 1
  /\ dictIsRehashing(d) =>
       d.rehashidx \in DOMAIN d.ht0 /\ \A i \in 0 .. d.rehashidx - 1 : d.ht0[i] = << >>

\* No key is stored twice, in a chain, in two buckets or in both tables, at any point
\* of a rehashing.
NoDuplicates ==
  Used(d.ht0) + Used(d.ht1) = Cardinality(dictKeys(d))

\* dictScan's guarantee: when the cursor is back at 0, every key that was in the
\* table from the start of the iteration to its end has been returned, however the
\* table grew, shrank and was rehashed between the calls.
ScanComplete ==
  scan.on /\ scan.cursor = 0 /\ scan.got # {} => scan.must \subseteq scan.got

\* A safe iterator returns no key twice that stays in the table, although its user
\* deletes entries and other calls insert and look up keys meanwhile.
IteratorNoRepeat ==
  iter.on => \A i, j \in DOMAIN iter.got :
               i # j /\ iter.got[i] = iter.got[j] => iter.got[i] \notin iter.must

\* And it ends having returned every key that was there all along.
IteratorComplete ==
  iter.on /\ iter.next = "null" /\ NextPlace(d, iter.table, iter.index + 1) = {}
    => iter.must \subseteq ToSet(iter.got)

Abstract == INSTANCE KeySet WITH keys <- dictKeys(d)

\* The table with its two halves, its rehashing steps and its iterators is a set of
\* keys to its callers.
ImplementsKeySetStep == Abstract!Next \/ UNCHANGED <<dictKeys(d), answer>>
ImplementsKeySet == Abstract!Spec
=============================================================================
