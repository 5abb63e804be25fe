------------------------------- MODULE Lists -------------------------------
(***************************************************************************)
(* Lists (t_list.c, quicklist.c): a key holds a quicklist, a doubly linked *)
(* list of nodes that each hold a ziplist of some elements.  Nodes beyond  *)
(* list-compress-depth from both ends may be held compressed; a node that  *)
(* is read or changed is decompressed first, and marked to be compressed   *)
(* again.  The linked list is the sequence of its nodes and a ziplist the  *)
(* sequence of its entries; sizes in bytes are kept up to a constant.      *)
(***************************************************************************)
EXTENDS Integers, Sequences, FiniteSets, SequencesExt, FiniteSetsExt

CONSTANTS Keys, Values,
          Large,          \* the values of LargeBytes bytes, the others have 1
          LargeBytes,
          ByCount,        \* list-max-ziplist-size: a number of entries, or of bytes
          Fill,
          Safety,         \* SIZE_SAFETY_LIMIT
          Depth,          \* list-compress-depth
          MinCompress,    \* MIN_COMPRESS_BYTES
          Uses,           \* the commands clients send
          Indexes,        \* the indexes they name
          MaxLen,         \* bound on the length of a list
          None

VARIABLES db,             \* the quicklist of each key, or None
          abs             \* the sequence it stands for

vars == <<db, abs>>

----------------------------------------------------------------------------
(* Nodes.                                                                  *)

Bytes(v) == IF v \in Large THEN LargeBytes ELSE 1

BlobLen(zl) == FoldLeft(LAMBDA n, v : n + Bytes(v), 0, zl)

quicklistCreateNode(zl) == [zl |-> zl, sz |-> BlobLen(zl), count |-> Len(zl), lzf |-> FALSE, recompress |-> FALSE]

(* Two history fields.  bad: the bytes of a compressed node were used as a *)
(* ziplist, so that anything may follow.  stale: a node at an end was      *)
(* compressed, for a mark it got when it was an inner node.                *)
quicklistCreate == [nodes |-> << >>, count |-> 0, bad |-> FALSE, stale |-> FALSE]

(* Every value of MIN_COMPRESS_BYTES or more is taken to compress well.    *)
quicklistCompressNode(node) ==
    IF ~node.lzf /\ node.sz >= MinCompress THEN [node EXCEPT !.lzf = TRUE, !.recompress = FALSE] ELSE node

quicklistDecompressNode(node) == [node EXCEPT !.lzf = FALSE]

quicklistDecompressNodeForUse(node) ==
    IF node.lzf THEN [node EXCEPT !.lzf = FALSE, !.recompress = TRUE] ELSE node

ForUse(ql, n) == [ql EXCEPT !.nodes[n] = quicklistDecompressNodeForUse(@)]

RecompressOnly(ql, n) ==
    [ql EXCEPT !.nodes[n] = IF @.recompress THEN quicklistCompressNode(@) ELSE @,
               !.stale = @ \/ (ql.nodes[n].recompress /\ n \in {1, Len(ql.nodes)})]

(* The nodes within Depth of an end are decompressed, n (0 for none) is    *)
(* compressed unless it is one of them, and so are the next ones inwards.  *)
(* len is the length as it was before the insertion or deletion that is    *)
(* under way.                                                              *)
CompressEnds(ql, len, n) ==
    LET N      == Len(ql.nodes)
        meet   == N % 2 = 1 /\ (N + 1) \div 2 <= Depth
        reach  == IF meet THEN (N + 1) \div 2 ELSE Depth
        raw    == 1 .. reach \cup (N + 1 - reach) .. N
        packed == (IF n = 0 \/ n \in raw THEN {} ELSE {n})
                  \cup (IF Depth > 1 THEN {Depth + 1, N - Depth} \cap 1 .. N ELSE {})
        On(S, Op(_), nodes) == FoldSet(LAMBDA i, s : [s EXCEPT ![i] = Op(@)], nodes, S)
        first  == On(raw, quicklistDecompressNode, ql.nodes)
    IN  IF Depth = 0 \/ len < 2 * Depth THEN ql
        ELSE [ql EXCEPT !.nodes = IF meet THEN first ELSE On(packed, quicklistCompressNode, first)]

quicklistCompress(ql, len, n) ==
    IF ql.nodes[n].recompress THEN RecompressOnly(ql, n) ELSE CompressEnds(ql, len, n)

(* Node new beside node old (0 for none).                                  *)
InsertNode(ql, old, new, after) ==
    LET at  == IF after THEN old + 1 ELSE IF old = 0 THEN 1 ELSE old
        ins == [ql EXCEPT !.nodes = InsertAt(@, at, new)]
    IN  IF old = 0 THEN ins
        ELSE quicklistCompress(ins, Len(ql.nodes), IF after THEN old ELSE old + 1)

DelNode(ql, n) ==
    [CompressEnds([ql EXCEPT !.nodes = RemoveAt(@, n)], Len(ql.nodes), 0) EXCEPT !.count = @ - ql.nodes[n].count]

(* The ziplist of node n becomes zl, with the number of entries given.     *)
SetZl(ql, n, zl, count) ==
    [ql EXCEPT !.bad = @ \/ ql.nodes[n].lzf,
               !.nodes[n] = [@ EXCEPT !.zl = zl, !.sz = BlobLen(zl), !.count = count]]

AllowInsert(ql, n, v) ==
    /\ n \in DOMAIN ql.nodes
    /\ LET sz == ql.nodes[n].sz + Bytes(v)
       IN  IF ByCount THEN sz <= Safety /\ ql.nodes[n].count < Fill ELSE sz <= Fill

AllowMerge(ql, a, b) ==
    /\ {a, b} \subseteq DOMAIN ql.nodes
    /\ LET sz == ql.nodes[a].sz + ql.nodes[b].sz
       IN  IF ByCount THEN sz <= Safety /\ ql.nodes[a].count + ql.nodes[b].count <= Fill ELSE sz <= Fill

quicklistPushHead(ql, v) ==
    LET N   == Len(ql.nodes)
        put == IF AllowInsert(ql, 1, v)
               THEN SetZl(ql, 1, <<v>> \o ql.nodes[1].zl, ql.nodes[1].count)
               ELSE InsertNode(ql, IF N = 0 THEN 0 ELSE 1, [quicklistCreateNode(<<v>>) EXCEPT !.count = 0], FALSE)
    IN  [put EXCEPT !.count = @ + 1, !.nodes[1].count = @ + 1]

quicklistPushTail(ql, v) ==
    LET N   == Len(ql.nodes)
        put == IF AllowInsert(ql, N, v)
               THEN SetZl(ql, N, Append(ql.nodes[N].zl, v), ql.nodes[N].count)
               ELSE InsertNode(ql, N, [quicklistCreateNode(<<v>>) EXCEPT !.count = 0], TRUE)
    IN  [put EXCEPT !.count = @ + 1, !.nodes[Len(put.nodes)].count = @ + 1]

quicklistAppendZiplist(ql, zl) ==
    [InsertNode(ql, Len(ql.nodes), quicklistCreateNode(zl), TRUE) EXCEPT !.count = @ + Len(zl)]

(* Entry p of node n is deleted, and the node with its last entry.         *)
quicklistDelIndex(ql, n, p) ==
    LET cut == SetZl(ql, n, RemoveAt(ql.nodes[n].zl, p), ql.nodes[n].count - 1)
    IN  [(IF cut.nodes[n].count = 0 THEN DelNode(cut, n) ELSE cut) EXCEPT !.count = @ - 1]

(* The position of an entry; negative offsets count from the last one.     *)
ziplistIndex(zl, offset) ==
    LET p == IF offset < 0 THEN Len(zl) + 1 + offset ELSE offset + 1
    IN  IF p \in DOMAIN zl THEN p ELSE None

quicklistIndex(ql, idx) ==
    LET index  == IF idx < 0 THEN -idx - 1 ELSE idx
        N      == Len(ql.nodes)
        nth(i) == IF idx < 0 THEN N + 1 - i ELSE i
        accum  == [i \in 0 .. N |-> FoldLeft(LAMBDA s, j : s + ql.nodes[nth(j)].count, 0, [j \in 1 .. i |-> j])]
        hits   == {i \in 1 .. N : accum[i] > index}
        i      == Min(hits)
        rest   == index - accum[i - 1]
    IN  IF index >= ql.count \/ hits = {} THEN None
        ELSE [node |-> nth(i), offset |-> IF idx < 0 THEN -rest - 1 ELSE rest]

(* An entry found by its index; its node is decompressed for use.          *)
quicklistReplaceAtIndex(ql, idx, v) ==
    LET e   == quicklistIndex(ql, idx)
        use == ForUse(ql, e.node)
        zl  == use.nodes[e.node].zl
        p   == ziplistIndex(zl, e.offset)
    IN  IF e = None THEN ql
        ELSE quicklistCompress(SetZl(use, e.node, ReplaceAt(zl, p, v), use.nodes[e.node].count), Len(ql.nodes), e.node)

----------------------------------------------------------------------------
(* Insertion in the middle.                                                *)

(* Nodes a and a + 1 become one; the node with more entries is the one     *)
(* that stays.                                                             *)
ZiplistMerge(ql, a) ==
    LET b    == a + 1
        raw  == [ql EXCEPT !.nodes[a] = quicklistDecompressNode(@), !.nodes[b] = quicklistDecompressNode(@)]
        zl   == raw.nodes[a].zl \o raw.nodes[b].zl
        keep == IF Len(raw.nodes[a].zl) >= Len(raw.nodes[b].zl) THEN a ELSE b
        gone == IF keep = a THEN b ELSE a
        one  == SetZl([raw EXCEPT !.nodes[gone].count = 0], keep, zl, Len(zl))
    IN  quicklistCompress(DelNode(one, gone), Len(ql.nodes) - 1, a)

MergeIf(ql, a) == IF AllowMerge(ql, a, a + 1) THEN ZiplistMerge(ql, a) ELSE ql

(* The two nodes before center, the two after it, then center with its     *)
(* neighbours; center moves when nodes before it are merged.               *)
MergeAt(x, off) ==
    LET q == MergeIf(x.ql, x.center + off)
    IN  [ql |-> q, center |-> IF off < 0 /\ Len(q.nodes) < Len(x.ql.nodes) THEN x.center - 1 ELSE x.center]

MergeNodes(ql, center) == FoldLeft(MergeAt, [ql |-> ql, center |-> center], <<-2, 1, -1, 0>>).ql

(* The entries kept in the node, and those that move to a new one.         *)
SplitNode(zl, offset, after) ==
    IF after THEN <<SubSeq(zl, 1, offset + 1), SubSeq(zl, offset + 2, Len(zl))>>
    ELSE <<SubSeq(zl, offset + 1, Len(zl)), SubSeq(zl, 1, offset)>>

(* v before or after entry [node, offset].                                 *)
quicklistInsert(ql, e, v, after) ==
    LET n     == e.node
        node  == ql.nodes[n]
        full  == ~AllowInsert(ql, n, v)
        tail  == after /\ e.offset = node.count
        head  == ~after /\ e.offset = 0
        side  == IF after THEN n + 1 ELSE n - 1
        edge  == (tail \/ head) /\ side \in DOMAIN ql.nodes
        use(q, i, zl) == RecompressOnly(SetZl(ForUse(q, i), i, zl, q.nodes[i].count + 1), i)
        put   == IF ~full THEN use(ql, n, InsertAt(node.zl, e.offset + (IF after THEN 2 ELSE 1), v))
                 ELSE IF edge /\ AllowInsert(ql, side, v)
                 THEN use(ql, side, IF after THEN <<v>> \o ql.nodes[side].zl ELSE Append(ql.nodes[side].zl, v))
                 ELSE IF edge THEN InsertNode(ql, n, quicklistCreateNode(<<v>>), after)
                 ELSE LET halves == SplitNode(node.zl, e.offset, after)
                          cut    == SetZl(ForUse(ql, n), n, halves[1], Len(halves[1]))
                          new    == quicklistCreateNode(IF after THEN <<v>> \o halves[2] ELSE Append(halves[2], v))
                      IN  MergeNodes(InsertNode(cut, n, new, after), IF after THEN n ELSE n + 1)
    IN  [put EXCEPT !.count = @ + 1]

----------------------------------------------------------------------------
(* Deletion of a range.                                                    *)

(* From offset in node n on, extent entries.                               *)
RECURSIVE DelFrom(_, _, _, _)
DelFrom(ql, n, offset, extent) ==
    LET node   == ql.nodes[n]
        entire == offset = 0 /\ extent >= node.count
        del    == IF entire THEN node.count
                  ELSE IF offset >= 0 /\ extent >= node.count THEN node.count - offset
                  ELSE IF offset < 0 THEN IF -offset > extent THEN extent ELSE -offset
                  ELSE extent
        use    == ForUse(ql, n)
        p      == ziplistIndex(node.zl, offset)
        left   == SubSeq(node.zl, 1, p - 1) \o SubSeq(node.zl, p + del, Len(node.zl))
        cut    == [SetZl(use, n, left, node.count - del) EXCEPT !.count = @ - del]
        empty  == cut.nodes[n].count = 0
        next   == IF entire THEN DelNode(ql, n) ELSE IF empty THEN DelNode(cut, n) ELSE RecompressOnly(cut, n)
    IN  IF extent = 0 \/ n > Len(ql.nodes) THEN ql
        ELSE DelFrom(next, IF entire \/ empty THEN n ELSE n + 1, 0, extent - del)

quicklistDelRange(ql, start, count) ==
    LET extent == IF start >= 0 /\ count > ql.count - start THEN ql.count - start
                  ELSE IF start < 0 /\ count > -start THEN -start ELSE count
        e      == quicklistIndex(ql, start)
    IN  IF count <= 0 \/ e = None THEN ql
        ELSE DelFrom(ForUse(ql, e.node), e.node, e.offset, extent)

----------------------------------------------------------------------------
(* Iteration: the node (None when done), the offset in it, and the         *)
(* position of the last entry returned, None at a new node.                *)

quicklistGetIteratorAtIdx(ql, forward, idx) ==
    LET e == quicklistIndex(ql, idx)
    IN  IF e = None THEN None ELSE [node |-> e.node, offset |-> e.offset, zi |-> None, fwd |-> forward]

RECURSIVE quicklistNext(_, _)
quicklistNext(ql, it) ==
    LET use  == IF it.zi = None THEN ForUse(ql, it.node) ELSE ql
        zl   == use.nodes[it.node].zl
        step == IF it.fwd THEN 1 ELSE -1
        off  == IF it.zi = None THEN it.offset ELSE it.offset + step
        zi   == IF it.zi = None THEN ziplistIndex(zl, it.offset)
                ELSE IF it.zi + step \in DOMAIN zl THEN it.zi + step ELSE None
        read == [use EXCEPT !.bad = @ \/ use.nodes[it.node].lzf]
        over == quicklistCompress(read, Len(ql.nodes), it.node)
        next == it.node + step
    IN  IF it.node = None THEN [ql |-> ql, it |-> it, entry |-> None]
        ELSE IF zi # None
        THEN [ql |-> read, it |-> [it EXCEPT !.zi = zi, !.offset = off],
              entry |-> [node |-> it.node, offset |-> off, zi |-> zi, value |-> zl[zi]]]
        ELSE quicklistNext(over, [it EXCEPT !.node = IF next \in DOMAIN ql.nodes THEN next ELSE None,
                                            !.offset = IF it.fwd THEN 0 ELSE -1, !.zi = None])

(* The entry just returned is deleted.                                     *)
quicklistDelEntry(ql, it, e) ==
    LET del  == quicklistDelIndex(ql, e.node, e.zi)
        gone == Len(del.nodes) < Len(ql.nodes)
        next == IF it.fwd THEN e.node ELSE e.node - 1
    IN  [ql |-> del,
         it |-> IF ~gone THEN [it EXCEPT !.zi = None]
                ELSE [it EXCEPT !.node = IF next \in DOMAIN del.nodes THEN next ELSE None,
                                !.offset = IF it.fwd THEN 0 ELSE -1, !.zi = None]]

----------------------------------------------------------------------------
(* Commands.                                                               *)

pushGenericCommand(ql, v, head) ==
    LET l == IF ql = None THEN quicklistCreate ELSE ql
    IN  IF head THEN quicklistPushHead(l, v) ELSE quicklistPushTail(l, v)

quicklistPopCustom(ql, head) ==
    LET n == IF head THEN 1 ELSE Len(ql.nodes)
    IN  quicklistDelIndex(ql, n, ziplistIndex(ql.nodes[n].zl, IF head THEN 0 ELSE -1))

Popped(ql, head) == LET n == IF head THEN 1 ELSE Len(ql.nodes)
                        zl == ql.nodes[n].zl IN zl[ziplistIndex(zl, IF head THEN 0 ELSE -1)]

(* A list that has become empty is removed from the database.              *)
Kept(ql) == IF ql.count = 0 THEN None ELSE ql

RECURSIVE InsertAtPivot(_, _, _, _, _)
InsertAtPivot(ql, it, pivot, v, after) ==
    LET r == quicklistNext(ql, it)
    IN  IF r.entry = None THEN r.ql
        ELSE IF r.entry.value = pivot THEN quicklistInsert(r.ql, r.entry, v, after)
        ELSE InsertAtPivot(r.ql, r.it, pivot, v, after)

linsertCommand(ql, pivot, v, after) ==
    InsertAtPivot(ql, quicklistGetIteratorAtIdx(ql, TRUE, 0), pivot, v, after)

(* What LTRIM keeps, as the numbers of elements cut at the two ends.       *)
Trims(llen, start0, end0) ==
    LET start == IF start0 < 0 THEN IF llen + start0 < 0 THEN 0 ELSE llen + start0 ELSE start0
        end   == IF end0 < 0 THEN llen + end0 ELSE end0
    IN  IF start > end \/ start >= llen THEN <<llen, 0>>
        ELSE <<start, IF end >= llen THEN 0 ELSE llen - end - 1>>

ltrimCommand(ql, start, end) ==
    LET t == Trims(ql.count, start, end)
    IN  Kept(quicklistDelRange(quicklistDelRange(ql, 0, t[1]), -t[2], t[2]))

RECURSIVE RemoveMatching(_, _, _, _)
RemoveMatching(ql, it, v, left) ==
    LET r   == quicklistNext(ql, it)
        del == quicklistDelEntry(r.ql, r.it, r.entry)
    IN  IF r.entry = None THEN r.ql
        ELSE IF r.entry.value # v THEN RemoveMatching(r.ql, r.it, v, left)
        ELSE IF left = 1 THEN del.ql
        ELSE RemoveMatching(del.ql, del.it, v, left - 1)

(* A count of 0 removes all of them, a negative one works from the tail.   *)
lremCommand(ql, count, v) ==
    LET it == IF count < 0 THEN quicklistGetIteratorAtIdx(ql, FALSE, -1) ELSE quicklistGetIteratorAtIdx(ql, TRUE, 0)
    IN  Kept(RemoveMatching(ql, it, v, IF count < 0 THEN -count ELSE count))

RECURSIVE Read(_, _, _, _)
Read(ql, it, n, got) ==
    LET r == quicklistNext(ql, it)
    IN  IF n = 0 THEN [ql |-> ql, reply |-> got] ELSE Read(r.ql, r.it, n - 1, Append(got, r.entry.value))

lrangeCommand(ql, start, end) ==
    LET t == Trims(ql.count, start, end)
        n == ql.count - t[1] - t[2]
    IN  IF n = 0 THEN [ql |-> ql, reply |-> << >>]
        ELSE Read(ql, quicklistGetIteratorAtIdx(ForUse(ql, quicklistIndex(ql, t[1]).node), TRUE, t[1]), n, << >>)

lindexCommand(ql, idx) ==
    LET e   == quicklistIndex(ql, idx)
        use == ForUse(ql, e.node)
    IN  IF e = None THEN [ql |-> ql, reply |-> None]
        ELSE [ql |-> use, reply |-> use.nodes[e.node].zl[ziplistIndex(use.nodes[e.node].zl, e.offset)]]

(* The list is written to a dump node by node and loaded again.            *)
rdbReload(ql) == FoldLeft(LAMBDA q, node : quicklistAppendZiplist(q, node.zl), quicklistCreate, ql.nodes)

(* The AOF rewrite emits the elements with RPUSH.                          *)
rewriteListObject(ql) ==
    FoldLeft(LAMBDA q, v : pushGenericCommand(q, v, FALSE), None,
             Read(ql, quicklistGetIteratorAtIdx(ql, TRUE, 0), ql.count, << >>).reply)

----------------------------------------------------------------------------
(* Behaviour, with what each command means for the sequence.               *)

Sets(k, ql, seq) == /\ db' = [db EXCEPT ![k] = ql]
                    /\ abs' = [abs EXCEPT ![k] = seq]

Room(k) == Len(abs[k]) < MaxLen

Push == /\ "push" \in Uses
        /\ \E k \in Keys, v \in Values, head \in BOOLEAN :
               /\ Room(k)
               /\ Sets(k, pushGenericCommand(db[k], v, head), IF head THEN <<v>> \o abs[k] ELSE Append(abs[k], v))

Pop == /\ "pop" \in Uses
       /\ \E k \in Keys, head \in BOOLEAN :
              /\ db[k] # None
              /\ Sets(k, Kept(quicklistPopCustom(db[k], head)), IF head THEN Tail(abs[k]) ELSE Front(abs[k]))

(* When both keys are the same the pop is seen by the push.                *)
RPopLPush ==
    /\ "rpoplpush" \in Uses
    /\ \E src, dst \in Keys :
           /\ db[src] # None
           /\ src = dst \/ Room(dst)
           /\ \E popped \in {quicklistPopCustom(db[src], FALSE)}, v \in {Popped(db[src], FALSE)} :
                  IF src = dst
                  THEN Sets(src, pushGenericCommand(popped, v, TRUE), <<Last(abs[src])>> \o Front(abs[src]))
                  ELSE /\ db' = [db EXCEPT ![src] = Kept(popped), ![dst] = pushGenericCommand(@, v, TRUE)]
                       /\ abs' = [abs EXCEPT ![src] = Front(@), ![dst] = <<Last(abs[src])>> \o @]

First(s, v) == IF \E i \in DOMAIN s : s[i] = v THEN Min({i \in DOMAIN s : s[i] = v}) ELSE 0

LInsert == /\ "linsert" \in Uses
           /\ \E k \in Keys, pivot, v \in Values, after \in BOOLEAN :
                  /\ db[k] # None
                  /\ Room(k)
                  /\ Sets(k, linsertCommand(db[k], pivot, v, after),
                          LET i == First(abs[k], pivot)
                          IN  IF i = 0 THEN abs[k] ELSE InsertAt(abs[k], IF after THEN i + 1 ELSE i, v))

LSet == /\ "lset" \in Uses
        /\ \E k \in Keys, idx \in Indexes, v \in Values :
               /\ db[k] # None
               /\ Sets(k, quicklistReplaceAtIndex(db[k], idx, v),
                       LET i == IF idx < 0 THEN Len(abs[k]) + 1 + idx ELSE idx + 1
                       IN  IF i \in DOMAIN abs[k] THEN ReplaceAt(abs[k], i, v) ELSE abs[k])

(* The elements of s from index start to index end.                        *)
Slice(s, start, end) ==
    LET a == IF start < 0 THEN Len(s) + start ELSE start
        b == IF end < 0 THEN Len(s) + end ELSE end
    IN  SubSeq(s, IF a < 0 THEN 1 ELSE a + 1, IF b >= Len(s) THEN Len(s) ELSE b + 1)

LTrim == /\ "ltrim" \in Uses
         /\ \E k \in Keys, start, end \in Indexes :
                /\ db[k] # None
                /\ Sets(k, ltrimCommand(db[k], start, end), Slice(abs[k], start, end))

(* The sequence without the first n elements v, all of them if n is 0.     *)
WithoutFirst(s, v, n) ==
    LET rank(i) == Cardinality({j \in 1 .. i : s[j] = v})
        keep    == {i \in DOMAIN s : s[i] # v \/ (n > 0 /\ rank(i) > n)}
        at      == SetToSortSeq(keep, LAMBDA a, b : a < b)
    IN  [i \in DOMAIN at |-> s[at[i]]]

LRem == /\ "lrem" \in Uses
        /\ \E k \in Keys, count \in {-2, -1, 0, 1, 2}, v \in Values :
               /\ db[k] # None
               /\ Sets(k, lremCommand(db[k], count, v),
                       IF count < 0 THEN Reverse(WithoutFirst(Reverse(abs[k]), v, -count))
                       ELSE WithoutFirst(abs[k], v, count))

(* Reading decompresses nodes.                                             *)
LRange == /\ "read" \in Uses
          /\ \E k \in Keys, start, end \in Indexes :
                 db[k] # None /\ Sets(k, lrangeCommand(db[k], start, end).ql, abs[k])

LIndex == /\ "read" \in Uses
          /\ \E k \in Keys, idx \in Indexes : db[k] # None /\ Sets(k, lindexCommand(db[k], idx).ql, abs[k])

Reload == /\ "reload" \in Uses
          /\ \E k \in Keys : /\ db[k] # None
                          /\ \E ql \in {rdbReload(db[k]), rewriteListObject(db[k])} : Sets(k, ql, abs[k])

Init == /\ db = [k \in Keys |-> None]
        /\ abs = [k \in Keys |-> << >>]

Next == Push \/ Pop \/ RPopLPush \/ LInsert \/ LSet \/ LTrim \/ LRem \/ LRange \/ LIndex \/ Reload

Spec == Init /\ [][Next]_vars

----------------------------------------------------------------------------
(* Properties.                                                             *)

(* However elements were spread over nodes that filled up, split, merged   *)
(* and emptied, the nodes hold the elements in order, the counts of the    *)
(* nodes and of the list are right, no node is empty and no empty list     *)
(* stays in the database (quicklistInsert, quicklistDelRange, MergeNodes). *)
HoldsTheElements ==
    \A k \in Keys :
        /\ db[k] = None => abs[k] = << >>
        /\ db[k] # None /\ ~db[k].bad =>
               /\ FlattenSeq([i \in DOMAIN db[k].nodes |-> db[k].nodes[i].zl]) = abs[k]
               /\ db[k].count = Len(abs[k]) /\ db[k].count > 0
               /\ \A i \in DOMAIN db[k].nodes :
                      /\ db[k].nodes[i].count = Len(db[k].nodes[i].zl) /\ db[k].nodes[i].count > 0
                      /\ db[k].nodes[i].sz = BlobLen(db[k].nodes[i].zl)

(* LRANGE and LINDEX answer what the sequence says for every pair of the   *)
(* indexes, negative and out of range ones included, whichever nodes are   *)
(* compressed (quicklistIndex, quicklistNext).                             *)
ReadsAgree ==
    \A k \in Keys : db[k] # None /\ ~db[k].bad =>
        /\ \A start, end \in Indexes : lrangeCommand(db[k], start, end).reply = Slice(abs[k], start, end)
        /\ \A idx \in Indexes :
               lindexCommand(db[k], idx).reply =
                   LET i == IF idx < 0 THEN Len(abs[k]) + 1 + idx ELSE idx + 1
                   IN  IF i \in DOMAIN abs[k] THEN abs[k][i] ELSE None

(* The bytes of a compressed node are never taken for a ziplist, and the   *)
(* nodes at the two ends, which pushes and pops use as they are, stay      *)
(* uncompressed (__quicklistCompress, quicklistDecompressNodeForUse).  The *)
(* exception of the code: LINDEX and LRANGE leave an inner node marked to  *)
(* be compressed again, and the next LSET, LINSERT or push that touches it *)
(* compresses it although it has become an end by then.                    *)
UsesRawNodes ==
    \A k \in Keys : db[k] # None /\ ~db[k].stale =>
        /\ ~db[k].bad
        /\ Depth > 0 => ~db[k].nodes[1].lzf /\ ~Last(db[k].nodes).lzf
============================================================================
