------------------------------- MODULE Zsets -------------------------------
(***************************************************************************)
(* Sorted sets (t_zset.c) in their two encodings: the ziplist, a sequence  *)
(* of members with their scores, and the skip list with its dictionary.    *)
(* The skip list has its pointers, spans and levels as in the code: fwd,   *)
(* span and back are functions on the nodes; a node is named by its member *)
(* and the header is 0.  Members are numbers in the order of their bytes,  *)
(* scores integers with Inf and -Inf for the infinities.  The height of a  *)
(* new node is chosen by the environment.                                  *)
(***************************************************************************)
EXTENDS Integers, Sequences, FiniteSets, SequencesExt, FiniteSetsExt

CONSTANTS Members,          \* 1 .. n
          Long,             \* those longer than zset-max-ziplist-value
          Scores,           \* the scores given to ZADD
          Inf,              \* above any finite score or sum
          MaxLevel,         \* ZSKIPLIST_MAXLEVEL
          MaxZiplist,       \* zset-max-ziplist-entries
          Keys, SetKeys,    \* the keys; those that hold a set, not a sorted set
          Weights,          \* the weights given to ZUNIONSTORE and ZINTERSTORE
          Uses,             \* the commands clients send
          NaN, None

VARIABLES db,               \* the value of each key
          abs               \* what it stands for: the score of each member

vars == <<db, abs>>

header == 0
Nodes == Members \cup {header}

----------------------------------------------------------------------------
(* The skip list.                                                          *)

zslCreate ==
    [level |-> 1, length |-> 0, tail |-> None,
     fwd   |-> [n \in Nodes |-> IF n = header THEN [i \in 1 .. MaxLevel |-> None] ELSE << >>],
     span  |-> [n \in Nodes |-> IF n = header THEN [i \in 1 .. MaxLevel |-> 0] ELSE << >>],
     back  |-> [n \in Nodes |-> None],
     score |-> [n \in Nodes |-> None]]

(* From position p, a node and its rank, along level i over the nodes in   *)
(* pass while the rank stays within limit.                                 *)
RECURSIVE Walk(_, _, _, _, _)
Walk(z, p, i, pass, limit) ==
    LET next == z.fwd[p[1]][i]
        rank == p[2] + z.span[p[1]][i]
    IN  IF next # None /\ next \in pass /\ rank <= limit
        THEN Walk(z, <<next, rank>>, i, pass, limit) ELSE p

(* The positions update[i] and rank[i] at which each level is left.        *)
Descend(z, pass, limit) ==
    LET at[i \in 1 .. z.level] == Walk(z, IF i = z.level THEN <<header, 0>> ELSE at[i + 1], i, pass, limit)
    IN  at

In(z) == {n \in Members : z.score[n] # None}

Before(z, s, e) == {n \in In(z) : z.score[n] < s \/ (z.score[n] = s /\ n < e)}

zslInsert(z, s, e, lvl) ==
    LET at      == Descend(z, Before(z, s, e), z.length)
        level   == IF lvl > z.level THEN lvl ELSE z.level
        update(i) == IF i <= z.level THEN at[i][1] ELSE header
        rank(i) == IF i <= z.level THEN at[i][2] ELSE 0
        old(i)  == IF i <= z.level THEN z.span[update(i)][i] ELSE z.length
        next    == z.fwd[update(1)][1]
    IN  [z EXCEPT
           !.level  = level,
           !.length = @ + 1,
           !.tail   = IF next = None THEN e ELSE @,
           !.fwd    = [n \in Nodes |->
                         IF n = e THEN [i \in 1 .. lvl |-> z.fwd[update(i)][i]]
                         ELSE [i \in DOMAIN @[n] |-> IF i <= lvl /\ update(i) = n THEN e ELSE @[n][i]]],
           !.span   = [n \in Nodes |->
                         IF n = e THEN [i \in 1 .. lvl |-> old(i) - (rank(1) - rank(i))]
                         ELSE [i \in DOMAIN @[n] |->
                                 IF i > level \/ update(i) # n THEN @[n][i]
                                 ELSE IF i <= lvl THEN rank(1) - rank(i) + 1 ELSE @[n][i] + 1]],
           !.back   = [n \in Nodes |->
                         IF n = e THEN IF update(1) = header THEN None ELSE update(1)
                         ELSE IF n = next THEN e ELSE @[n]],
           !.score[e] = s]

(* The span of the node before x on level i once x is gone.                *)
SpanWithout_passedOver(z, x, n, i) == IF z.fwd[n][i] = x THEN z.span[n][i] + z.span[x][i] - 1 ELSE z.span[n][i]

SpanWithout(z, x, n, i) ==
    IF z.fwd[n][i] = x THEN z.span[n][i] + z.span[x][i] - 1 ELSE z.span[n][i] - 1

zslDeleteNode(z, x, update) ==
    LET before(n, i) == i <= z.level /\ update[i] = n
        fwd  == [n \in Nodes |->
                   IF n = x THEN << >>
                   ELSE [i \in DOMAIN z.fwd[n] |->
                           IF before(n, i) /\ z.fwd[n][i] = x THEN z.fwd[x][i] ELSE z.fwd[n][i]]]
        used == {i \in 2 .. z.level : fwd[header][i] # None}
    IN  [z EXCEPT
           !.level  = IF used = {} THEN 1 ELSE Max(used),
           !.length = @ - 1,
           !.tail   = IF z.fwd[x][1] = None THEN z.back[x] ELSE @,
           !.fwd    = fwd,
           !.span   = [n \in Nodes |->
                         IF n = x THEN << >>
                         ELSE [i \in DOMAIN @[n] |-> IF before(n, i) THEN SpanWithout(z, x, n, i) ELSE @[n][i]]],
           !.back   = [n \in Nodes |-> IF n = x THEN None ELSE IF n = z.fwd[x][1] THEN z.back[x] ELSE @[n]],
           !.score[x] = None]

Update(at) == [i \in DOMAIN at |-> at[i][1]]

zslDelete(z, s, e) ==
    LET at == Descend(z, Before(z, s, e), z.length)
        x  == z.fwd[at[1][1]][1]
    IN  IF x = e /\ z.score[x] = s THEN zslDeleteNode(z, x, Update(at)) ELSE z

(* In place if the new score is strictly between those of its neighbours,  *)
(* else the node is taken out and a new one is inserted.                   *)
zslUpdateScore(z, s, e, new, lvl) ==
    LET at   == Descend(z, Before(z, s, e), z.length)
        next == z.fwd[e][1]
    IN  IF /\ z.back[e] = None \/ z.score[z.back[e]] < new
           /\ next = None \/ z.score[next] > new
        THEN [z EXCEPT !.score[e] = new]
        ELSE zslInsert(zslDeleteNode(z, e, Update(at)), new, e, lvl)

(* A range has bounds min and max, each inclusive or not, on scores or on  *)
(* members; with it come the members of z above min and those below max.   *)
zslValueGteMin(z, r) == {n \in In(z) : IF r.minex THEN z.score[n] > r.min ELSE z.score[n] >= r.min}
zslValueLteMax(z, r) == {n \in In(z) : IF r.maxex THEN z.score[n] < r.max ELSE z.score[n] <= r.max}

zslLexValueGteMin(z, r) == {n \in In(z) : IF r.minex THEN n > r.min ELSE n >= r.min}
zslLexValueLteMax(z, r) == {n \in In(z) : IF r.maxex THEN n < r.max ELSE n <= r.max}

Hollow(r) == r.min > r.max \/ (r.min = r.max /\ (r.minex \/ r.maxex))

zslIsInRange(z, r, gte, lte) ==
    /\ ~Hollow(r)
    /\ z.tail # None /\ z.tail \in gte
    /\ z.fwd[header][1] # None /\ z.fwd[header][1] \in lte

FirstIn(z, r, gte, lte) ==
    LET x == z.fwd[Descend(z, In(z) \ gte, z.length)[1][1]][1]
    IN  IF zslIsInRange(z, r, gte, lte) /\ x \in lte THEN x ELSE None

LastIn(z, r, gte, lte) ==
    LET x == Descend(z, lte, z.length)[1][1]
    IN  IF zslIsInRange(z, r, gte, lte) /\ x \in gte THEN x ELSE None

zslFirstInRange(z, r) == FirstIn(z, r, zslValueGteMin(z, r), zslValueLteMax(z, r))
zslLastInRange(z, r) == LastIn(z, r, zslValueGteMin(z, r), zslValueLteMax(z, r))
zslFirstInLexRange(z, r) == FirstIn(z, r, zslLexValueGteMin(z, r), zslLexValueLteMax(z, r))
zslLastInLexRange(z, r) == LastIn(z, r, zslLexValueGteMin(z, r), zslLexValueLteMax(z, r))

(* Deletes the nodes that follow position at while they are in the set.    *)
RECURSIVE DeleteWhile(_, _, _, _)
DeleteWhile(z, at, in, n) ==
    LET x == z.fwd[at[1][1]][1]
    IN  IF x = None \/ n = 0 THEN z
        ELSE IF x \notin in THEN z
        ELSE DeleteWhile(zslDeleteNode(z, x, Update(at)), at, in, n - 1)

zslDeleteRangeByScore(z, r) ==
    DeleteWhile(z, Descend(z, In(z) \ zslValueGteMin(z, r), z.length), zslValueLteMax(z, r), z.length)

zslDeleteRangeByLex(z, r) ==
    DeleteWhile(z, Descend(z, In(z) \ zslLexValueGteMin(z, r), z.length), zslLexValueLteMax(z, r), z.length)

(* Ranks start at 1.                                                       *)
zslDeleteRangeByRank(z, start, end) ==
    DeleteWhile(z, Descend(z, In(z), start - 1), In(z), end - start + 1)

zslGetRank(z, s, e) ==
    LET at == Descend(z, Before(z, s, e) \cup {e}, z.length)
    IN  IF \E i \in DOMAIN at : at[i][1] = e
        THEN at[CHOOSE i \in DOMAIN at : at[i][1] = e /\ \A j \in DOMAIN at : at[j][1] = e => j <= i][2]
        ELSE 0

zslGetElementByRank(z, rank) ==
    LET at   == Descend(z, In(z), rank)
        hits == {i \in DOMAIN at : at[i][2] = rank}
    IN  IF hits = {} THEN None ELSE at[Max(hits)][1]

(* The nodes from x on, forwards or backwards.                             *)
RECURSIVE Onwards(_, _, _)
Onwards(z, x, rev) ==
    IF x = None THEN << >> ELSE <<x>> \o Onwards(z, IF rev THEN z.back[x] ELSE z.fwd[x][1], rev)

----------------------------------------------------------------------------
(* The ziplist, a sequence of pairs <<member, score>>.                     *)

zzlFind(l, e) == IF \E i \in DOMAIN l : l[i][1] = e THEN CHOOSE i \in DOMAIN l : l[i][1] = e ELSE None

zzlDelete(l, i) == RemoveAt(l, i)

zzlInsert(l, e, s) ==
    LET after == {i \in DOMAIN l : l[i][2] > s \/ (l[i][2] = s /\ l[i][1] > e)}
        pos   == IF after = {} THEN Len(l) + 1 ELSE Min(after)
    IN  InsertAt(l, pos, <<e, s>>)

zzlIsInRange(l, r, gte, lte) == ~Hollow(r) /\ l # << >> /\ Len(l) \in gte /\ 1 \in lte

zzlValueGteMin(l, r) == {i \in DOMAIN l : IF r.minex THEN l[i][2] > r.min ELSE l[i][2] >= r.min}
zzlValueLteMax(l, r) == {i \in DOMAIN l : IF r.maxex THEN l[i][2] < r.max ELSE l[i][2] <= r.max}

zzlLexValueGteMin(l, r) == {i \in DOMAIN l : IF r.minex THEN l[i][1] > r.min ELSE l[i][1] >= r.min}
zzlLexValueLteMax(l, r) == {i \in DOMAIN l : IF r.maxex THEN l[i][1] < r.max ELSE l[i][1] <= r.max}

ZzlFirst(l, r, gte, lte) ==
    IF zzlIsInRange(l, r, gte, lte) /\ Min(gte) \in lte THEN Min(gte) ELSE None

ZzlLast(l, r, gte, lte) ==
    IF zzlIsInRange(l, r, gte, lte) /\ Max(lte) \in gte THEN Max(lte) ELSE None

zzlFirstInRange(l, r) == ZzlFirst(l, r, zzlValueGteMin(l, r), zzlValueLteMax(l, r))
zzlLastInRange(l, r) == ZzlLast(l, r, zzlValueGteMin(l, r), zzlValueLteMax(l, r))
zzlFirstInLexRange(l, r) == ZzlFirst(l, r, zzlLexValueGteMin(l, r), zzlLexValueLteMax(l, r))
zzlLastInLexRange(l, r) == ZzlLast(l, r, zzlLexValueGteMin(l, r), zzlLexValueLteMax(l, r))

(* From the first one in the range on while below its maximum.             *)
Cut(l, first, lte) ==
    IF first = None THEN l
    ELSE LET stop == {i \in first .. Len(l) : i \notin lte}
             last == IF stop = {} THEN Len(l) ELSE Min(stop) - 1
         IN  SubSeq(l, 1, first - 1) \o SubSeq(l, last + 1, Len(l))

zzlDeleteRangeByScore(l, r) == Cut(l, zzlFirstInRange(l, r), zzlValueLteMax(l, r))
zzlDeleteRangeByLex(l, r) == Cut(l, zzlFirstInLexRange(l, r), zzlLexValueLteMax(l, r))
zzlDeleteRangeByRank(l, start, end) == SubSeq(l, 1, start - 1) \o SubSeq(l, end + 1, Len(l))

----------------------------------------------------------------------------
(* Sorted set objects.                                                     *)

Ziplist(l) == [enc |-> "ziplist", list |-> l]
Skiplist(z, d) == [enc |-> "skiplist", zsl |-> z, dict |-> d]

EmptyDict == [e \in {} |-> 0]

With(d, e, s) == [m \in DOMAIN d \cup {e} |-> IF m = e THEN s ELSE d[m]]
Without(d, es) == [m \in DOMAIN d \ es |-> d[m]]

zsetLength(o) == IF o.enc = "ziplist" THEN Len(o.list) ELSE o.zsl.length

createZset(e) == IF MaxZiplist = 0 \/ e \in Long THEN Skiplist(zslCreate, EmptyDict) ELSE Ziplist(<< >>)

zsetConvert(o, lv) ==
    IF o.enc = "ziplist"
    THEN FoldLeft(LAMBDA acc, p : Skiplist(zslInsert(acc.zsl, p[2], p[1], lv[p[1]]), With(acc.dict, p[1], p[2])),
                  Skiplist(zslCreate, EmptyDict), o.list)
    ELSE LET run == Onwards(o.zsl, o.zsl.fwd[header][1], FALSE)
         IN  Ziplist([i \in DOMAIN run |-> <<run[i], o.zsl.score[run[i]]>>])

zsetConvertToZiplistIfNeeded(o, long) ==
    IF o.zsl.length <= MaxZiplist /\ ~long THEN zsetConvert(o, [e \in Members |-> 1]) ELSE o

zsetScore(o, e) ==
    IF o.enc = "ziplist"
    THEN LET i == zzlFind(o.list, e) IN IF i = None THEN None ELSE o.list[i][2]
    ELSE IF e \in DOMAIN o.dict THEN o.dict[e] ELSE None

(* The sum of two scores; the two infinities cancel to NaN.                *)
Plus(a, b) == IF {a, b} = {Inf, -Inf} THEN NaN
              ELSE IF Inf \in {a, b} THEN Inf ELSE IF -Inf \in {a, b} THEN -Inf ELSE a + b

Times(a, w) == IF a \in {Inf, -Inf} THEN IF w = 0 THEN NaN ELSE IF (w > 0) = (a > 0) THEN Inf ELSE -Inf
               ELSE a * w

(* flags is a subset of {"nx", "xx", "incr"}.                              *)
Stored(o, e, cur, s, lv) ==
    IF s = cur THEN o
    ELSE IF o.enc = "ziplist" THEN Ziplist(zzlInsert(zzlDelete(o.list, zzlFind(o.list, e)), e, s))
    ELSE Skiplist(zslUpdateScore(o.zsl, cur, e, s, lv[e]), With(o.dict, e, s))

Added(o, e, s, lv) ==
    IF o.enc = "ziplist"
    THEN LET l == zzlInsert(o.list, e, s)
         IN  IF Len(l) > MaxZiplist \/ e \in Long THEN zsetConvert(Ziplist(l), lv) ELSE Ziplist(l)
    ELSE Skiplist(zslInsert(o.zsl, s, e, lv[e]), With(o.dict, e, s))

zsetAdd(o, e, s, flags, lv) ==
    LET cur == zsetScore(o, e)
        new == IF "incr" \in flags THEN Plus(s, cur) ELSE s
    IN  IF cur = None THEN IF "xx" \in flags THEN o ELSE Added(o, e, s, lv)
        ELSE IF "nx" \in flags \/ new = NaN THEN o
        ELSE Stored(o, e, cur, new, lv)

zsetDel(o, e) ==
    IF o.enc = "ziplist" /\ zzlFind(o.list, e) # None THEN Ziplist(zzlDelete(o.list, zzlFind(o.list, e)))
    ELSE IF o.enc = "skiplist" /\ e \in DOMAIN o.dict
    THEN Skiplist(zslDelete(o.zsl, o.dict[e], e), Without(o.dict, {e}))
    ELSE o

(* An object that has become empty is removed from the database.           *)
Kept(o) == IF zsetLength(o) = 0 THEN None ELSE o

----------------------------------------------------------------------------
(* Queries.                                                                *)

zsetRank(o, e, rev) ==
    LET rank == IF o.enc = "ziplist" THEN IF zzlFind(o.list, e) = None THEN 0 ELSE zzlFind(o.list, e)
                ELSE IF e \in DOMAIN o.dict THEN zslGetRank(o.zsl, o.dict[e], e) ELSE 0
    IN  IF rank = 0 THEN -1 ELSE IF rev THEN zsetLength(o) - rank ELSE rank - 1

(* Negative indexes count from the end.                                    *)
Indexes(llen, start0, end0) ==
    LET start == IF start0 < 0 THEN IF llen + start0 < 0 THEN 0 ELSE llen + start0 ELSE start0
        end   == IF end0 < 0 THEN llen + end0 ELSE end0
    IN  IF start > end \/ start >= llen THEN None
        ELSE <<start, IF end >= llen THEN llen - 1 ELSE end>>

zrangeGenericCommand(o, start0, end0, rev) ==
    LET llen == zsetLength(o)
        ix   == Indexes(llen, start0, end0)
        n    == ix[2] - ix[1] + 1
        from == IF ix[1] = 0 THEN IF rev THEN o.zsl.tail ELSE o.zsl.fwd[header][1]
                ELSE zslGetElementByRank(o.zsl, IF rev THEN llen - ix[1] ELSE ix[1] + 1)
    IN  IF ix = None THEN << >>
        ELSE IF o.enc = "ziplist"
        THEN [i \in 1 .. n |-> o.list[IF rev THEN llen - ix[1] - i + 1 ELSE ix[1] + i][1]]
        ELSE SubSeq(Onwards(o.zsl, from, rev), 1, n)

(* The members from position first on, after offset ones, at most limit of *)
(* them (-1 for all), up to the first one out of the range.                *)
Page(seq, in, offset, limit) ==
    LET rest == IF offset < 0 \/ offset > Len(seq) THEN << >> ELSE SubSeq(seq, offset + 1, Len(seq))
        stop == {i \in DOMAIN rest : rest[i] \notin in}
        n    == IF stop = {} THEN Len(rest) ELSE Min(stop) - 1
    IN  SubSeq(rest, 1, IF limit < 0 \/ limit > n THEN n ELSE limit)

ZipRun(l, i, rev) == IF i = None THEN << >>
                     ELSE IF rev THEN [j \in 1 .. i |-> l[i - j + 1][1]]
                     ELSE [j \in 1 .. Len(l) - i + 1 |-> l[i + j - 1][1]]

Named(l, is) == {l[i][1] : i \in is}

genericZrangebyscoreCommand(o, r, offset, limit, rev) ==
    IF o.enc = "ziplist"
    THEN Page(ZipRun(o.list, IF rev THEN zzlLastInRange(o.list, r) ELSE zzlFirstInRange(o.list, r), rev),
              Named(o.list, IF rev THEN zzlValueGteMin(o.list, r) ELSE zzlValueLteMax(o.list, r)), offset, limit)
    ELSE Page(Onwards(o.zsl, IF rev THEN zslLastInRange(o.zsl, r) ELSE zslFirstInRange(o.zsl, r), rev),
              IF rev THEN zslValueGteMin(o.zsl, r) ELSE zslValueLteMax(o.zsl, r), offset, limit)

genericZrangebylexCommand(o, r, offset, limit, rev) ==
    IF o.enc = "ziplist"
    THEN Page(ZipRun(o.list, IF rev THEN zzlLastInLexRange(o.list, r) ELSE zzlFirstInLexRange(o.list, r), rev),
              Named(o.list, IF rev THEN zzlLexValueGteMin(o.list, r) ELSE zzlLexValueLteMax(o.list, r)), offset, limit)
    ELSE Page(Onwards(o.zsl, IF rev THEN zslLastInLexRange(o.zsl, r) ELSE zslFirstInLexRange(o.zsl, r), rev),
              IF rev THEN zslLexValueGteMin(o.zsl, r) ELSE zslLexValueLteMax(o.zsl, r), offset, limit)

(* The skip list counts by the ranks of the first and the last in range.   *)
CountBetween_toLast(z, first, last) ==
    IF first = None THEN 0
    ELSE LET upTo == z.length - zslGetRank(z, z.score[first], first)
         IN  IF last = None THEN upTo ELSE upTo - (z.length - zslGetRank(z, z.score[last], last))

CountBetween(z, first, last) ==
    IF first = None THEN 0
    ELSE LET upTo == z.length - (zslGetRank(z, z.score[first], first) - 1)
         IN  IF last = None THEN upTo ELSE upTo - (z.length - zslGetRank(z, z.score[last], last))

zcountCommand(o, r) ==
    IF o.enc = "ziplist" THEN Len(genericZrangebyscoreCommand(o, r, 0, -1, FALSE))
    ELSE CountBetween(o.zsl, zslFirstInRange(o.zsl, r), zslLastInRange(o.zsl, r))

zlexcountCommand(o, r) ==
    IF o.enc = "ziplist" THEN Len(genericZrangebylexCommand(o, r, 0, -1, FALSE))
    ELSE CountBetween(o.zsl, zslFirstInLexRange(o.zsl, r), zslLastInLexRange(o.zsl, r))

----------------------------------------------------------------------------
(* Commands that change a key.                                             *)

zaddGenericCommand(o, pairs, flags, lv) ==
    IF o = None /\ "xx" \in flags THEN None
    ELSE FoldLeft(LAMBDA acc, p : zsetAdd(acc, p[1], p[2], flags, lv),
                  IF o = None THEN createZset(pairs[1][1]) ELSE o, pairs)

RECURSIVE zremCommand(_, _)
zremCommand(o, es) ==
    IF o = None \/ es = << >> THEN o ELSE zremCommand(Kept(zsetDel(o, es[1])), Tail(es))

zremrangebyrank(o, start0, end0) ==
    LET ix == Indexes(zsetLength(o), start0, end0)
    IN  IF ix = None THEN o
        ELSE IF o.enc = "ziplist" THEN Kept(Ziplist(zzlDeleteRangeByRank(o.list, ix[1] + 1, ix[2] + 1)))
        ELSE LET z == zslDeleteRangeByRank(o.zsl, ix[1] + 1, ix[2] + 1)
             IN  Kept(Skiplist(z, Without(o.dict, In(o.zsl) \ In(z))))

zremrangebyscore(o, r) ==
    IF o.enc = "ziplist" THEN Kept(Ziplist(zzlDeleteRangeByScore(o.list, r)))
    ELSE LET z == zslDeleteRangeByScore(o.zsl, r) IN Kept(Skiplist(z, Without(o.dict, In(o.zsl) \ In(z))))

zremrangebylex(o, r) ==
    IF o.enc = "ziplist" THEN Kept(Ziplist(zzlDeleteRangeByLex(o.list, r)))
    ELSE LET z == zslDeleteRangeByLex(o.zsl, r) IN Kept(Skiplist(z, Without(o.dict, In(o.zsl) \ In(z))))

RECURSIVE genericZpopCommand(_, _, _)
genericZpopCommand(o, max, count) ==
    LET e == IF o.enc = "ziplist" THEN o.list[IF max THEN Len(o.list) ELSE 1][1]
             ELSE IF max THEN o.zsl.tail ELSE o.zsl.fwd[header][1]
        left == Kept(zsetDel(o, e))
    IN  IF count = 1 \/ left = None THEN left ELSE genericZpopCommand(left, max, count - 1)

(* A source is the value of a key, a sorted set or a plain set, whose      *)
(* members count as having score 1, and its weight.                        *)
zuiLength(src) == IF src.o = None THEN 0 ELSE IF src.o.enc = "set" THEN Cardinality(src.o.elems) ELSE zsetLength(src.o)

zuiNext(src) ==
    IF src.o = None THEN << >>
    ELSE IF src.o.enc = "set" THEN SetToSeq({<<e, 1>> : e \in src.o.elems})
    ELSE IF src.o.enc = "ziplist" THEN src.o.list
    ELSE LET run == Onwards(src.o.zsl, src.o.zsl.fwd[header][1], FALSE)
         IN  [i \in DOMAIN run |-> <<run[i], src.o.zsl.score[run[i]]>>]

zuiFind(src, e) ==
    IF src.o = None THEN None
    ELSE IF src.o.enc = "set" THEN IF e \in src.o.elems THEN 1 ELSE None
    ELSE zsetScore(src.o, e)

ZeroIfNaN(s) == IF s = NaN THEN 0 ELSE s

zunionInterAggregate(target, val, aggr) ==
    CASE aggr = "sum" -> IF val = NaN THEN 0 ELSE ZeroIfNaN(Plus(target, val))
      [] aggr = "min" -> IF val # NaN /\ val < target THEN val ELSE target
      [] aggr = "max" -> IF val # NaN /\ val > target THEN val ELSE target

(* The source with the fewest members first.                               *)
BySize(srcs) == SortSeq(srcs, LAMBDA a, b : zuiLength(a) < zuiLength(b))

Inter(srcs, aggr) ==
    LET all(e)   == \A j \in 2 .. Len(srcs) : zuiFind(srcs[j], e) # None
        hits     == SelectSeq(zuiNext(srcs[1]), LAMBDA p : all(p[1]))
        total(p) == FoldLeft(LAMBDA t, j : zunionInterAggregate(t, Times(zuiFind(srcs[j], p[1]), srcs[j].w), aggr),
                             ZeroIfNaN(Times(p[2], srcs[1].w)), [j \in 1 .. Len(srcs) - 1 |-> j + 1])
    IN  [i \in DOMAIN hits |-> <<hits[i][1], total(hits[i])>>]

Union(srcs, aggr) ==
    LET one(acc, p, w) ==
            LET s == ZeroIfNaN(Times(p[2], w))
            IN  With(acc, p[1], IF p[1] \in DOMAIN acc THEN zunionInterAggregate(acc[p[1]], s, aggr) ELSE s)
        acc == FoldLeft(LAMBDA a, src : FoldLeft(LAMBDA b, p : one(b, p, src.w), a, zuiNext(src)), EmptyDict, srcs)
    IN  SetToSeq({<<e, acc[e]>> : e \in DOMAIN acc})

zunionInterGenericCommand(srcs, op, aggr, lv) ==
    LET sorted == BySize(srcs)
        pairs  == IF op = "inter" THEN Inter(sorted, aggr) ELSE Union(sorted, aggr)
        dst    == zsetConvert(Ziplist(pairs), lv)
    IN  IF pairs = << >> THEN None
        ELSE zsetConvertToZiplistIfNeeded(dst, \E i \in DOMAIN pairs : pairs[i][1] \in Long)

----------------------------------------------------------------------------
(* Behaviour.  Beside each command is what it means for the function from  *)
(* members to scores.                                                      *)

Levels == [Members -> 1 .. MaxLevel]

Sets(k, o, a) == /\ db' = [db EXCEPT ![k] = o]
                 /\ abs' = [abs EXCEPT ![k] = a]

AbsAdd(f, e, s, flags) ==
    IF e \notin DOMAIN f THEN IF "xx" \in flags THEN f ELSE With(f, e, s)
    ELSE IF "nx" \in flags THEN f
    ELSE IF "incr" \in flags THEN IF Plus(f[e], s) = NaN THEN f ELSE With(f, e, Plus(f[e], s))
    ELSE With(f, e, s)

(* INCR keeps the score within the scores of the instance.                 *)
ZAdd == /\ "zadd" \in Uses
        /\ \E k \in Keys \ SetKeys, e \in Members, s \in Scores, lv \in Levels,
              flags \in {{}, {"nx"}, {"xx"}, {"incr"}, {"incr", "xx"}} :
               /\ \A m \in Members \ {e} : lv[m] = 1 \/ (db[k] # None /\ db[k].enc = "ziplist")
               /\ AbsAdd(abs[k], e, s, flags) \in UNION {[d -> Scores] : d \in SUBSET Members}
               /\ Sets(k, zaddGenericCommand(db[k], <<<<e, s>>>>, flags, lv), AbsAdd(abs[k], e, s, flags))

ZRem == /\ "zrem" \in Uses
        /\ \E k \in Keys \ SetKeys, es \in {<<e>> : e \in Members} \cup {<<e, m>> : e, m \in Members} :
               Sets(k, zremCommand(db[k], es), Without(abs[k], ToSet(es)))

(* The members of f in order.                                              *)
Ordered(f) == SetToSortSeq(DOMAIN f, LAMBDA a, b : f[a] < f[b] \/ (f[a] = f[b] /\ a < b))

Slice(q, start, end) ==
    LET n == Len(q)
        a == IF start < 0 THEN n + start ELSE start
        b == IF end < 0 THEN n + end ELSE end
    IN  {i \in DOMAIN q : i - 1 >= a /\ i - 1 <= b}

Ranks == -(Cardinality(Members) + 1) .. Cardinality(Members)

ZRemRangeByRank ==
    /\ "zremrange" \in Uses
    /\ \E k \in Keys \ SetKeys, start, end \in Ranks :
           /\ db[k] # None
           /\ \E q \in {Ordered(abs[k])} :
                  Sets(k, zremrangebyrank(db[k], start, end),
                       Without(abs[k], {q[i] : i \in Slice(q, start, end)}))

Ranges(bounds) == [min : bounds, max : bounds, minex : BOOLEAN, maxex : BOOLEAN]

(* On members, "-" and "+" stand below and above them all.                 *)
LexRanges ==
    LET ends == {0, Cardinality(Members) + 1}
    IN  {r \in Ranges(Members \cup ends) : (r.min \in ends => r.minex) /\ (r.max \in ends => r.maxex)}

Within(x, r) == /\ IF r.minex THEN x > r.min ELSE x >= r.min
                /\ IF r.maxex THEN x < r.max ELSE x <= r.max

ZRemRangeByScore ==
    /\ "zremrange" \in Uses
    /\ \E k \in Keys \ SetKeys, r \in Ranges(Scores) :
           /\ db[k] # None
           /\ Sets(k, zremrangebyscore(db[k], r),
                   Without(abs[k], {e \in DOMAIN abs[k] : Within(abs[k][e], r)}))

(* Ranges of members are meant for sets whose scores are all the same.     *)
Flat(f) == \A a, b \in DOMAIN f : f[a] = f[b]

ZRemRangeByLex ==
    /\ "zremrange" \in Uses
    /\ \E k \in Keys \ SetKeys, r \in LexRanges :
           /\ db[k] # None
           /\ Flat(abs[k])
           /\ Sets(k, zremrangebylex(db[k], r), Without(abs[k], {e \in DOMAIN abs[k] : Within(e, r)}))

ZPop == /\ "zpop" \in Uses
        /\ \E k \in Keys \ SetKeys, max \in BOOLEAN, count \in 1 .. 2 :
               /\ db[k] # None
               /\ \E q \in {IF max THEN Reverse(Ordered(abs[k])) ELSE Ordered(abs[k])} :
                      Sets(k, genericZpopCommand(db[k], max, count),
                           Without(abs[k], {q[i] : i \in {i \in DOMAIN q : i <= count}}))

(* What each source contributes to e, a bag of products.                   *)
Products(ks, ws, e) == [i \in {i \in DOMAIN ks : e \in DOMAIN abs[ks[i]]} |-> Times(abs[ks[i]][e], ws[i])]

Aggregate(f, aggr) ==
    LET vals == {f[i] : i \in DOMAIN f}
    IN  CASE aggr = "sum" -> MapThenSumSet(LAMBDA i : f[i], DOMAIN f)
          [] aggr = "min" -> Min(vals)
          [] aggr = "max" -> Max(vals)

ZStore ==
    /\ "zstore" \in Uses
    /\ \E dst \in Keys \ SetKeys, ks \in [1 .. 2 -> Keys], ws \in [1 .. 2 -> Weights],
          op \in {"inter", "union"}, aggr \in {"sum", "min", "max"}, lv \in Levels :
           LET members == IF op = "inter" THEN DOMAIN abs[ks[1]] \cap DOMAIN abs[ks[2]]
                          ELSE DOMAIN abs[ks[1]] \cup DOMAIN abs[ks[2]]
               result  == [e \in members |-> Aggregate(Products(ks, ws, e), aggr)]
           IN  /\ \A e \in Members \ members : lv[e] = 1
               /\ \A e \in members : result[e] \in Scores
               /\ Sets(dst, zunionInterGenericCommand([i \in 1 .. 2 |-> [o |-> db[ks[i]], w |-> ws[i]]], op, aggr, lv),
                       result)

(* The sets given hold the even members.                                   *)
Even == {e \in Members : e % 2 = 0}

Init == /\ db = [k \in Keys |-> IF k \in SetKeys THEN [enc |-> "set", elems |-> Even] ELSE None]
        /\ abs = [k \in Keys |-> IF k \in SetKeys THEN [e \in Even |-> 1] ELSE EmptyDict]

Next == ZAdd \/ ZRem \/ ZRemRangeByRank \/ ZRemRangeByScore \/ ZRemRangeByLex \/ ZPop \/ ZStore

Spec == Init /\ [][Next]_vars

----------------------------------------------------------------------------
(* Properties.                                                             *)

(* Pointers, levels and spans of the skip list: level i runs through the   *)
(* nodes of at least that height in order, and a span is the distance to   *)
(* the next node, or to the end, that ranks are computed from.             *)
SoundList(z, q) ==
    LET rank(n) == IF n = header THEN 0 ELSE CHOOSE i \in DOMAIN q : q[i] = n
        high(i) == SelectSeq(q, LAMBDA n : Len(z.fwd[n]) >= i)
        prev(i) == <<header>> \o high(i)
    IN  /\ In(z) = Range(q) /\ z.length = Len(q)
        /\ z.tail = IF q = << >> THEN None ELSE Last(q)
        /\ z.level = Max({1} \cup {Len(z.fwd[n]) : n \in Range(q)})
        /\ \A j \in DOMAIN q : z.back[q[j]] = IF j = 1 THEN None ELSE q[j - 1]
        /\ \A i \in 1 .. z.level : \A j \in DOMAIN prev(i) :
               LET n    == prev(i)[j]
                   next == IF j = Len(prev(i)) THEN None ELSE prev(i)[j + 1]
               IN  /\ z.fwd[n][i] = next
                   /\ z.span[n][i] = (IF next = None THEN Len(q) ELSE rank(next)) - rank(n)

(* Whatever commands were executed and whenever the encoding changed, the  *)
(* object holds the members with their scores, in order, the skip list and *)
(* its dictionary agree, its spans are the distances, and no empty object  *)
(* stays in the database (zslInsert, zslDeleteNode, zslUpdateScore,        *)
(* zsetConvert).                                                           *)
HoldsTheScores ==
    \A k \in Keys \ SetKeys :
        LET q == Ordered(abs[k])
        IN  /\ db[k] = None <=> q = << >>
            /\ db[k] # None =>
                   IF db[k].enc = "ziplist"
                   THEN db[k].list = [i \in DOMAIN q |-> <<q[i], abs[k][q[i]]>>] /\ Len(q) <= MaxZiplist
                   ELSE /\ db[k].dict = abs[k]
                        /\ \A e \in DOMAIN abs[k] : db[k].zsl.score[e] = abs[k][e]
                        /\ SoundList(db[k].zsl, q)

InOrder(q, rev) == IF rev THEN Reverse(q) ELSE q

Window(q, offset, limit) ==
    IF offset < 0 THEN << >>
    ELSE SubSeq(q, offset + 1, IF limit < 0 \/ offset + limit > Len(q) THEN Len(q) ELSE offset + limit)

(* Every query by rank, score or member answers what the scores say, in    *)
(* both encodings and directions, with open and closed bounds, negative    *)
(* indexes and LIMIT (zrangeGenericCommand, genericZrangebyscoreCommand,   *)
(* zcountCommand and their like).                                          *)
QueriesAgree ==
    \A k \in Keys \ SetKeys : db[k] # None =>
        LET q == Ordered(abs[k])
            o == db[k]
        IN  /\ \A e \in Members, rev \in BOOLEAN :
                   zsetRank(o, e, rev) =
                       IF e \notin DOMAIN abs[k] THEN -1 ELSE (CHOOSE i \in DOMAIN q : InOrder(q, rev)[i] = e) - 1
            /\ \A start, end \in Ranks, rev \in BOOLEAN :
                   zrangeGenericCommand(o, start, end, rev) =
                       LET p == InOrder(q, rev) IN SelectSeq(p, LAMBDA e : \E i \in Slice(p, start, end) : p[i] = e)
            /\ \A r \in Ranges(Scores) :
                   LET in == SelectSeq(q, LAMBDA e : Within(abs[k][e], r))
                   IN  /\ zcountCommand(o, r) = Len(in)
                       /\ \A rev \in BOOLEAN, offset \in {-1, 0, 1}, limit \in {-1, 0, 1} :
                              genericZrangebyscoreCommand(o, r, offset, limit, rev) =
                                  Window(InOrder(in, rev), offset, limit)
            /\ Flat(abs[k]) => \A r \in LexRanges :
                   LET in == SelectSeq(q, LAMBDA e : Within(e, r))
                   IN  /\ zlexcountCommand(o, r) = Len(in)
                       /\ \A rev \in BOOLEAN : genericZrangebylexCommand(o, r, 0, -1, rev) = InOrder(in, rev)
============================================================================
