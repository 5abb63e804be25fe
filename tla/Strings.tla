------------------------------- MODULE Strings -------------------------------
(***************************************************************************)
(* String and hash objects: their encodings (object.c, util.c), the        *)
(* commands on them (t_string.c, bitops.c, t_hash.c), what of them goes    *)
(* to the replicas, and what a restart reads back (rdb.c, aof.c).          *)
(*                                                                         *)
(* A string is a sequence of bytes.  The sizes are scaled down together:   *)
(* a byte has BYTE = 2 bits and is NUL (0), '-' (1), '0' (2) or '1' (3),   *)
(* so numbers are written to the base two, and a long long has W bits.     *)
(* Small integers are objects shared by every key that holds them; any     *)
(* other object belongs to one key.                                        *)
(***************************************************************************)
EXTENDS Integers, Sequences, FiniteSets, SequencesExt, FiniteSetsExt, Bitwise, TLC

CONSTANTS W,              \* bits of a long long and of a machine word
          SharedInts,     \* OBJ_SHARED_INTEGERS
          EmbLimit,       \* OBJ_ENCODING_EMBSTR_SIZE_LIMIT
          StrLimit,       \* the 512 MB that a string may have
          FastBytes,      \* bytes BITOP and the popcount take in one step
          RdbInt,         \* the largest integer of the RDB encodings
          RdbChars,       \* longest string tried as one of them
          HashEntries,    \* hash-max-ziplist-entries
          HashValue,      \* hash-max-ziplist-value
          AofItems,       \* AOF_REWRITE_ITEMS_PER_CMD
          Keys, HashKeys, \* the keys that hold strings and hashes
          Args,           \* the strings clients send
          Fields,         \* the hash fields clients send
          Incrs,          \* the increments and bitfield values they send
          BitTypes,       \* the bitfield types, <<sign, bits>>
          Offsets,        \* the bit offsets
          FloatMax,       \* bound: floats stay within -FloatMax .. FloatMax
          Uses,           \* the commands clients use
          None

VARIABLES db, rep,        \* the master and the replica
          abs             \* what the keys hold, by the commands' meaning

vars == <<db, rep, abs>>

BYTE == 2

LMax == 2 ^ (W - 1) - 1

LMin == -(2 ^ (W - 1))

ToU(x) == x % 2 ^ W

ToI(x) == IF ToU(x) > LMax THEN ToU(x) - 2 ^ W ELSE ToU(x)

----------------------------------------------------------------------------
(* util.c: numbers as text.                                                *)

RECURSIVE Digits(_)
Digits(v) == IF v < 2 THEN << 2 + v >> ELSE Append(Digits(v \div 2), 2 + (v % 2))

ll2string(v) == IF v < 0 THEN << 1 >> \o Digits(-v) ELSE Digits(v)

RECURSIVE Accumulate(_, _, _)
Accumulate(s, i, v) ==
    IF i > Len(s) THEN v
    ELSE IF s[i] < 2 \/ v > (2 ^ W - 1) \div 2 \/ 2 * v > 2 ^ W - 1 - (s[i] - 2) THEN None
    ELSE Accumulate(s, i + 1, 2 * v + s[i] - 2)

string2ll(s) ==
    LET neg   == s # << >> /\ s[1] = 1
        first == IF neg THEN 2 ELSE 1
        v     == Accumulate(s, first + 1, 1)
    IN  IF s = << 2 >> THEN 0
        ELSE IF Len(s) < first \/ s[first] # 3 THEN None
        ELSE IF v = None THEN None
        ELSE IF neg THEN IF v > LMax + 1 THEN None ELSE -v
        ELSE IF v > LMax THEN None ELSE v

(* strtold() takes leading zeroes too; the value must be all of the text.  *)
string2ld(s) ==
    LET neg    == s # << >> /\ s[1] = 1
        digits == IF neg THEN Tail(s) ELSE s
        v      == FoldLeft(LAMBDA n, c : 2 * n + c - 2, 0, digits)
    IN  IF digits = << >> \/ \E i \in DOMAIN digits : digits[i] < 2 THEN None
        ELSE IF neg THEN -v ELSE v

----------------------------------------------------------------------------
(* object.c.  An object that is shared is the place of an integer in the   *)
(* table of shared integers, which is part of the server.                  *)

Raw(s) == [enc |-> "raw", ptr |-> s]

Emb(s) == [enc |-> "embstr", ptr |-> s]

Num(v) == [enc |-> "int", ptr |-> v]

Shared(v) == [enc |-> "shared", ptr |-> v]

Decoded(srv, o) ==
    CASE o.enc = "int"    -> ll2string(o.ptr)
      [] o.enc = "shared" -> ll2string(srv.ints[o.ptr])
      [] OTHER            -> o.ptr

createStringObject(s) == IF Len(s) <= EmbLimit THEN Emb(s) ELSE Raw(s)

(* With a maxmemory policy that needs the idle time of every key integers  *)
(* are not shared.                                                         *)
createStringObjectFromLongLongForValue(srv, v) ==
    IF srv.share /\ v \in 0 .. SharedInts - 1 THEN Shared(v) ELSE Num(v)

tryObjectEncoding(srv, s) ==
    LET v == string2ll(s)
    IN  IF v # None THEN createStringObjectFromLongLongForValue(srv, v)
        ELSE createStringObject(s)

NumberOf(srv, o) ==
    IF o = None THEN 0
    ELSE IF o.enc = "int" THEN o.ptr
    ELSE IF o.enc = "shared" THEN srv.ints[o.ptr]
    ELSE string2ll(o.ptr)

FloatOf(srv, o) == IF o = None THEN 0 ELSE string2ld(Decoded(srv, o))

(* A string that is changed in place must be a raw one of the key's own.   *)
dbUnshareStringValue(srv, o) == IF o.enc = "raw" THEN o ELSE Raw(Decoded(srv, o))

sdsgrowzero(s, len) == s \o [i \in 1 .. Max({0, len - Len(s)}) |-> 0]

----------------------------------------------------------------------------
(* db.c, and the results of a command: the server after it, and what of    *)
(* it is propagated, None when nothing was changed.                        *)

Put(srv, k, o) == [srv EXCEPT !.db[k] = o]

genericSetKey(srv, k, o, keepttl) == [srv EXCEPT !.db[k] = o, !.ttl[k] = keepttl /\ @]

dbDelete(srv, k) == [srv EXCEPT !.db[k] = None, !.ttl[k] = FALSE]

Nothing(srv) == [srv |-> srv, prop |-> None]

Done(srv, c) == [srv |-> srv, prop |-> c]

----------------------------------------------------------------------------
(* t_string.c.                                                             *)

setGenericCommand(srv, c) ==
    LET o   == tryObjectEncoding(srv, c.v)
        set == genericSetKey(srv, c.k, o, c.keep)
    IN  IF (c.nx /\ srv.db[c.k] # None) \/ (c.xx /\ srv.db[c.k] = None) THEN Nothing(srv)
        ELSE Done(IF c.ex THEN [set EXCEPT !.ttl[c.k] = TRUE] ELSE set, c)

getsetCommand(srv, c) == Done(genericSetKey(srv, c.k, tryObjectEncoding(srv, c.v), FALSE), c)

msetGenericCommand(srv, c) ==
    IF c.nx /\ \E i \in DOMAIN c.pairs : srv.db[c.pairs[i][1]] # None THEN Nothing(srv)
    ELSE Done(FoldLeft(LAMBDA s, p : genericSetKey(s, p[1], tryObjectEncoding(s, p[2]), FALSE),
                       srv, c.pairs), c)

Patched(s, off, v) ==
    LET long == sdsgrowzero(s, off + Len(v))
    IN  SubSeq(long, 1, off) \o v \o SubSeq(long, off + Len(v) + 1, Len(long))

setrangeCommand(srv, c) ==
    LET o    == srv.db[c.k]
        base == IF o = None THEN << >> ELSE dbUnshareStringValue(srv, o).ptr
    IN  IF c.v = << >> \/ c.off + Len(c.v) > StrLimit THEN Nothing(srv)
        ELSE Done(Put(srv, c.k, Raw(Patched(base, c.off, c.v))), c)

(* The object is changed in place when it is the key's own and the new     *)
(* value has no shared object.                                             *)
incrDecrCommand(srv, c) ==
    LET o == srv.db[c.k]
        v == NumberOf(srv, o)
        n == v + c.incr
    IN  IF v = None THEN Nothing(srv)
        ELSE IF (c.incr < 0 /\ v < 0 /\ c.incr < LMin - v) \/ (c.incr > 0 /\ v > 0 /\ c.incr > LMax - v)
        THEN Nothing(srv)
        ELSE IF o # None /\ o.enc = "int" /\ n \notin 0 .. SharedInts - 1
        THEN Done([srv EXCEPT !.db[c.k].ptr = n], c)
        ELSE Done(Put(srv, c.k, createStringObjectFromLongLongForValue(srv, n)), c)

(* Sums of floats and their text differ from build to build: round is what *)
(* this server adds.  The replicas are sent the result.                    *)
SetKeepTtl(k, v) == [op |-> "set", k |-> k, v |-> v, nx |-> FALSE, xx |-> FALSE, keep |-> TRUE, ex |-> FALSE]

FloatPropagates(c, v) == SetKeepTtl(c.k, v)

incrbyfloatCommand(srv, c, round) ==
    LET v == FloatOf(srv, srv.db[c.k])
        n == ll2string(v + c.incr + round)
    IN  IF v = None THEN Nothing(srv)
        ELSE Done(Put(srv, c.k, createStringObject(n)), FloatPropagates(c, n))

appendCommand(srv, c) ==
    LET o    == srv.db[c.k]
        long == dbUnshareStringValue(srv, o)
    IN  IF o = None THEN Done(Put(srv, c.k, tryObjectEncoding(srv, c.v)), c)
        ELSE IF Len(Decoded(srv, o)) + Len(c.v) > StrLimit THEN Nothing(srv)
        ELSE Done(Put(srv, c.k, [long EXCEPT !.ptr = @ \o c.v]), c)

(* GETRANGE, BITCOUNT: the ends as indexes from 0, or an empty range.      *)
Clipped(len, start, end) ==
    LET from == Max({0, IF start < 0 THEN len + start ELSE start})
        to   == Min({len - 1, Max({0, IF end < 0 THEN len + end ELSE end})})
    IN  IF start < 0 /\ end < 0 /\ start > end THEN << 1, 0 >> ELSE << from, to >>

getrange(s, start, end) ==
    LET r == Clipped(Len(s), start, end)
    IN  IF r[1] > r[2] \/ s = << >> THEN << >> ELSE SubSeq(s, r[1] + 1, r[2] + 1)

----------------------------------------------------------------------------
(* STRALGO LCS: the table, then a walk back from its last corner that      *)
(* spells the subsequence and reports the ranges that match.  The ranges   *)
(* are records of indexes from 0; an open one is extended to the left.     *)

Table(a, b) ==
    LET lcs[i \in 0 .. Len(a), j \in 0 .. Len(b)] ==
            IF i = 0 \/ j = 0 THEN 0
            ELSE IF a[i] = b[j] THEN lcs[i - 1, j - 1] + 1
            ELSE Max({lcs[i - 1, j], lcs[i, j - 1]})
    IN  lcs

RECURSIVE Walk(_, _, _, _, _, _, _, _)
Walk(a, b, lcs, i, j, result, range, found) ==
    IF i = 0 \/ j = 0 THEN [result |-> result, found |-> found]
    ELSE IF a[i] = b[j]
    THEN LET cont == range # None /\ range.a = i /\ range.b = j
             new  == IF range = None THEN [a |-> i - 1, ae |-> i - 1, b |-> j - 1, be |-> j - 1]
                     ELSE IF cont THEN [range EXCEPT !.a = @ - 1, !.b = @ - 1]
                     ELSE range
             emit == (range # None /\ ~cont) \/ new.a = 0 \/ new.b = 0
         IN  Walk(a, b, lcs, i - 1, j - 1, << a[i] >> \o result,
                  IF emit THEN None ELSE new, IF emit THEN Append(found, new) ELSE found)
    ELSE LET left == lcs[i - 1, j] > lcs[i, j - 1]
         IN  Walk(a, b, lcs, IF left THEN i - 1 ELSE i, IF left THEN j ELSE j - 1, result, None,
                  IF range # None THEN Append(found, range) ELSE found)

stralgoLCS(a, b) ==
    LET lcs == Table(a, b)
    IN  Walk(a, b, lcs, Len(a), Len(b), << >>, None, << >>) @@ [len |-> lcs[Len(a), Len(b)]]

----------------------------------------------------------------------------
(* bitops.c.  The first bit of a byte is its most significant one.         *)

BitOf(s, n) == (s[n \div BYTE + 1] \div 2 ^ (BYTE - 1 - (n % BYTE))) % 2

WithBit(s, n, on) ==
    [s EXCEPT ![n \div BYTE + 1] = @ + (on - BitOf(s, n)) * 2 ^ (BYTE - 1 - (n % BYTE))]

OnesIn(n) == Cardinality({i \in 0 .. W : (n \div 2 ^ i) % 2 = 1})

(* The bytes before the first aligned one, then steps of several words,    *)
(* then the rest; skew is the place of the first byte within a word.       *)
redisPopcount(s, skew) ==
    LET ones(S) == MapThenSumSet(LAMBDA i : OnesIn(s[i]), S)
        before  == Min({Len(s), (W \div BYTE - skew) % (W \div BYTE)})
        steps   == (Len(s) - before) \div FastBytes
    IN  ones(1 .. before)
        + ones(before + 1 .. before + steps * FastBytes)
        + ones(before + steps * FastBytes + 1 .. Len(s))

bitcount(s, start, end, skew) ==
    LET r == Clipped(Len(s), start, end)
    IN  IF r[1] > r[2] THEN 0 ELSE redisPopcount(SubSeq(s, r[1] + 1, r[2] + 1), skew)

(* Whole bytes and then whole words of the other bit are skipped; the rest *)
(* is one word, filled up with zeroes.                                     *)
RECURSIVE SkipBytes(_, _, _, _)
SkipBytes(s, at, n, byte) ==
    IF n = 0 \/ at > Len(s) THEN << at, FALSE >>
    ELSE IF s[at] # byte THEN << at, TRUE >>
    ELSE SkipBytes(s, at + 1, n - 1, byte)

RECURSIVE SkipWords(_, _, _)
SkipWords(s, at, byte) ==
    IF Len(s) - at + 1 < W \div BYTE \/ \E i \in at .. at + W \div BYTE - 1 : s[i] # byte THEN at
    ELSE SkipWords(s, at + W \div BYTE, byte)

redisBitpos(s, bit, skew) ==
    LET skip  == IF bit = 1 THEN 0 ELSE 2 ^ BYTE - 1
        first == SkipBytes(s, 1, (W \div BYTE - skew) % (W \div BYTE), skip)
        at    == IF first[2] THEN first[1] ELSE SkipWords(s, first[1], skip)
        word  == [i \in 1 .. W \div BYTE |-> IF at + i - 1 <= Len(s) THEN s[at + i - 1] ELSE 0]
        hits  == {n \in 0 .. W - 1 : BitOf(word, n) = bit}
    IN  IF hits = {} THEN -1 ELSE (at - 1) * BYTE + Min(hits)

(* end is None when the caller gave none.                                  *)
bitpos(s, bit, start, end, skew) ==
    LET len  == Len(s)
        last == IF end = None THEN len - 1 ELSE end
        from == Max({0, IF start < 0 THEN len + start ELSE start})
        to   == Min({len - 1, Max({0, IF last < 0 THEN len + last ELSE last})})
        pos  == redisBitpos(SubSeq(s, from + 1, to + 1), bit, skew)
    IN  IF from > to THEN -1
        ELSE IF end # None /\ bit = 0 /\ pos = (to - from + 1) * BYTE THEN -1
        ELSE IF pos # -1 THEN pos + from * BYTE ELSE -1

(* (uint64_t)-1 << bits; the shift takes its count modulo the width.       *)
MaskOf(bits) == 2 ^ W - 2 ^ (bits % W)

getUnsignedBitfield(s, off, bits) ==
    FoldLeft(LAMBDA v, j : 2 * v + BitOf(s, off + j - 1), 0, [j \in 1 .. bits |-> j])

getSignedBitfield(s, off, bits) ==
    LET u == getUnsignedBitfield(s, off, bits)
    IN  ToI(IF u >= 2 ^ (bits - 1) THEN u | MaskOf(bits) ELSE u)

getBitfield(s, op) ==
    IF op.sign THEN getSignedBitfield(s, op.off, op.bits) ELSE getUnsignedBitfield(s, op.off, op.bits)

setBitfield(s, off, bits, v) ==
    FoldLeft(LAMBDA t, j : WithBit(t, off + j - 1, (ToU(v) \div 2 ^ (bits - j)) % 2),
             s, [j \in 1 .. bits |-> j])

(* The three outcomes of an overflow: what limit is set to, and None where *)
(* there is none.                                                          *)
checkUnsignedBitfieldOverflow(value, incr, bits, ow) ==
    LET max  == 2 ^ bits - 1
        wrap == ToU(value + incr) & (2 ^ W - 1 - MaskOf(bits))
        over(to) == [overflow |-> TRUE, limit |-> CASE ow = "wrap" -> wrap [] ow = "sat" -> to [] OTHER -> 0]
    IN  IF value > max \/ (incr > 0 /\ incr > ToI(max - value)) THEN over(max)
        ELSE IF incr < 0 /\ incr < ToI(-value) THEN over(0)
        ELSE [overflow |-> FALSE, limit |-> 0]

checkSignedBitfieldOverflow(value, incr, bits, ow) ==
    LET max     == 2 ^ (bits - 1) - 1
        min     == -max - 1
        maxincr == ToI(max - value)
        minincr == ToI(min - value)
        c       == ToU(ToU(value) + ToU(incr))
        wrap    == IF (c \div 2 ^ (bits - 1)) % 2 = 1 THEN ToI(c | MaskOf(bits))
                   ELSE c & (2 ^ W - 1 - MaskOf(bits))
        over(to) == [overflow |-> TRUE, limit |-> CASE ow = "wrap" -> wrap [] ow = "sat" -> to [] OTHER -> 0]
    IN  IF value > max \/ (bits # W /\ incr > maxincr) \/ (value >= 0 /\ incr > 0 /\ incr > maxincr)
        THEN over(max)
        ELSE IF value < min \/ (bits # W /\ incr < minincr) \/ (value < 0 /\ incr < 0 /\ incr < minincr)
        THEN over(min)
        ELSE [overflow |-> FALSE, limit |-> 0]

(* One SET or INCRBY of a BITFIELD.                                        *)
BitfieldStep(s, op) ==
    LET old   == getBitfield(s, op)
        value == IF op.op = "incrby" THEN old ELSE IF op.sign THEN op.v ELSE ToU(op.v)
        incr  == IF op.op = "incrby" THEN op.v ELSE 0
        check == IF op.sign THEN checkSignedBitfieldOverflow(value, incr, op.bits, op.ow)
                 ELSE checkUnsignedBitfieldOverflow(value, incr, op.bits, op.ow)
        new   == IF check.overflow THEN check.limit ELSE value + incr
    IN  IF check.overflow /\ op.ow = "fail" THEN s ELSE setBitfield(s, op.off, op.bits, new)

(* A GET copies the bytes the field can touch to a buffer.                 *)
BitfieldGet(s, op) ==
    LET byte == op.off \div BYTE
        buf  == [i \in 1 .. W \div BYTE + 1 |-> IF byte + i <= Len(s) THEN s[byte + i] ELSE 0]
    IN  getBitfield(buf, [op EXCEPT !.off = @ - byte * BYTE])

lookupStringForBitCommand(srv, k, maxbit) ==
    LET o == srv.db[k]
    IN  sdsgrowzero(IF o = None THEN << >> ELSE dbUnshareStringValue(srv, o).ptr, maxbit \div BYTE + 1)

setbitCommand(srv, c) ==
    IF c.off \div BYTE >= StrLimit THEN Nothing(srv)
    ELSE Done(Put(srv, c.k, Raw(WithBit(lookupStringForBitCommand(srv, c.k, c.off), c.off, c.on))), c)

(* The string is grown for the highest offset before the first operation,  *)
(* whether or not one of them overflows.                                   *)
bitfieldGeneric(srv, c) ==
    LET high == Max({c.ops[i].off + c.ops[i].bits - 1 : i \in DOMAIN c.ops})
        s    == FoldLeft(BitfieldStep, lookupStringForBitCommand(srv, c.k, high), c.ops)
    IN  IF \E i \in DOMAIN c.ops : c.ops[i].off \div BYTE >= StrLimit THEN Nothing(srv)
        ELSE Done(Put(srv, c.k, Raw(s)), c)

Bitop(op, x, y) == CASE op = "and" -> x & y [] op = "or" -> x | y [] op = "xor" -> x ^^ y

(* Word by word over what all sources have, byte by byte with zeroes for   *)
(* the rest.  minlen starts from the first source that exists at its turn. *)
bitop(op, srcs) ==
    LET maxlen == Max({Len(srcs[i]) : i \in DOMAIN srcs})
        minlen == Min({Len(srcs[i]) : i \in DOMAIN srcs})
        fast   == (minlen \div FastBytes) * FastBytes
        byte(i, j) == IF j <= Len(srcs[i]) THEN srcs[i][j] ELSE 0
        first(j) == IF op = "not" THEN 2 ^ BYTE - 1 - byte(1, j) ELSE byte(1, j)
        slow(j) == FoldLeft(LAMBDA x, i : Bitop(op, x, byte(i, j)), first(j), [i \in 1 .. Len(srcs) - 1 |-> i + 1])
        quick(j) == FoldLeft(LAMBDA x, i : Bitop(op, x, srcs[i][j]), first(j), [i \in 1 .. Len(srcs) - 1 |-> i + 1])
    IN  [j \in 1 .. maxlen |-> IF j <= fast THEN quick(j) ELSE slow(j)]

bitopCommand(srv, c) ==
    LET src(k) == IF srv.db[k] = None THEN << >> ELSE Decoded(srv, srv.db[k])
        res    == bitop(c.bop, [i \in DOMAIN c.srcs |-> src(c.srcs[i])])
    IN  Done(IF res = << >> THEN dbDelete(srv, c.dst) ELSE genericSetKey(srv, c.dst, Raw(res), FALSE), c)

----------------------------------------------------------------------------
(* t_hash.c.  A small hash is a ziplist of fields and values in turn.      *)

Ziplist(zl) == [enc |-> "ziplist", zl |-> zl]

Dict(ht) == [enc |-> "ht", ht |-> ht]

(* ziplistFind(): compares an entry, skips the next skip ones.             *)
ziplistFind(zl, e) ==
    LET at == {i \in DOMAIN zl : i % 2 = 1 /\ zl[i] = e} IN IF at = {} THEN 0 ELSE Min(at)

hashTypeLength(o) == IF o.enc = "ziplist" THEN Len(o.zl) \div 2 ELSE Cardinality(DOMAIN o.ht)

hashTypeConvert(o) ==
    Dict([f \in {o.zl[i] : i \in {n \in DOMAIN o.zl : n % 2 = 1}} |-> o.zl[ziplistFind(o.zl, f) + 1]])

hashTypeTryConversion(o, args) ==
    IF o.enc = "ziplist" /\ \E i \in DOMAIN args : Len(args[i]) > HashValue THEN hashTypeConvert(o) ELSE o

hashTypeGetValue(o, f) ==
    IF o.enc = "ht" THEN IF f \in DOMAIN o.ht THEN o.ht[f] ELSE None
    ELSE LET at == ziplistFind(o.zl, f) IN IF at = 0 THEN None ELSE o.zl[at + 1]

hashTypeSet(o, f, v) ==
    LET at  == ziplistFind(o.zl, f)
        new == Ziplist(IF at = 0 THEN o.zl \o << f, v >> ELSE [o.zl EXCEPT ![at + 1] = v])
    IN  IF o.enc = "ht" THEN Dict((f :> v) @@ o.ht)
        ELSE IF hashTypeLength(new) > HashEntries THEN hashTypeConvert(new)
        ELSE new

hashTypeDelete(o, f) ==
    LET at == ziplistFind(o.zl, f)
    IN  IF o.enc = "ht" THEN Dict([g \in DOMAIN o.ht \ {f} |-> o.ht[g]])
        ELSE IF at = 0 THEN o
        ELSE Ziplist(SubSeq(o.zl, 1, at - 1) \o SubSeq(o.zl, at + 2, Len(o.zl)))

hashTypeLookupWriteOrCreate(srv, k) == IF srv.hash[k] = None THEN Ziplist(<< >>) ELSE srv.hash[k]

PutHash(srv, k, o) == [srv EXCEPT !.hash[k] = o]

SetAll(o, args) ==
    FoldLeft(LAMBDA h, i : hashTypeSet(h, args[2 * i - 1], args[2 * i]), o, [i \in 1 .. Len(args) \div 2 |-> i])

hsetCommand(srv, c) ==
    LET o == hashTypeTryConversion(hashTypeLookupWriteOrCreate(srv, c.k), c.args)
    IN  Done(PutHash(srv, c.k, SetAll(o, c.args)), c)

(* The conversion stays also when the field exists.                        *)
hsetnxCommand(srv, c) ==
    LET o == hashTypeTryConversion(hashTypeLookupWriteOrCreate(srv, c.k), c.args)
    IN  IF hashTypeGetValue(o, c.args[1]) # None THEN Nothing(PutHash(srv, c.k, o))
        ELSE Done(PutHash(srv, c.k, hashTypeSet(o, c.args[1], c.args[2])), c)

hincrbyCommand(srv, c) ==
    LET o   == hashTypeLookupWriteOrCreate(srv, c.k)
        old == hashTypeGetValue(o, c.f)
        v   == IF old = None THEN 0 ELSE string2ll(old)
    IN  IF v = None THEN Nothing(srv)
        ELSE IF (c.incr < 0 /\ v < 0 /\ c.incr < LMin - v) \/ (c.incr > 0 /\ v > 0 /\ c.incr > LMax - v)
        THEN Nothing(srv)
        ELSE Done(PutHash(srv, c.k, hashTypeSet(o, c.f, ll2string(v + c.incr))), c)

(* An infinite increment is refused after the key was created.             *)
hincrbyfloatCommand(srv, c, round) ==
    LET o   == hashTypeLookupWriteOrCreate(srv, c.k)
        old == hashTypeGetValue(o, c.f)
        v   == IF old = None THEN 0 ELSE string2ld(old)
        new == ll2string(v + c.incr + round)
    IN  IF v = None THEN Nothing(srv)
        ELSE IF c.inf THEN Nothing(PutHash(srv, c.k, o))
        ELSE Done(PutHash(srv, c.k, hashTypeSet(o, c.f, new)),
                  [op |-> "hset", k |-> c.k, args |-> << c.f, new >>])

(* The loop stops once the hash is empty and the key deleted.              *)
hdelCommand(srv, c) ==
    LET left == FoldLeft(LAMBDA o, f : IF hashTypeLength(o) = 0 THEN o ELSE hashTypeDelete(o, f),
                         srv.hash[c.k], c.args)
    IN  IF srv.hash[c.k] = None THEN Nothing(srv)
        ELSE IF left = srv.hash[c.k] THEN Nothing(srv)
        ELSE Done(PutHash(srv, c.k, IF hashTypeLength(left) = 0 THEN None ELSE left), c)

----------------------------------------------------------------------------
(* A command at a server; round is how its float sums come out.            *)

exec(srv, c, round) ==
    CASE c.op = "set"          -> setGenericCommand(srv, c)
      [] c.op = "getset"       -> getsetCommand(srv, c)
      [] c.op = "mset"         -> msetGenericCommand(srv, c)
      [] c.op = "append"       -> appendCommand(srv, c)
      [] c.op = "setrange"     -> setrangeCommand(srv, c)
      [] c.op = "incrby"       -> incrDecrCommand(srv, c)
      [] c.op = "incrbyfloat"  -> incrbyfloatCommand(srv, c, round)
      [] c.op = "setbit"       -> setbitCommand(srv, c)
      [] c.op = "bitfield"     -> bitfieldGeneric(srv, c)
      [] c.op = "bitop"        -> bitopCommand(srv, c)
      [] c.op = "hset"         -> hsetCommand(srv, c)
      [] c.op = "hsetnx"       -> hsetnxCommand(srv, c)
      [] c.op = "hincrby"      -> hincrbyCommand(srv, c)
      [] c.op = "hincrbyfloat" -> hincrbyfloatCommand(srv, c, round)
      [] c.op = "hdel"         -> hdelCommand(srv, c)

BitfieldOps ==
    { [op |-> o, sign |-> b[1], bits |-> b[2], off |-> off, v |-> v, ow |-> ow] :
          o \in {"set", "incrby"}, b \in BitTypes, off \in Offsets, v \in Incrs, ow \in {"wrap", "sat", "fail"} }

(* The commands clients send.                                              *)
Commands ==
    UNION { CASE u = "set" -> [op : {u}, k : Keys, v : Args, nx : BOOLEAN, xx : {FALSE}, keep : {FALSE}, ex : {FALSE}]
                         \cup [op : {u}, k : Keys, v : Args, nx : {FALSE}, xx : {TRUE}, keep : BOOLEAN, ex : {FALSE}]
                         \cup [op : {u}, k : Keys, v : Args, nx : {FALSE}, xx : {FALSE}, keep : {FALSE}, ex : {TRUE}]
              [] u = "getset"      -> [op : {u}, k : Keys, v : Args]
              [] u = "mset"        -> [op : {u}, pairs : {<< p, q >> : p, q \in Keys \X Args}, nx : BOOLEAN]
              [] u = "append"      -> [op : {u}, k : Keys, v : Args]
              [] u = "setrange"    -> [op : {u}, k : Keys, v : Args, off : 0 .. StrLimit]
              [] u = "incrby"      -> [op : {u}, k : Keys, incr : Incrs]
              [] u = "incrbyfloat" -> [op : {u}, k : Keys, incr : Incrs]
              [] u = "setbit"      -> [op : {u}, k : Keys, off : Offsets, on : {0, 1}]
              [] u = "bitfield"    -> [op : {u}, k : Keys, ops : {<< o >> : o \in BitfieldOps}]
              [] u = "bitfields"   -> [op : {"bitfield"}, k : Keys, ops : BitfieldOps \X BitfieldOps]
              [] u = "bitop"       -> [op : {u}, bop : {"and", "or", "xor"}, dst : Keys, srcs : Keys \X Keys]
                                 \cup [op : {u}, bop : {"not"}, dst : Keys, srcs : {<< k >> : k \in Keys}]
              [] u = "hset"        -> [op : {u}, k : HashKeys, args : Fields \X Args]
                                 \cup [op : {u}, k : HashKeys, args : Fields \X Args \X Fields \X Args]
              [] u = "hsetnx"      -> [op : {u}, k : HashKeys, args : Fields \X Args]
              [] u = "hincrby"     -> [op : {u}, k : HashKeys, f : Fields, incr : Incrs]
              [] u = "hincrbyfloat" -> [op : {u}, k : HashKeys, f : Fields, incr : Incrs, inf : {FALSE}]
              [] u = "infinity"    -> [op : {"hincrbyfloat"}, k : HashKeys, f : Fields, incr : {0}, inf : {TRUE}]
              [] u = "hdel"        -> [op : {u}, k : HashKeys, args : {<< f >> : f \in Fields} \cup Fields \X Fields]
              [] OTHER             -> {} : u \in Uses }

----------------------------------------------------------------------------
(* rdb.c and aof.c: a string is saved as an integer when that reads back   *)
(* as the same text, otherwise as it is.                                   *)

(* strtoll(): the number the text begins with, and where it ends.          *)
strtoll(s) ==
    LET first == IF s # << >> /\ s[1] = 1 THEN 2 ELSE 1
        end   == Min({i \in first .. Len(s) : s[i] < 2} \cup {Len(s) + 1})
        v     == FoldLeft(LAMBDA n, c : 2 * n + c - 2, 0, SubSeq(s, first, end - 1))
    IN  IF end = first THEN [v |-> 0, end |-> 1]
        ELSE [v |-> IF first = 2 THEN Max({LMin, -v}) ELSE Min({LMax, v}), end |-> end]

rdbTryIntegerEncoding(s) ==
    LET n == strtoll(s)
    IN  IF n.end <= Len(s) /\ s[n.end] # 0 THEN None
        ELSE IF ll2string(n.v) # s THEN None
        ELSE IF n.v \in -RdbInt - 1 .. RdbInt THEN n.v ELSE None

rdbSaveRawString(s) == IF Len(s) <= RdbChars THEN rdbTryIntegerEncoding(s) ELSE None

rdbSaveStringObject(srv, o) ==
    LET s == Decoded(srv, o)
        v == IF o.enc \in {"int", "shared"} THEN NumberOf(srv, o) ELSE rdbSaveRawString(s)
    IN  IF v # None /\ v \in -RdbInt - 1 .. RdbInt THEN [int |-> TRUE, v |-> v] ELSE [int |-> FALSE, v |-> s]

rdbLoadStringObject(srv, item) ==
    IF item.int THEN createStringObjectFromLongLongForValue(srv, item.v) ELSE tryObjectEncoding(srv, item.v)

LoadedText(s) == IF rdbSaveRawString(s) = None THEN s ELSE ll2string(rdbSaveRawString(s))

(* The fields and values as they are iterated.                             *)
Flat(o) ==
    IF o.enc = "ziplist" THEN o.zl
    ELSE FoldLeft(LAMBDA zl, f : zl \o << f, o.ht[f] >>, << >>, SetToSeq(DOMAIN o.ht))

(* A saved table is loaded as a ziplist until it is too long or meets a    *)
(* string that is.                                                         *)
rdbLoadHash(args) ==
    LET push(o, i) == IF o.enc = "ht" THEN Dict((args[2 * i - 1] :> args[2 * i]) @@ o.ht)
                      ELSE hashTypeTryConversion(Ziplist(o.zl \o << args[2 * i - 1], args[2 * i] >>),
                                                 << args[2 * i - 1], args[2 * i] >>)
    IN  FoldLeft(push, IF Len(args) \div 2 > HashEntries THEN Dict(<< >>) ELSE Ziplist(<< >>),
                 [i \in 1 .. Len(args) \div 2 |-> i])

rdbReloadHash(o) ==
    IF o.enc = "ziplist" THEN IF hashTypeLength(o) > HashEntries THEN hashTypeConvert(o) ELSE o
    ELSE rdbLoadHash([i \in DOMAIN Flat(o) |-> LoadedText(Flat(o)[i])])

rdbReload(srv) ==
    [srv EXCEPT !.db   = [k \in Keys |-> IF srv.db[k] = None THEN None
                                         ELSE rdbLoadStringObject(srv, rdbSaveStringObject(srv, srv.db[k]))],
                !.hash = [k \in HashKeys |-> IF srv.hash[k] = None THEN None ELSE rdbReloadHash(srv.hash[k])]]

(* The rewritten log is a SET for every string, and for a hash HMSETs of   *)
(* at most AofItems pairs.                                                 *)
rewriteHashObject(k, o) ==
    LET flat == Flat(o)
        n    == (Len(flat) \div 2 + AofItems - 1) \div AofItems
    IN  [i \in 1 .. n |-> [op |-> "hset", k |-> k,
                           args |-> SubSeq(flat, 2 * AofItems * (i - 1) + 1, Min({2 * AofItems * i, Len(flat)}))]]

Rewritten(srv) ==
    LET strings == {k \in Keys : srv.db[k] # None}
        hashes  == {k \in HashKeys : srv.hash[k] # None}
        set(k)  == [SetKeepTtl(k, Decoded(srv, srv.db[k])) EXCEPT !.keep = FALSE, !.ex = srv.ttl[k]]
    IN  FoldLeft(LAMBDA log, k : Append(log, set(k)), << >>, SetToSeq(strings))
        \o FoldLeft(LAMBDA log, k : log \o rewriteHashObject(k, srv.hash[k]), << >>, SetToSeq(hashes))

Empty(share) ==
    [db |-> [k \in Keys |-> None], ttl |-> [k \in Keys |-> FALSE], hash |-> [k \in HashKeys |-> None],
     ints |-> [v \in 0 .. SharedInts - 1 |-> v], share |-> share]

aofReload(srv) == FoldLeft(LAMBDA s, c : exec(s, c, 0).srv, Empty(srv.share), Rewritten(srv))

----------------------------------------------------------------------------
(* What the commands mean, on plain sequences of bits and functions.       *)

Bits(s) == [n \in 1 .. Len(s) * BYTE |-> BitOf(s, n - 1)]

Bytes(bits) ==
    [i \in 1 .. (Len(bits) + BYTE - 1) \div BYTE |->
        FoldLeft(LAMBDA v, n : 2 * v + (IF n <= Len(bits) THEN bits[n] ELSE 0), 0, [j \in 1 .. BYTE |-> (i - 1) * BYTE + j])]

Parsed(s) == LET V == {v \in LMin .. LMax : ll2string(v) = s} IN IF V = {} THEN None ELSE CHOOSE v \in V : TRUE

Least(b) == IF b.sign THEN -(2 ^ (b.bits - 1)) ELSE 0

Most(b) == IF b.sign THEN 2 ^ (b.bits - 1) - 1 ELSE 2 ^ b.bits - 1

(* The number a field holds is the one of its type whose last bits are the *)
(* field's.                                                                *)
Field(s, b) ==
    LET bit(n) == IF n <= Len(s) * BYTE THEN Bits(s)[n] ELSE 0
    IN  CHOOSE v \in Least(b) .. Most(b) :
            \A j \in 1 .. b.bits : ((v % 2 ^ b.bits) \div 2 ^ (b.bits - j)) % 2 = bit(b.off + j)

FieldSet(s, b) ==
    LET exact == IF b.op = "incrby" THEN Field(s, b) + b.v ELSE IF b.sign THEN b.v ELSE b.v % 2 ^ W
        fits  == exact \in Least(b) .. Most(b)
        new   == IF fits THEN exact
                 ELSE IF b.ow = "wrap" THEN CHOOSE v \in Least(b) .. Most(b) : v % 2 ^ b.bits = exact % 2 ^ b.bits
                 ELSE IF exact > Most(b) THEN Most(b) ELSE Least(b)
        in(n) == n \in b.off + 1 .. b.off + b.bits
    IN  IF ~fits /\ b.ow = "fail" THEN s
        ELSE Bytes([n \in 1 .. Len(s) * BYTE |->
                       IF in(n) THEN ((new % 2 ^ b.bits) \div 2 ^ (b.bits - (n - b.off))) % 2 ELSE Bits(s)[n]])

Padded(s, len) == [i \in 1 .. Max({Len(s), len}) |-> IF i <= Len(s) THEN s[i] ELSE 0]

Combined(op, T) ==
    LET len == Max({Len(s) : s \in T}) * BYTE
        bit(s, n) == IF n <= Len(s) * BYTE THEN Bits(s)[n] ELSE 0
        set(n) == CASE op = "and" -> \A s \in T : bit(s, n) = 1
                    [] op = "or"  -> \E s \in T : bit(s, n) = 1
                    [] op = "not" -> \A s \in T : bit(s, n) = 0
    IN  Bytes([n \in 1 .. len |-> IF set(n) THEN 1 ELSE 0])

Xored(s, t) ==
    Bytes([n \in 1 .. Max({Len(s), Len(t)}) * BYTE |->
              ((IF n <= Len(s) * BYTE THEN Bits(s)[n] ELSE 0) + (IF n <= Len(t) * BYTE THEN Bits(t)[n] ELSE 0)) % 2])

Str(a, k) == IF a.str[k] = None THEN << >> ELSE a.str[k]

Hash(a, k) == IF a.hash[k] = None THEN << >> ELSE a.hash[k]

WithStr(a, k, s, ttl) == [a EXCEPT !.str[k] = s, !.ttl[k] = ttl]

Updated(h, args) ==
    [f \in DOMAIN h \cup {args[i] : i \in {n \in DOMAIN args : n % 2 = 1}} |->
        LET at == {i \in DOMAIN args : i % 2 = 1 /\ args[i] = f} IN IF at = {} THEN h[f] ELSE args[Max(at) + 1]]

Meaning(a, c, round) ==
    CASE c.op = "set" ->
            IF (c.nx /\ a.str[c.k] # None) \/ (c.xx /\ a.str[c.k] = None) THEN a
            ELSE WithStr(a, c.k, c.v, c.ex \/ (c.keep /\ a.ttl[c.k]))
      [] c.op = "getset" -> WithStr(a, c.k, c.v, FALSE)
      [] c.op = "mset" ->
            IF c.nx /\ \E i \in DOMAIN c.pairs : a.str[c.pairs[i][1]] # None THEN a
            ELSE FoldLeft(LAMBDA b, p : WithStr(b, p[1], p[2], FALSE), a, c.pairs)
      [] c.op = "append" ->
            IF a.str[c.k] # None /\ Len(Str(a, c.k)) + Len(c.v) > StrLimit THEN a
            ELSE WithStr(a, c.k, Str(a, c.k) \o c.v, a.ttl[c.k])
      [] c.op = "setrange" ->
            IF c.v = << >> \/ c.off + Len(c.v) > StrLimit THEN a
            ELSE WithStr(a, c.k, [i \in DOMAIN Padded(Str(a, c.k), c.off + Len(c.v)) |->
                                     IF i \in c.off + 1 .. c.off + Len(c.v) THEN c.v[i - c.off]
                                     ELSE Padded(Str(a, c.k), i)[i]], a.ttl[c.k])
      [] c.op = "incrby" ->
            LET v == IF a.str[c.k] = None THEN 0 ELSE Parsed(a.str[c.k])
            IN  IF v = None THEN a
                ELSE IF v + c.incr \notin LMin .. LMax THEN a
                ELSE WithStr(a, c.k, ll2string(v + c.incr), a.ttl[c.k])
      [] c.op = "incrbyfloat" ->
            LET v == IF a.str[c.k] = None THEN 0 ELSE string2ld(a.str[c.k])
            IN  IF v = None THEN a ELSE WithStr(a, c.k, ll2string(v + c.incr + round), a.ttl[c.k])
      [] c.op = "setbit" ->
            IF c.off >= StrLimit * BYTE THEN a
            ELSE WithStr(a, c.k, Bytes([Bits(Padded(Str(a, c.k), c.off \div BYTE + 1)) EXCEPT ![c.off + 1] = c.on]),
                         a.ttl[c.k])
      [] c.op = "bitfield" ->
            IF \E i \in DOMAIN c.ops : c.ops[i].off >= StrLimit * BYTE THEN a
            ELSE WithStr(a, c.k, FoldLeft(FieldSet, Padded(Str(a, c.k),
                            Max({(c.ops[i].off + c.ops[i].bits - 1) \div BYTE + 1 : i \in DOMAIN c.ops})), c.ops), a.ttl[c.k])
      [] c.op = "bitop" ->
            LET res == IF c.bop = "xor" THEN Xored(Str(a, c.srcs[1]), Str(a, c.srcs[2]))
                       ELSE Combined(c.bop, {Str(a, c.srcs[i]) : i \in DOMAIN c.srcs})
            IN  WithStr(a, c.dst, IF res = << >> THEN None ELSE res, FALSE)
      [] c.op = "hset" -> [a EXCEPT !.hash[c.k] = Updated(Hash(a, c.k), c.args)]
      [] c.op = "hsetnx" ->
            IF c.args[1] \in DOMAIN Hash(a, c.k) THEN a ELSE [a EXCEPT !.hash[c.k] = Updated(Hash(a, c.k), c.args)]
      [] c.op \in {"hincrby", "hincrbyfloat"} ->
            LET v == IF c.f \notin DOMAIN Hash(a, c.k) THEN 0
                     ELSE IF c.op = "hincrby" THEN Parsed(Hash(a, c.k)[c.f]) ELSE string2ld(Hash(a, c.k)[c.f])
                n == v + c.incr + round
            IN  IF v = None THEN a
                ELSE IF c.op = "hincrby" /\ n \notin LMin .. LMax THEN a
                ELSE IF c.op = "hincrbyfloat" /\ c.inf THEN [a EXCEPT !.hollow = @ \cup {c.k}]
                ELSE [a EXCEPT !.hash[c.k] = Updated(Hash(a, c.k), << c.f, ll2string(n) >>)]
      [] c.op = "hdel" ->
            LET left == DOMAIN Hash(a, c.k) \ Range(c.args)
            IN  [a EXCEPT !.hash[c.k] = IF left = {} THEN None ELSE [f \in left |-> Hash(a, c.k)[f]]]

----------------------------------------------------------------------------
Init ==
    /\ \E mine, theirs \in BOOLEAN : db = Empty(mine) /\ rep = Empty(theirs)
    /\ abs = [str |-> [k \in Keys |-> None], ttl |-> [k \in Keys |-> FALSE], hash |-> [k \in HashKeys |-> None],
              hollow |-> {}]

(* Bound: no float sum leaves -FloatMax .. FloatMax.                       *)
Bounded(c) ==
    LET v == IF c.op = "incrbyfloat" THEN FloatOf(db, db.db[c.k])
             ELSE IF c.op = "hincrbyfloat" THEN IF c.f \notin DOMAIN Hash(abs, c.k) THEN 0 ELSE string2ld(Hash(abs, c.k)[c.f])
             ELSE None
    IN  IF v = None THEN TRUE ELSE v + c.incr \in -FloatMax .. FloatMax - 1

(* A command, and what the replica makes of what is propagated.            *)
Execute ==
    \E c \in Commands : \E round \in (IF c.op \in {"incrbyfloat", "hincrbyfloat"} THEN {0, 1} ELSE {0}) :
        /\ Bounded(c)
        /\ \E r \in {exec(db, c, round)} :
              /\ db' = r.srv
              /\ rep' = IF r.prop = None THEN rep ELSE exec(rep, r.prop, 1 - round).srv
        /\ \E a \in {Meaning(abs, c, round)} : abs' = [a EXCEPT !.hollow = {k \in @ : a.hash[k] = None}]

Restart ==
    /\ "restart" \in Uses
    /\ db' \in {rdbReload(db), aofReload(db)}
    /\ UNCHANGED <<rep, abs>>

Next == Execute \/ Restart

Spec == Init /\ [][Next]_vars

----------------------------------------------------------------------------
Contents(srv) ==
    [str  |-> [k \in Keys |-> IF srv.db[k] = None THEN None ELSE Decoded(srv, srv.db[k])],
     ttl  |-> srv.ttl,
     hash |-> [k \in HashKeys |-> IF srv.hash[k] = None THEN None
                                  ELSE [f \in DOMAIN hashTypeConvert(Ziplist(Flat(srv.hash[k]))).ht |->
                                           hashTypeGetValue(srv.hash[k], f)]]]

(* An infinite HINCRBYFLOAT of a key that does not exist is refused but    *)
(* leaves an empty hash, which neither the replica nor a rewritten log     *)
(* knows of: a key of abs.hollow holds no fields, but may exist.           *)
Same(x, y) ==
    /\ x.str = y.str
    /\ x.ttl = y.ttl
    /\ \A k \in HashKeys : \/ x.hash[k] = y.hash[k]
                           \/ k \in abs.hollow /\ \A h \in {x.hash[k], y.hash[k]} \ {None} : DOMAIN h = {}

(* Whatever the encodings the objects went through, and although small     *)
(* integers are one object for all keys that hold them: every key holds    *)
(* what the commands sent so far mean for it, an overflow check refuses    *)
(* just what does not fit, a command on one key changes no other, and a    *)
(* restart from either kind of file brings back the same.  The exception   *)
(* is the empty hash of an infinite increment (hincrbyfloatCommand).       *)
HoldsTheValues == Same(Contents(db), abs)

(* A replica that shares integers otherwise than its master, and whose     *)
(* float sums come out otherwise, holds the same values and expires, but   *)
(* for the empty hash of an infinite increment, which is not propagated.   *)
ReplicaHoldsTheSame == Same(Contents(rep), Contents(db))

(* The reads: GETRANGE, BITCOUNT, BITPOS and BITFIELD GET, with the bytes  *)
(* at any place of a machine word, agree with their definition on the bits *)
(* of the value.  An end before the first byte counts as the first byte;   *)
(* for GETRANGE and BITCOUNT not if the start is a greater negative index. *)
ReadsAgree ==
    \A k \in Keys : db.db[k] # None =>
        LET s    == Decoded(db, db.db[k])
            bits == Bits(s)
            at(e) == IF e < 0 THEN Len(s) + e ELSE e
            inside(start, end) == {i \in 0 .. Len(s) - 1 : at(start) <= i /\ i <= Max({0, at(end)})}
            hits(I, bit) == {n \in DOMAIN bits : (n - 1) \div BYTE \in I /\ bits[n] = bit}
        IN  /\ \A start \in -Len(s) - 1 .. Len(s) + 1, end \in -Len(s) - 2 .. Len(s) + 1, skew \in 0 .. W \div BYTE - 1 :
                  LET I == inside(start, end)
                      J == IF start < 0 /\ end < start THEN {} ELSE I
                  IN  /\ getrange(s, start, end) = [i \in 1 .. Cardinality(J) |-> s[Min(J) + i]]
                      /\ bitcount(s, start, end, skew) = Cardinality(hits(J, 1))
                      /\ \A bit \in {0, 1} : bitpos(s, bit, start, end, skew) =
                            (IF hits(I, bit) = {} THEN -1 ELSE Min(hits(I, bit)) - 1)
            /\ \A start \in 0 .. Len(s) + 1, skew \in 0 .. W \div BYTE - 1, bit \in {0, 1} :
                  LET I == inside(start, Len(s) - 1)
                  IN  bitpos(s, bit, start, None, skew) =
                        (IF hits(I, bit) # {} THEN Min(hits(I, bit)) - 1
                         ELSE IF bit = 0 /\ I # {} THEN Len(bits) ELSE -1)
            /\ \A b \in BitTypes, off \in Offsets :
                  LET op == [op |-> "get", sign |-> b[1], bits |-> b[2], off |-> off]
                  IN  BitfieldGet(s, op) = Field(s, op)

(* STRALGO LCS spells a longest common subsequence, and the ranges it      *)
(* reports are its letters: equal pieces of the two strings, from the last *)
(* to the first, that do not overlap.                                      *)
LcsIsLongest ==
    \A k, l \in Keys : (db.db[k] # None /\ db.db[l] # None) =>
        LET a == Decoded(db, db.db[k])
            b == Decoded(db, db.db[l])
            r == stralgoLCS(a, b)
            pick(s, I) == [i \in 1 .. Cardinality(I) |-> s[CHOOSE n \in I : Cardinality({m \in I : m <= n}) = i]]
            common == {pick(a, I) : I \in SUBSET DOMAIN a} \cap {pick(b, I) : I \in SUBSET DOMAIN b}
        IN  /\ r.len = Max({Len(s) : s \in common})
            /\ r.result \in common /\ Len(r.result) = r.len
            /\ Reverse(r.result) = FoldLeft(LAMBDA s, g : s \o Reverse(SubSeq(a, g.a + 1, g.ae + 1)), << >>, r.found)
            /\ \A i \in DOMAIN r.found :
                  LET g == r.found[i]
                  IN  /\ SubSeq(a, g.a + 1, g.ae + 1) = SubSeq(b, g.b + 1, g.be + 1)
                      /\ i > 1 => g.ae < r.found[i - 1].a /\ g.be < r.found[i - 1].b

=============================================================================
