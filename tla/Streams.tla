------------------------------ MODULE Streams ------------------------------
(***************************************************************************)
(* Streams and their consumer groups (t_stream.c), the readers blocked on  *)
(* them (blocked.c), what the master sends to its replica for each command *)
(* and the two images a stream is rebuilt from (aof.c, rdb.c).             *)
(*                                                                         *)
(* A stream is the list of its radix tree nodes.  A node has the ID of the *)
(* entry it was created for as its key, and a listpack: its entries, dead  *)
(* ones included, and the number of those alive.  An ID is a number, 0 is  *)
(* 0-0 and MaxId the ID of which all the bits are set, so that adding one  *)
(* to it wraps.  Fields and values are left out.                           *)
(***************************************************************************)
EXTENDS Integers, Sequences, FiniteSets, SequencesExt, FiniteSetsExt, TLC

CONSTANTS Groups, Consumers, Readers,
          MaxId,                \* UINT64_MAX-UINT64_MAX
          NodeEntries,          \* stream-node-max-entries
          NodeBytes,            \* stream-node-max-bytes, in entries
          Maxlens,              \* the MAXLEN arguments tried
          Counts,               \* the COUNT arguments tried, 0 for none
          SetIds,               \* the arguments of XSETID and XGROUP SETID
          Uses,                 \* the commands clients send
          MaxAdds,              \* bound on XADD
          None

VARIABLES stream,       \* the value of the key at the master, or None
          replica,      \* its value at a replica that got all that was sent
          blocked,      \* the readers waiting, the oldest first
          fresh,        \* of each group, how often an entry was delivered as new
          settled,      \* of each group, the entries nobody has to handle
          adds          \* the XADDs so far

vars == <<stream, replica, blocked, fresh, settled, adds>>

Ids == 0 .. MaxId

----------------------------------------------------------------------------
(* The data structure.                                                     *)

streamIncrID(id) == IF id = MaxId THEN 0 ELSE id + 1

streamNew == [nodes |-> << >>, length |-> 0, last |-> 0,
              groups |-> [g \in Groups |-> None]]

(* The node an iteration starts from: the last one whose key is not above  *)
(* the end it starts at, or else the first one forwards, the last one      *)
(* backwards.                                                              *)
streamIteratorStart(s, start, end, rev) ==
    LET at    == IF rev THEN end ELSE start
        below == {i \in DOMAIN s.nodes : s.nodes[i].key <= at}
    IN  IF at # 0 /\ below # {} THEN Max(below) ELSE IF rev THEN Len(s.nodes) ELSE 1

(* The entries an iteration comes across, of the nodes from there on.      *)
Visited(s, from, rev) ==
    FlattenSeq(IF rev THEN [i \in 1 .. from |-> Reverse(s.nodes[from + 1 - i].items)]
               ELSE [i \in 1 .. Len(s.nodes) + 1 - from |-> s.nodes[from + i - 1].items])

UpTo(items, far) == IF far = {} THEN items ELSE SubSeq(items, 1, Min(far) - 1)

Within(near, start, end, rev) ==
    UpTo(near, {i \in DOMAIN near : IF rev THEN near[i].id < start ELSE near[i].id > end})

IdsOf(items) == [i \in DOMAIN items |-> items[i].id]

(* The entries an iteration returns.  It skips the dead ones and those on  *)
(* the near side of the range and ends with the first one beyond it.       *)
streamIteratorGetID(s, start, end, rev) ==
    IdsOf(Within(SelectSeq(Visited(s, streamIteratorStart(s, start, end, rev), rev),
                           LAMBDA e : ~e.dead /\ IF rev THEN e.id <= end ELSE e.id >= start),
                 start, end, rev))

Exists(s, id) == streamIteratorGetID(s, id, id, FALSE) # << >>

streamLastValidID(s) == streamIteratorGetID(s, 0, MaxId, TRUE)[1]

HasAbove(s, id) == s # None /\ s.length > 0 /\ streamLastValidID(s) > id

(* A new entry goes to the last node unless it holds enough live entries   *)
(* or bytes already.  The caller has checked that the ID is above last.    *)
streamAppendItem(s, id) ==
    LET n     == Len(s.nodes)
        item  == [id |-> id, dead |-> FALSE]
        room  == /\ n > 0
                 /\ s.nodes[n].count < NodeEntries
                 /\ Len(s.nodes[n].items) < NodeBytes
        nodes == IF room
                 THEN [s.nodes EXCEPT ![n].items = Append(@, item), ![n].count = @ + 1]
                 ELSE Append(s.nodes, [key |-> id, count |-> 1, items |-> <<item>>])
    IN  [s EXCEPT !.nodes = nodes, !.length = @ + 1, !.last = id]

(* Marks the first n live entries of a node as deleted.                    *)
MarkDead(node, n) ==
    LET live == {i \in DOMAIN node.items : ~node.items[i].dead}
        old(i) == Cardinality({j \in live : j <= i}) <= n
    IN  [node EXCEPT !.count = @ - n,
                     !.items = [i \in DOMAIN @ |->
                                   IF i \in live /\ old(i) THEN [@[i] EXCEPT !.dead = TRUE] ELSE @[i]]]

(* Whole nodes go as long as maxlen entries are left, then, unless the     *)
(* length is approximate, single entries.                                  *)
streamTrimByLength(s, maxlen, approx) ==
    LET left(k) == s.length - FoldLeft(LAMBDA n, i : n + s.nodes[i].count, 0, [i \in 1 .. k |-> i])
        whole   == IF s.length <= maxlen THEN 0
                   ELSE Max({k \in 0 .. Len(s.nodes) : left(k) >= maxlen})
        kept    == SubSeq(s.nodes, whole + 1, Len(s.nodes))
        over    == left(whole) - maxlen
    IN  IF approx \/ over <= 0
        THEN [s EXCEPT !.nodes = kept, !.length = left(whole)]
        ELSE [s EXCEPT !.nodes = <<MarkDead(kept[1], over)>> \o Tail(kept), !.length = maxlen]

(* The node of the last live entry goes with it.                           *)
streamIteratorRemoveEntry(s, i, j) ==
    IF s.nodes[i].count = 1
    THEN [s EXCEPT !.nodes = RemoveAt(@, i), !.length = @ - 1]
    ELSE [s EXCEPT !.nodes[i].items[j].dead = TRUE, !.nodes[i].count = @ - 1,
                   !.length = @ - 1]

streamDeleteItem(s, id) ==
    LET i == CHOOSE i \in DOMAIN s.nodes : \E e \in Range(s.nodes[i].items) : e.id = id /\ ~e.dead
        j == CHOOSE j \in DOMAIN s.nodes[i].items :
                s.nodes[i].items[j].id = id /\ ~s.nodes[i].items[j].dead
    IN  IF Exists(s, id) THEN streamIteratorRemoveEntry(s, i, j) ELSE s

----------------------------------------------------------------------------
(* Consumer groups.  The list of pending entries (PEL) of a group tells    *)
(* the consumer of every entry, each consumer has the set of its own.      *)

NoPel == [id \in {} |-> None]

streamCreateCG(id) == [last |-> id, pel |-> NoPel, consumers |-> [c \in Consumers |-> None]]

streamLookupCG(s, g) == IF s = None THEN None ELSE s.groups[g]

streamLookupConsumer(cg, c) ==
    IF cg.consumers[c] = None THEN [cg EXCEPT !.consumers[c] = {}] ELSE cg

WithoutIds(pel, ids) == [id \in DOMAIN pel \ ids |-> pel[id]]

(* Entry id becomes pending for consumer c and for nobody else.            *)
Assign(cg, c, id) ==
    [cg EXCEPT !.pel = [i \in DOMAIN @ \cup {id} |-> IF i = id THEN c ELSE @[i]],
               !.consumers = [o \in Consumers |->
                                 IF o = c THEN @[c] \cup {id}
                                 ELSE IF @[o] = None THEN None ELSE @[o] \ {id}]]

streamDelConsumer(cg, c) ==
    IF cg.consumers[c] = None THEN cg
    ELSE [cg EXCEPT !.pel = WithoutIds(@, cg.consumers[c]), !.consumers[c] = None]

----------------------------------------------------------------------------
(* The commands, each as the stream it leaves.  What is sent to replicas   *)
(* is a sequence of commands, records with the arguments that matter.      *)

Out(s, sent) == [s |-> s, sent |-> sent]

Unsent(s) == Out(s, << >>)

streamPropagateXCLAIM(g, cg, id) ==
    [cmd |-> "xclaim", g |-> g, c |-> cg.pel[id], ids |-> <<id>>, lastid |-> cg.last,
     force |-> TRUE, idle |-> {id}]

streamPropagateGroupID(g, cg) == [cmd |-> "setid", g |-> g, id |-> cg.last]

(* An approximate MAXLEN is sent as the exact length it had as its effect, *)
(* an ID as the one that was generated.                                    *)
streamRewriteApproxMaxlen(s, x) ==
    IF x.approx THEN [x EXCEPT !.approx = FALSE, !.maxlen = s.length] ELSE x

xaddCommand(s0, x) ==
    LET s     == IF s0 = None THEN streamNew ELSE s0
        more  == streamAppendItem(s, x.id)
        after == IF x.maxlen = None THEN more ELSE streamTrimByLength(more, x.maxlen, x.approx)
    IN  IF x.id = 0 \/ s.last = MaxId \/ x.id <= s.last THEN Unsent(s)
        ELSE Out(after, <<streamRewriteApproxMaxlen(after, x)>>)

xtrimCommand(s, x) ==
    LET after == streamTrimByLength(s, x.maxlen, x.approx)
    IN  IF s = None THEN Unsent(s)
        ELSE IF after.length = s.length THEN Unsent(after)
        ELSE Out(after, <<streamRewriteApproxMaxlen(after, x)>>)

xdelCommand(s, x) ==
    LET after == FoldLeft(streamDeleteItem, s, x.ids)
    IN  IF s = None THEN Unsent(s)
        ELSE Out(after, IF after.length < s.length THEN <<x>> ELSE << >>)

xsetidCommand(s, x) ==
    IF s = None THEN Unsent(s)
    ELSE IF s.length > 0 /\ x.id < streamLastValidID(s) THEN Unsent(s)
    ELSE Out([s EXCEPT !.last = x.id], <<x>>)

xgroupCreate(s0, x) ==
    LET s == IF s0 = None THEN streamNew ELSE s0
    IN  IF s0 = None /\ ~x.mkstream THEN Unsent(s0)
        ELSE IF s.groups[x.g] # None THEN Unsent(s)
        ELSE Out([s EXCEPT !.groups[x.g] = streamCreateCG(IF x.id = None THEN s.last ELSE x.id)], <<x>>)

xgroupSetid(s, x) ==
    IF streamLookupCG(s, x.g) = None THEN Unsent(s)
    ELSE Out([s EXCEPT !.groups[x.g].last = x.id], <<x>>)

xgroupDestroy(s, x) ==
    IF streamLookupCG(s, x.g) = None THEN Unsent(s)
    ELSE Out([s EXCEPT !.groups[x.g] = None], <<x>>)

xgroupDelconsumer(s, x) ==
    IF streamLookupCG(s, x.g) = None THEN Unsent(s)
    ELSE Out([s EXCEPT !.groups[x.g] = streamDelConsumer(@, x.c)], <<x>>)

xackCommand(s, x) ==
    LET acked == ToSet(x.ids) \cap DOMAIN s.groups[x.g].pel
    IN  IF streamLookupCG(s, x.g) = None THEN Unsent(s)
        ELSE IF acked = {} THEN Unsent(s)
        ELSE Out([s EXCEPT !.groups[x.g].pel = WithoutIds(@, acked),
                           !.groups[x.g].consumers =
                               [c \in Consumers |-> IF @[c] = None THEN None ELSE @[c] \ acked]],
                 <<x>>)

(* x.idle has the pending entries that were idle for the time asked for.   *)
ClaimOne(o, x, id) ==
    LET cg      == o.s.groups[x.g]
        pending == id \in DOMAIN cg.pel
        claimed == Assign(streamLookupConsumer(cg, x.c), x.c, id)
    IN  IF pending /\ id \notin x.idle THEN o
        ELSE IF ~pending /\ ~(x.force /\ Exists(o.s, id)) THEN o
        ELSE Out([o.s EXCEPT !.groups[x.g] = claimed],
                 Append(o.sent, streamPropagateXCLAIM(x.g, claimed, id)))

xclaimCommand(s, x) ==
    LET raised == x.lastid > s.groups[x.g].last
        s1     == IF raised THEN [s EXCEPT !.groups[x.g].last = x.lastid] ELSE s
        done   == FoldLeft(LAMBDA o, id : ClaimOne(o, x, id), Unsent(s1), x.ids)
    IN  IF streamLookupCG(s, x.g) = None THEN Unsent(s)
        ELSE IF raised /\ done.sent = << >>
        THEN Out(done.s, <<streamPropagateGroupID(x.g, done.s.groups[x.g])>>)
        ELSE done

(* Delivery of entries from start on to consumer c of group g.             *)
DeliverOne(o, g, c, noack, id) ==
    LET cg  == [o.s.groups[g] EXCEPT !.last = IF id > @ THEN id ELSE @]
        got == IF noack THEN cg ELSE Assign(cg, c, id)
    IN  Out([o.s EXCEPT !.groups[g] = got],
            IF noack THEN o.sent ELSE Append(o.sent, streamPropagateXCLAIM(g, got, id)))

streamReplyWithRange(s, ids, g, c, noack) ==
    LET known == [s EXCEPT !.groups[g] = streamLookupConsumer(@, c)]
        done  == FoldLeft(LAMBDA o, id : DeliverOne(o, g, c, noack, id), Unsent(known), ids)
    IN  IF noack /\ ids # << >>
        THEN Out(done.s, <<streamPropagateGroupID(g, done.s.groups[g])>>)
        ELSE done

AtMost(ids, count) == IF count = 0 \/ count > Len(ids) THEN ids ELSE SubSeq(ids, 1, count)

Reached(s, start, count) == AtMost(streamIteratorGetID(s, start, MaxId, FALSE), count)

(* The pending entries of a consumer from start on, those of deleted       *)
(* entries included: they are returned without fields.                     *)
streamReplyWithRangeFromConsumerPEL(s, g, c, start) ==
    IF s.groups[g].consumers[c] = None THEN {}
    ELSE {id \in s.groups[g].consumers[c] : id >= start}

(* The commands that only report.  Those on a group's pending entries use  *)
(* the group's list or that of a consumer.                                 *)
xrangeGenericCommand(s, start, end, count, rev) ==
    AtMost(streamIteratorGetID(s, start, end, rev), IF count = None THEN 0 ELSE count)

xlenCommand(s) == IF s = None THEN 0 ELSE s.length

Consumed(cg) == {c \in Consumers : cg.consumers[c] # None}

xpendingSummary(cg) ==
    [total |-> Cardinality(DOMAIN cg.pel),
     per   |-> {<<c, Cardinality(cg.consumers[c])>> : c \in {c \in Consumed(cg) : cg.consumers[c] # {}}}]

xpendingRange(cg, c, start, end) ==
    LET pel == IF c = None THEN DOMAIN cg.pel
               ELSE IF c \notin Consumed(cg) THEN {} ELSE cg.consumers[c]
    IN  {<<id, cg.pel[id]>> : id \in pel \cap start .. end}

xinfoConsumers(cg) == {<<c, Cardinality(cg.consumers[c])>> : c \in Consumed(cg)}

xinfoReplyWithStreamInfo(s) ==
    [length |-> s.length,
     first  |-> xrangeGenericCommand(s, 0, MaxId, 1, FALSE),
     last   |-> xrangeGenericCommand(s, 0, MaxId, 1, TRUE)]

(* What a replica, or a server that loads the append only file, does.      *)
Apply(s, x) ==
    CASE x.cmd = "xadd"        -> xaddCommand(s, x).s
      [] x.cmd = "xtrim"       -> xtrimCommand(s, x).s
      [] x.cmd = "xdel"        -> xdelCommand(s, x).s
      [] x.cmd = "xsetid"      -> xsetidCommand(s, x).s
      [] x.cmd = "create"      -> xgroupCreate(s, x).s
      [] x.cmd = "setid"       -> xgroupSetid(s, x).s
      [] x.cmd = "destroy"     -> xgroupDestroy(s, x).s
      [] x.cmd = "delconsumer" -> xgroupDelconsumer(s, x).s
      [] x.cmd = "xack"        -> xackCommand(s, x).s
      [] x.cmd = "xclaim"      -> xclaimCommand(s, x).s
      [] x.cmd = "del"         -> None

ApplyAll(s, xs) == FoldLeft(Apply, s, xs)

----------------------------------------------------------------------------
(* The images of a stream.                                                 *)

xadd(id, maxlen, approx) == [cmd |-> "xadd", id |-> id, maxlen |-> maxlen, approx |-> approx]

rioWriteStreamPendingEntry(g, c, id) ==
    [cmd |-> "xclaim", g |-> g, c |-> c, ids |-> <<id>>, lastid |-> 0, force |-> TRUE, idle |-> {id}]

(* The commands an AOF rewrite emits for the stream.  An empty one is made *)
(* by an XADD that trims what it adds; XSETID restores the last ID.        *)
rewriteStreamObject(s) ==
    LET ids     == streamIteratorGetID(s, 0, MaxId, FALSE)
        entries == IF s.length = 0 THEN <<xadd(1, 0, FALSE)>>
                   ELSE [i \in DOMAIN ids |-> xadd(ids[i], None, FALSE)]
        alive   == {g \in Groups : s.groups[g] # None}
        pending(g) == UNION {{[g |-> g, c |-> c, id |-> id] : id \in s.groups[g].consumers[c]} :
                             c \in {c \in Consumers : s.groups[g].consumers[c] # None}}
        creates == SetToSeq({[cmd |-> "create", g |-> g, id |-> s.groups[g].last, mkstream |-> FALSE] : g \in alive})
        claims  == SetToSeq({rioWriteStreamPendingEntry(p.g, p.c, p.id) : p \in UNION {pending(g) : g \in alive}})
    IN  entries \o <<[cmd |-> "xsetid", id |-> s.last]>> \o creates \o claims

(* The dump file has the nodes as they are.  Of a group it has the IDs of  *)
(* the group's PEL without their consumers, then those of each consumer,   *)
(* from which loading restores who owns what.                              *)
rdbSaveGroup(cg) == [last |-> cg.last, pel |-> DOMAIN cg.pel, consumers |-> cg.consumers]

rdbLoadGroup(d) ==
    LET owner(id) == {c \in Consumers : d.consumers[c] # None /\ id \in d.consumers[c]}
    IN  [last |-> d.last, consumers |-> d.consumers,
         pel |-> [id \in d.pel |-> IF owner(id) = {} THEN None ELSE CHOOSE c \in owner(id) : TRUE]]

rdbReload(s) ==
    [s EXCEPT !.groups = [g \in Groups |-> IF @[g] = None THEN None ELSE rdbLoadGroup(rdbSaveGroup(@[g]))]]

----------------------------------------------------------------------------
(* Blocked readers.  A reader of a group waits for entries above the last  *)
(* one the group delivered, any other for those above gt.  back (a history *)
(* field): XGROUP SETID has moved its group to an older ID since.          *)

ServeOne_firstOnly(o, r) ==
    IF Len(o.left) < Len(blocked) \/ r.g # None \/ o.s.last <= r.gt THEN o
    ELSE [o EXCEPT !.left = SelectSeq(@, LAMBDA q : q # r)]

(* One ready key: each reader, the oldest first, gets what the ones before *)
(* it have left.                                                           *)
ServeOne(o, r) ==
    LET cg    == IF r.g = None THEN None ELSE streamLookupCG(o.s, r.g)
        gt    == IF cg = None THEN r.gt ELSE cg.last
        ids   == Reached(o.s, streamIncrID(gt), r.count)
        done  == streamReplyWithRange(o.s, ids, r.g, r.c, r.noack)
        gone  == [o EXCEPT !.left = SelectSeq(@, LAMBDA q : q # r)]
    IN  IF r.g # None /\ cg = None THEN gone
        ELSE IF o.s.last <= gt THEN o
        ELSE IF r.g = None THEN gone
        ELSE [gone EXCEPT !.s = done.s, !.sent = @ \o done.sent,
                          !.got = Append(@, [g |-> r.g, ids |-> ids, noack |-> r.noack])]

serveClientsBlockedOnStreamKey(o) == FoldLeft(ServeOne, o, blocked)

Served(o, ready) ==
    LET base == [s |-> o.s, sent |-> o.sent, left |-> blocked, got |-> << >>]
    IN  IF ready /\ o.s # None THEN serveClientsBlockedOnStreamKey(base) ELSE base

----------------------------------------------------------------------------
(* A command, what it sends, and the readers served after it.              *)

(* What deliveries got add to the two histories.                           *)
NewDeliveries(got, g, id) == Cardinality({i \in DOMAIN got : got[i].g = g /\ id \in ToSet(got[i].ids)})

Unacked(got, g) == UNION {ToSet(got[i].ids) : i \in {i \in DOMAIN got : got[i].g = g /\ got[i].noack}}

(* Histories start anew with the group and, where its last ID is set, with *)
(* what was asked for: entries above it are new again, those below it are  *)
(* nobody's work unless they are pending.                                  *)
Commit(o, waiting, got, settle, f) ==
    /\ stream' = o.s
    /\ replica' = ApplyAll(replica, o.sent)
    /\ blocked' = waiting
    /\ fresh' = [g \in Groups |-> [id \in Ids |-> f[g][id] + NewDeliveries(got, g, id)]]
    /\ settled' = [g \in Groups |-> settle[g] \cup Unacked(got, g)]

Plain(o) == Commit(o, blocked, << >>, settled, fresh)

Signals(o, ready) == \E v \in {Served(o, ready)} : Commit(v, v.left, v.got, settled, fresh)

Reset(g, id) ==
    [s |-> [settled EXCEPT ![g] = (@ \ {i \in Ids : i > id}) \cup {i \in Ids : i <= id}],
     f |-> [fresh EXCEPT ![g] = [i \in Ids |-> IF i > id THEN 0 ELSE @[i]]]]

XAdd == /\ "xadd" \in Uses
        /\ adds < MaxAdds
        /\ adds' = adds + 1
        /\ \E id \in 1 .. MaxId, m \in Maxlens \cup {None}, approx \in BOOLEAN :
               /\ m = None => ~approx
               /\ Signals(xaddCommand(stream, xadd(id, m, approx)), id > (IF stream = None THEN 0 ELSE stream.last))

XTrim == /\ "xtrim" \in Uses
         /\ \E m \in Maxlens, approx \in BOOLEAN :
                Plain(xtrimCommand(stream, [cmd |-> "xtrim", maxlen |-> m, approx |-> approx]))
         /\ UNCHANGED adds

XDel == /\ "xdel" \in Uses
        /\ \E id \in 1 .. MaxId : Plain(xdelCommand(stream, [cmd |-> "xdel", ids |-> <<id>>]))
        /\ UNCHANGED adds

XSetid == /\ "xsetid" \in Uses
          /\ \E id \in SetIds : Plain(xsetidCommand(stream, [cmd |-> "xsetid", id |-> id]))
          /\ UNCHANGED adds

Del == /\ "del" \in Uses
       /\ stream # None
       /\ Commit(Out(None, <<[cmd |-> "del"]>>), blocked, << >>,
                 [g \in Groups |-> {}], [g \in Groups |-> [id \in Ids |-> 0]])
       /\ UNCHANGED adds

XGroupCreate ==
    /\ "create" \in Uses
    /\ \E g \in Groups, id \in {0, None}, mk \in BOOLEAN :
           /\ streamLookupCG(stream, g) = None
           /\ \E r \in {Reset(g, IF id = 0 \/ stream = None THEN 0 ELSE stream.last)} :
                  Commit(xgroupCreate(stream, [cmd |-> "create", g |-> g, id |-> id, mkstream |-> mk]),
                         blocked, << >>, r.s, r.f)
    /\ UNCHANGED adds

XGroupSetid ==
    /\ "setid" \in Uses
    /\ \E g \in Groups, id \in SetIds :
           /\ streamLookupCG(stream, g) # None
           /\ \E r \in {Reset(g, id)} :
                  Commit(xgroupSetid(stream, [cmd |-> "setid", g |-> g, id |-> id]),
                         [i \in DOMAIN blocked |->
                              [blocked[i] EXCEPT !.back = @ \/ (blocked[i].g = g /\ id < stream.groups[g].last)]],
                         << >>, r.s, r.f)
    /\ UNCHANGED adds

XGroupDestroy ==
    /\ "destroy" \in Uses
    /\ \E g \in Groups :
           /\ streamLookupCG(stream, g) # None
           /\ Signals(xgroupDestroy(stream, [cmd |-> "destroy", g |-> g]), TRUE)
    /\ UNCHANGED adds

XGroupDelconsumer ==
    /\ "delconsumer" \in Uses
    /\ \E g \in Groups, c \in Consumers :
           /\ streamLookupCG(stream, g) # None
           /\ stream.groups[g].consumers[c] # None
           /\ Commit(xgroupDelconsumer(stream, [cmd |-> "delconsumer", g |-> g, c |-> c]), blocked,
                     << >>, [settled EXCEPT ![g] = @ \cup stream.groups[g].consumers[c]], fresh)
    /\ UNCHANGED adds

XAck == /\ "xack" \in Uses
        /\ \E g \in Groups, id \in 1 .. MaxId :
               /\ streamLookupCG(stream, g) # None
               /\ id \in DOMAIN stream.groups[g].pel
               /\ Commit(xackCommand(stream, [cmd |-> "xack", g |-> g, ids |-> <<id>>]), blocked,
                         << >>, [settled EXCEPT ![g] = @ \cup {id}], fresh)
        /\ UNCHANGED adds

XClaim == /\ "xclaim" \in Uses
          /\ \E g \in Groups, c \in Consumers, id \in 1 .. MaxId, force \in BOOLEAN, idle \in BOOLEAN :
                 /\ streamLookupCG(stream, g) # None
                 /\ Plain(xclaimCommand(stream, [cmd |-> "xclaim", g |-> g, c |-> c, ids |-> <<id>>,
                                                 lastid |-> 0, force |-> force,
                                                 idle |-> IF idle THEN {id} ELSE {}]))
          /\ UNCHANGED adds

Idle(r) == \A i \in DOMAIN blocked : blocked[i].r # r

(* XREAD and XREADGROUP are served at once if there is an entry to return, *)
(* else the reader waits if it said BLOCK and is not in a transaction.     *)
Waits(r) ==
    /\ Idle(r.r)
    /\ blocked' = Append(blocked, r @@ [back |-> FALSE])
    /\ UNCHANGED <<stream, replica, fresh, settled, adds>>

XRead == /\ "xread" \in Uses
         /\ \E r \in Readers, id \in Ids \cup {None} :
                LET gt == IF id # None THEN id ELSE IF stream = None THEN 0 ELSE stream.last
                IN  /\ ~HasAbove(stream, gt)
                    /\ Waits([r |-> r, g |-> None, c |-> None, gt |-> gt, count |-> 1, noack |-> FALSE])

XReadGroupNew ==
    /\ "xreadgroup" \in Uses
    /\ \E g \in Groups, c \in Consumers, n \in Counts, noack \in BOOLEAN :
           /\ streamLookupCG(stream, g) # None
           /\ \E cg \in {stream.groups[g]} :
               \E ids \in {Reached(stream, streamIncrID(cg.last), n)} :
                  \/ /\ HasAbove(stream, cg.last)
                     /\ Commit(streamReplyWithRange(stream, ids, g, c, noack), blocked,
                               <<[g |-> g, ids |-> ids, noack |-> noack]>>, settled, fresh)
                     /\ UNCHANGED adds
                  \/ /\ ~HasAbove(stream, cg.last)
                     /\ \E r \in Readers :
                           Waits([r |-> r, g |-> g, c |-> c, gt |-> MaxId, count |-> n, noack |-> noack])

(* Reading the own history makes the consumer known at the master only.    *)
XReadGroupHistory ==
    /\ "xreadgroup" \in Uses
    /\ \E g \in Groups, c \in Consumers :
           /\ streamLookupCG(stream, g) # None
           /\ stream' = [stream EXCEPT !.groups[g] = streamLookupConsumer(@, c)]
    /\ UNCHANGED <<replica, blocked, fresh, settled, adds>>

(* A reader gives up: its timeout expires or its connection is closed.     *)
Timeout == /\ \E i \in DOMAIN blocked : blocked' = RemoveAt(blocked, i)
           /\ UNCHANGED <<stream, replica, fresh, settled, adds>>

(* The replica restarts from a rewritten append only file: the entries are *)
(* spread over its nodes as if they had been added one after the other.    *)
ReplicaRestart == /\ "restart" \in Uses
                  /\ replica # None
                  /\ replica' = ApplyAll(None, rewriteStreamObject(replica))
                  /\ UNCHANGED <<stream, blocked, fresh, settled, adds>>

Init == /\ stream = None
        /\ replica = None
        /\ blocked = << >>
        /\ fresh = [g \in Groups |-> [id \in Ids |-> 0]]
        /\ settled = [g \in Groups |-> {}]
        /\ adds = 0

Next == \/ XAdd \/ XTrim \/ XDel \/ XSetid \/ Del
        \/ XGroupCreate \/ XGroupSetid \/ XGroupDestroy \/ XGroupDelconsumer
        \/ XAck \/ XClaim \/ XRead \/ XReadGroupNew \/ XReadGroupHistory \/ Timeout \/ ReplicaRestart

Spec == Init /\ [][Next]_vars

----------------------------------------------------------------------------
(* Properties.                                                             *)

Alive(s) == UNION {{e.id : e \in {e \in Range(s.nodes[i].items) : ~e.dead}} : i \in DOMAIN s.nodes}

(* Every range read forwards or backwards, whichever node it starts from,  *)
(* returns the live entries within it in order, and XLEN and XINFO agree   *)
(* with them, whatever was deleted, trimmed or added below an entry        *)
(* already dead (streamIteratorStart, streamIteratorGetID).                *)
RangesAreRight ==
    stream # None =>
        /\ xlenCommand(stream) = Cardinality(Alive(stream))
        /\ xinfoReplyWithStreamInfo(stream).length = 0 <=> xinfoReplyWithStreamInfo(stream).first = << >>
        /\ Alive(stream) # {} =>
               /\ xinfoReplyWithStreamInfo(stream).first = <<Min(Alive(stream))>>
               /\ xinfoReplyWithStreamInfo(stream).last = <<Max(Alive(stream))>>
        /\ \A a, b \in Ids :
               LET want == SetToSortSeq({id \in Alive(stream) : id \in a .. b}, <)
               IN  /\ xrangeGenericCommand(stream, a, b, None, FALSE) = want
                   /\ xrangeGenericCommand(stream, a, b, None, TRUE) = Reverse(want)

(* An entry pending in a group is pending for exactly one of its consumers *)
(* and for the one the group's list names, so that XPENDING tells the same *)
(* of the group and of its consumers: readers, XCLAIM, XACK and            *)
(* DELCONSUMER keep the two lists the same.                                *)
PendingHasOneOwner ==
    stream # None =>
        \A g \in Groups : stream.groups[g] # None =>
            LET cg == stream.groups[g]
                all == xpendingRange(cg, None, 0, MaxId)
            IN  /\ all = UNION {xpendingRange(cg, c, 0, MaxId) : c \in Consumers}
                /\ \A c \in Consumers : streamReplyWithRangeFromConsumerPEL(stream, g, c, 0) =
                                           {id \in DOMAIN cg.pel : cg.pel[id] = c}
                /\ xpendingSummary(cg).total = FoldSet(LAMBDA p, n : p[2] + n, 0, xinfoConsumers(cg))
                /\ xpendingSummary(cg).per = {p \in xinfoConsumers(cg) : p[2] > 0}

(* What users of a group rely on: its last ID and who owns what.           *)
GroupView(cg) == IF cg = None THEN None ELSE [last |-> cg.last, pel |-> cg.pel]

View(s) == IF s = None THEN None
           ELSE [ids |-> streamIteratorGetID(s, 0, MaxId, FALSE), length |-> s.length, last |-> s.last,
                 groups |-> [g \in Groups |-> GroupView(s.groups[g])]]

(* The replica that executed what was sent in place of reads, claims and   *)
(* approximate trims has the entries, group positions and owners of the    *)
(* master, although it never runs XREADGROUP (streamPropagateXCLAIM,       *)
(* streamPropagateGroupID, streamRewriteApproxMaxlen).                     *)
ReplicaAgrees == View(replica) = View(stream)

(* The AOF rewrite restores entries, last ID, groups and owners, except    *)
(* that it loses the pending entries whose message is deleted, and the     *)
(* dump file restores all of them (rewriteStreamObject, rdbLoadObject).    *)
ImagesRestore ==
    stream # None =>
        /\ View(rdbReload(stream)) = View(stream)
        /\ View(ApplyAll(None, rewriteStreamObject(stream))) =
               [View(stream) EXCEPT !.groups = [g \in Groups |->
                    IF @[g] = None THEN None
                    ELSE [@[g] EXCEPT !.pel = [id \in DOMAIN @ \cap Alive(stream) |-> @[id]]]]]

(* A group hands a message out as new once, and a message it has passed    *)
(* over is pending until it is acknowledged: nothing falls between the     *)
(* group's last ID and its pending list, neither for readers served at     *)
(* once nor for those woken up (streamReplyWithRange).                     *)
OnceAndNotForgotten ==
    stream # None =>
        \A g \in Groups : stream.groups[g] # None =>
            \A id \in Alive(stream) :
                /\ fresh[g][id] <= 1
                /\ id <= stream.groups[g].last => id \in DOMAIN stream.groups[g].pel \cup settled[g]

(* Nobody waits for what is there: a reader is blocked only while the      *)
(* stream has no entry for it (xreadCommand, signalKeyAsReady), unless     *)
(* XGROUP SETID, which signals nobody, moved its group back meanwhile.     *)
NobodyWaitsInVain ==
    stream # None =>
        \A i \in DOMAIN blocked :
            LET r == blocked[i]
                seen == IF r.g = None THEN r.gt
                        ELSE IF stream.groups[r.g] = None THEN 0 ELSE stream.groups[r.g].last
            IN  r.back \/ \A id \in Alive(stream) : id <= seen
============================================================================
