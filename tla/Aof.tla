---------------------------------- MODULE Aof ----------------------------------
(***************************************************************************)
(* The append only file (aof.c): feeding, flushing and fsync, the rewrite  *)
(* by a child with its pipes, switching AOF on and off, crash and reload,  *)
(* inside the event loop that replies to clients (ae.c, networking.c,      *)
(* server.c).                                                              *)
(*   data     the databases: each the sequence of writes it has applied;   *)
(*            a write is <<command, place in its transaction>>             *)
(*   srv      aof_state, aof_selected_db, aof_buf, the rewrite buffer, the *)
(*            last write status, the fsync bookkeeping                     *)
(*   file     what is under aof_filename: bytes, how many are on the disk, *)
(*            and a generation that changes with rename; half (a history   *)
(*            field): the transaction it was rewritten in the middle of,   *)
(*            cut: loading it truncated it where it should not, and tail:  *)
(*            the length it was renamed with                               *)
(*   jobs     fsync jobs of the bio thread                                 *)
(*   child    the rewriting child; pipe: the diff on its way to it         *)
(*   cl       the client: replies in its output buffer, and whether it is  *)
(*            in clients_pending_write or has a write handler; early (a    *)
(*            history field): replies sent in the event of their command   *)
(* A command of the log is two bytes <<c, 1>>, <<c, 2>>, so that a short   *)
(* write can cut it.  unixtime enters only through the two comparisons the *)
(* code makes: srv.due and srv.postponed.                                  *)
(***************************************************************************)
EXTENDS Integers, Sequences, SequencesExt, FiniteSets, FiniteSetsExt

CONSTANTS Dbs, None,
          Commands,             \* what the client sends: records [op, d, body]
          Policy,               \* appendfsync: "always", "everysec", "no"
          NoFsyncOnRewrite,     \* no-appendfsync-on-rewrite
          Preamble,             \* aof-use-rdb-preamble
          Threads,              \* io-threads above 1, and in use
          Disk,                 \* the states of the disk: {"ok"} or {"ok", "full"}
          OtherChild,           \* may a BGSAVE run too?
          MaxCommands, MaxGen, MaxCrashes   \* bounds

VARIABLES data, srv, file, jobs, child, pipe, cl, acked, phase, disk, other, n, crashes
vars == <<data, srv, file, jobs, child, pipe, cl, acked, phase, disk, other, n, crashes>>
parent == <<data, srv, file, jobs, cl, acked, phase, n, crashes>>

Bytes(c) == <<<<c, 1>>, <<c, 2>>>>
NoData == [d \in Dbs |-> <<>>]
FirstDb == CHOOSE d \in Dbs : \A e \in Dbs : d <= e

Started == [state |-> "on", seldb |-> None, buf |-> <<>>, rw |-> <<>>, status |-> "ok", sched |-> FALSE,
            due |-> FALSE, postponed |-> None, size |-> 0, fsyncoff |-> 0]
NewClient == [out |-> <<>>, queued |-> FALSE, handler |-> None, early |-> {}]

Init ==
    /\ data = NoData /\ srv = Started /\ file = [bytes |-> <<>>, synced |-> 0, gen |-> 0, half |-> None, cut |-> FALSE, tail |-> 0] /\ jobs = <<>>
    /\ child = None /\ pipe = <<>> /\ cl = NewClient /\ acked = {} /\ phase = "events" /\ disk = "ok"
    /\ other = FALSE /\ n = 0 /\ crashes = 0

Running == phase \in {"events", "timers"}
hasActiveChildProcess == child # None \/ other

-----------------------------------------------------------------------------
(* Loading *)

\* A command of the log, run by the fake client l.
RunCommand(l, c) ==
    CASE c.op = "select" -> [l EXCEPT !.sel = c.d]
      [] c.op = "write"  -> [l EXCEPT !.data[l.sel] = Append(@, c.w)]
      [] c.op = "value"  -> [l EXCEPT !.data[l.sel] = c.w]
      [] c.op = "preamble" -> [l EXCEPT !.data = c.w]
      [] OTHER -> l

\* MULTI queues until EXEC; an EXEC without MULTI is an error nobody reads.
LoadCommand(l, c) ==
    CASE l.multi /\ c.op # "exec" -> [l EXCEPT !.queue = Append(@, c)]
      [] c.op = "multi" -> [l EXCEPT !.multi = TRUE, !.before = l.valid]
      [] c.op = "exec"  -> [FoldLeft(RunCommand, l, l.queue) EXCEPT !.multi = FALSE, !.queue = <<>>]
      [] OTHER -> RunCommand(l, c)

LoadByte(l, b) ==
    LET pos == l.pos + 1
        c   == LoadCommand(l, b[1])
    IN  CASE l.bad -> l
          [] b[2] = 1 /\ l.half = None -> [l EXCEPT !.half = b[1], !.pos = pos]
          [] b[2] = 2 /\ l.half = b[1] ->
                [c EXCEPT !.half = None, !.pos = pos, !.valid = IF b[1].op = "preamble" THEN @ ELSE pos]
          [] OTHER -> [l EXCEPT !.bad = TRUE]

\* loadAppendOnlyFile, with aof-load-truncated: the data, and how much of the file is kept.
loadAppendOnlyFile(f) ==
    LET start == [data |-> NoData, sel |-> FirstDb, multi |-> FALSE, queue |-> <<>>, half |-> None,
                  pos |-> 0, valid |-> 0, before |-> 0, bad |-> FALSE]
        read[i \in 0 .. Len(f)] == IF i = 0 THEN start ELSE LoadByte(read[i - 1], f[i])
        l == read[Len(f)]
    IN  [data |-> l.data, bad |-> l.bad, torn |-> l.half # None /\ (l.multi \/ (l.valid = 0 /\ l.data # NoData)),
         keep |-> CASE l.half # None -> l.valid
                    [] l.multi -> l.before
                    [] OTHER -> Len(f)]

-----------------------------------------------------------------------------
(* Writing: m = [srv, file, jobs, exit] *)

aof_background_fsync(m) == [m EXCEPT !.jobs = Append(@, [gen |-> m.file.gen, done |-> FALSE])]
redis_fsync(m) == [m EXCEPT !.file.synced = Len(m.file.bytes)]

\* try_fsync
TryFsync(m, inProgress) ==
    CASE NoFsyncOnRewrite /\ hasActiveChildProcess -> m
      [] Policy = "always" -> [redis_fsync(m) EXCEPT !.srv.fsyncoff = m.srv.size, !.srv.due = FALSE]
      [] Policy = "everysec" /\ m.srv.due ->
            [IF inProgress THEN m ELSE [aof_background_fsync(m) EXCEPT !.srv.fsyncoff = m.srv.size] EXCEPT !.srv.due = FALSE]
      [] OTHER -> m

\* What the write leaves: all of the buffer, or an error after k bytes, which
\* ftruncate takes away or not.
Written(m) == [m EXCEPT !.file.bytes = @ \o m.srv.buf, !.srv.size = @ + Len(m.srv.buf), !.srv.buf = <<>>,
                        !.srv.status = "ok", !.srv.postponed = None]
TruncateTo(b, k) == IF k <= Len(b) THEN SubSeq(b, 1, k) ELSE Append(b, <<None, 0>>)
Failed(m, k, truncated) ==
    LET f == [m EXCEPT !.file.bytes = IF truncated THEN TruncateTo(@ \o SubSeq(m.srv.buf, 1, k), m.srv.size)
                                      ELSE @ \o SubSeq(m.srv.buf, 1, k),
                       !.srv.postponed = None]
    IN  CASE Policy = "always" -> [f EXCEPT !.exit = TRUE]
          [] Policy # "always" /\ truncated -> [f EXCEPT !.srv.status = "err"]
          [] OTHER -> [f EXCEPT !.srv.status = "err", !.srv.size = @ + k, !.srv.buf = SubSeq(@, k + 1, Len(@))]
Failures(m) ==
    IF disk = "ok" THEN {} ELSE {Failed(m, k, t) : k \in 0 .. Len(m.srv.buf) - 1, t \in BOOLEAN}

\* flushAppendOnlyFile before it looked for an fsync to do with an empty buffer
flushAppendOnlyFile(m, force) ==
    LET inProgress == Policy = "everysec" /\ m.jobs # <<>>
    IN  CASE m.srv.buf = <<>> ->
                {IF Policy = "everysec" /\ m.srv.fsyncoff # m.srv.size /\ m.srv.due /\ ~inProgress
                 THEN TryFsync(m, FALSE) ELSE m}
          [] m.srv.buf # <<>> /\ ~force /\ inProgress /\ m.srv.postponed = None -> {[m EXCEPT !.srv.postponed = 0]}
          [] m.srv.buf # <<>> /\ ~force /\ inProgress /\ m.srv.postponed \in {0, 1} -> {m}
          [] OTHER -> {TryFsync(Written(m), inProgress)} \cup Failures(m)

-----------------------------------------------------------------------------
(* Feeding *)

feedAppendOnlyFile(m, d, c) ==
    LET b == (IF d = m.srv.seldb THEN <<>> ELSE Bytes([op |-> "select", d |-> d])) \o Bytes(c)
    IN  [m EXCEPT !.srv.seldb = d,
                  !.srv.buf = IF m.srv.state = "on" THEN @ \o b ELSE @,
                  !.srv.rw = IF m.child # None THEN @ \o b ELSE @]

propagate(m, d, c) == IF m.srv.state = "off" THEN m ELSE feedAppendOnlyFile(m, d, c)

\* The rewriting child: forked with the data as they are; the parent's next
\* command must start with a SELECT.
rewriteAppendOnlyFileBackground(m) ==
    IF m.child # None \/ other \/ m.file.gen = MaxGen THEN m
    ELSE [m EXCEPT !.child = [phase |-> "rewriting", snap |-> m.data, diff |-> <<>>, stop |-> FALSE, ack |-> FALSE, half |-> None],
                   !.pipe = <<>>, !.srv.sched = FALSE, !.srv.seldb = None]

killAppendOnlyChild(m) ==
    IF m.child = None THEN m ELSE [m EXCEPT !.child = None, !.srv.rw = <<>>, !.pipe = <<>>]

bgrewriteaofCommand(m) ==
    CASE m.child # None -> m
      [] m.child = None /\ other -> [m EXCEPT !.srv.sched = TRUE]
      [] OTHER -> rewriteAppendOnlyFileBackground(m)

WriteOne(m, d, w) ==
    propagate([m EXCEPT !.data[d] = Append(@, w)], d, [op |-> "write", w |-> w])

\* History: the child was forked inside the transaction of command i.
InExec(m, i) == IF m.child # None /\ m.child.snap = m.data THEN [m EXCEPT !.child.half = i] ELSE m

\* The queued commands of a transaction, MULTI before the first write.
ExecBody(m, d, i, body) ==
    FoldLeft(LAMBDA a, j : IF body[j] = "bgrewriteaof" THEN InExec(bgrewriteaofCommand(a), i) ELSE WriteOne(a, d, <<i, j>>),
             m, [j \in 1 .. Len(body) |-> j])

execCommand(m, d, i, body) ==
    LET first == propagate(m, d, [op |-> "multi"])
    IN  propagate(ExecBody(first, d, i, body), d, [op |-> "exec"])

stopAppendOnly(m) ==
    {killAppendOnlyChild([redis_fsync(x) EXCEPT !.srv.seldb = None, !.srv.state = "off", !.srv.sched = FALSE]) :
        x \in flushAppendOnlyFile(m, TRUE)}

\* The old child has not been collecting the differences: a new one is started.
startAppendOnly(m) ==
    LET busy == other /\ m.child = None
        k == IF busy THEN [m EXCEPT !.srv.sched = TRUE] ELSE rewriteAppendOnlyFileBackground(killAppendOnlyChild(m))
    IN  IF ~busy /\ k.child = None THEN {k} ELSE {[k EXCEPT !.srv.state = "wait", !.srv.due = FALSE]}

-----------------------------------------------------------------------------
(* The event loop *)

\* A write is refused while the last write of the log failed.
writeCommandsDeniedByDiskError(m) == m.srv.state # "off" /\ m.srv.status = "err"

Call(m, c) ==
    CASE c.op \in {"write", "exec"} /\ writeCommandsDeniedByDiskError(m) -> {m}
      [] c.op = "write" -> {WriteOne(m, c.d, <<m.n, 1>>)}
      [] c.op = "exec" -> {execCommand(m, c.d, m.n, c.body)}
      [] c.op = "bgrewriteaof" -> {bgrewriteaofCommand(m)}
      [] c.op = "appendonly no" -> IF m.srv.state = "off" THEN {m} ELSE stopAppendOnly(m)
      [] c.op = "appendonly yes" -> IF m.srv.state = "off" THEN startAppendOnly(m) ELSE {m}

\* prepareClientToWrite: queued for beforeSleep unless it has replies already.
addReply(c, i) == [c EXCEPT !.out = Append(@, i), !.queued = @ \/ c.out = <<>>]

World == [srv |-> srv, file |-> file, jobs |-> jobs, exit |-> FALSE, data |-> data, child |-> child, pipe |-> pipe, n |-> n,
          cl |-> cl, acked |-> acked]
SetWorld(w) ==
    /\ srv' = w.srv /\ file' = w.file /\ jobs' = w.jobs /\ data' = w.data /\ child' = w.child /\ pipe' = w.pipe
    /\ n' = w.n /\ cl' = w.cl /\ acked' = w.acked

\* The reply to a write that was executed is its number, any other reply 0.
readQueryFromClient(w, c) ==
    {[x EXCEPT !.cl = addReply(x.cl, IF x.data = w.data THEN 0 ELSE x.n)] : x \in Call([w EXCEPT !.n = @ + 1], c)}

\* writeToClient sends k of the replies; the handler goes with the last one.
writeToClient(w, k) ==
    [w EXCEPT !.acked = @ \cup (ToSet(SubSeq(w.cl.out, 1, k)) \ {0}), !.cl.out = SubSeq(@, k + 1, Len(@)),
              !.cl.handler = IF k = Len(w.cl.out) THEN None ELSE @]
sendReplyToClient(w) == {writeToClient(w, k) : k \in 1 .. Len(w.cl.out)}

\* A socket readable and writable at once: read first, unless the handler has the barrier.
aeProcessEvents(w, c) ==
    IF w.cl.handler = "barrier" THEN UNION {readQueryFromClient(x, c) : x \in sendReplyToClient(w)}
    ELSE {[z EXCEPT !.cl.early = z.acked \cap {z.n}] :
              z \in UNION {sendReplyToClient(x) : x \in {y \in readQueryFromClient(w, c) : ~y.exit}}}

\* A process that exits takes its child's work, and whatever was not flushed, with it.
Exit ==
    /\ child' = None /\ pipe' = <<>> /\ jobs' = <<>> /\ cl' = [NewClient EXCEPT !.early = cl.early]
    /\ UNCHANGED <<data, acked, disk, other, crashes>>

Go(w, p) == IF w.exit THEN Exit /\ phase' = "dead" /\ srv' = w.srv /\ file' = w.file /\ n' = w.n
            ELSE SetWorld(w) /\ phase' = p /\ UNCHANGED <<disk, other, crashes>>

Readable ==
    /\ phase = "events" /\ n < MaxCommands
    /\ \E c \in Commands : \E w \in readQueryFromClient(World, c) : Go(w, "timers")

Writable ==
    /\ phase = "events" /\ cl.handler # None
    /\ \E w \in sendReplyToClient(World) : Go(w, "timers")

ReadableWritable ==
    /\ phase = "events" /\ cl.handler # None /\ n < MaxCommands
    /\ \E c \in Commands : \E w \in aeProcessEvents(World, c) : Go(w, "timers")

\* handleClientsWithPendingWrites(UsingThreads), after the flush.
PendingWrites(w) ==
    IF ~w.cl.queued THEN {w}
    ELSE LET u == [w EXCEPT !.cl.queued = FALSE]
         IN  {[x EXCEPT !.cl.handler = CASE x.cl.out = <<>> -> None
                                          [] x.cl.out # <<>> /\ ~Threads /\ Policy = "always" /\ x.srv.state = "on" -> "barrier"
                                          [] OTHER -> "plain"] :
                x \in {writeToClient(u, k) : k \in 0 .. Len(u.cl.out)}}

beforeSleep ==
    /\ Running
    /\ \E w \in flushAppendOnlyFile(World, FALSE) :
          IF w.exit THEN Go(w, "dead") ELSE \E x \in PendingWrites([w EXCEPT !.cl.early = {}]) : Go(x, "events")

-----------------------------------------------------------------------------
(* The child *)

\* Without the preamble, commands that rebuild each value of each database.
RewrittenValue(v) == Bytes([op |-> "value", w |-> v])
Rewritten(d) ==
    IF Preamble THEN Bytes([op |-> "preamble", w |-> d])
    ELSE FoldLeft(LAMBDA b, e : IF d[e] = <<>> THEN b ELSE b \o Bytes([op |-> "select", d |-> e]) \o RewrittenValue(d[e]),
                  <<>>, SetToSortSeq(Dbs, <))

Alive == child # None /\ child.phase \in {"rewriting", "asked", "final"}

\* The pipe takes all there is: bound (where a write is cut, the concatenation does not show).
aofChildWriteDiffData ==
    /\ Running /\ Alive /\ ~child.stop /\ srv.rw # <<>>
    /\ pipe' = pipe \o srv.rw /\ srv' = [srv EXCEPT !.rw = <<>>]
    /\ UNCHANGED <<data, file, jobs, child, cl, acked, phase, disk, other, n, crashes>>

aofReadDiffFromParent ==
    /\ Alive /\ child.phase = "rewriting" /\ pipe # <<>>
    /\ child' = [child EXCEPT !.diff = @ \o pipe] /\ pipe' = <<>>
    /\ UNCHANGED <<parent, disk, other>>

AskToStop ==
    /\ Alive /\ child.phase = "rewriting" /\ child' = [child EXCEPT !.phase = "asked"]
    /\ UNCHANGED <<parent, pipe, disk, other>>

aofChildPipeReadable ==
    /\ Running /\ Alive /\ child.phase = "asked" /\ ~child.stop
    /\ \E sent \in BOOLEAN : child' = [child EXCEPT !.stop = TRUE, !.ack = sent]
    /\ UNCHANGED <<parent, pipe, disk, other>>

\* The acknowledgement read, the final diff, then the file completed and synced.
rewriteAppendOnlyFile ==
    /\ Alive
    /\ \/ child.phase = "asked" /\ child.ack /\ child' = [child EXCEPT !.phase = "final", !.diff = @ \o pipe] /\ pipe' = <<>>
       \/ child.phase = "final" /\ child' = [child EXCEPT !.phase = "done"] /\ UNCHANGED pipe
    /\ UNCHANGED <<parent, disk, other>>

\* A write error, the acknowledgement that does not come in time, a signal.
ChildFails ==
    /\ Alive /\ child' = [child EXCEPT !.phase = "failed"]
    /\ UNCHANGED <<parent, pipe, disk, other>>

Cleanup(w) ==
    [w EXCEPT !.child = None, !.pipe = <<>>, !.srv.rw = <<>>, !.srv.sched = w.srv.state = "wait" \/ @]

\* The rest of the differences is written and the new file renamed; what the
\* child wrote is on the disk.
Renamed(w) ==
    LET temp == Rewritten(w.child.snap) \o w.child.diff
    IN  [w EXCEPT !.file = [bytes |-> temp \o w.srv.rw, synced |-> Len(temp), gen |-> @.gen + 1, half |-> w.child.half,
                               cut |-> FALSE, tail |-> Len(temp \o w.srv.rw)]]

\* Then, unless the process dies in between, the switch to it.
Switched(w) ==
    LET synced == CASE Policy = "always" -> redis_fsync(w)
                    [] Policy = "everysec" -> aof_background_fsync(w)
                    [] OTHER -> w
        len == Len(w.file.bytes)
    IN  IF w.srv.state = "off" THEN w
        ELSE [synced EXCEPT !.srv.seldb = None, !.srv.size = len, !.srv.fsyncoff = len, !.srv.buf = <<>>, !.srv.state = "on"]

backgroundRewriteDoneHandler_keepsBuffer(w) ==
    CASE phase = "switching" -> {Cleanup([Switched(w) EXCEPT !.srv.buf = w.srv.buf])}
      [] phase # "switching" /\ w.child.phase = "failed" -> {Cleanup(w)}
      [] OTHER -> {Renamed(w)}

backgroundRewriteDoneHandler(w) ==
    CASE phase = "switching" -> {Cleanup(Switched(w))}
      [] phase # "switching" /\ w.child.phase = "failed" -> {Cleanup(w)}
      [] OTHER -> {Renamed(w)} \cup (IF disk = "full" THEN {Cleanup(w)} ELSE {})

-----------------------------------------------------------------------------
(* serverCron *)

ChildrenCron(w) ==
    LET a == IF ~hasActiveChildProcess /\ w.srv.sched THEN rewriteAppendOnlyFileBackground(w) ELSE w
    IN  CASE a.child # None /\ a.child.phase \in {"done", "failed"} -> backgroundRewriteDoneHandler(a)
          [] a.child = None /\ ~other /\ a.srv.state = "on" -> {a, rewriteAppendOnlyFileBackground(a)}
          [] OTHER -> {a}

FlushCron(w) ==
    LET postponed == IF w.srv.postponed # None THEN flushAppendOnlyFile(w, FALSE) ELSE {w}
    IN  UNION {IF x.srv.status = "err" /\ ~x.exit THEN flushAppendOnlyFile(x, FALSE) ELSE {x} : x \in postponed}

serverCron ==
    /\ Running
    /\ \E x \in ChildrenCron(World) :
          IF x.file.gen # file.gen THEN Go(x, "switching") ELSE \E w \in FlushCron(x) : w # World /\ Go(w, "timers")

\* The rest of the same call.
serverCronSwitches ==
    /\ phase = "switching"
    /\ \E x \in backgroundRewriteDoneHandler(World) : \E w \in FlushCron(x) : Go(w, "timers")

\* SHUTDOWN NOSAVE: the child is killed, the buffer flushed and synced; not
\* while the first AOF is being written.
prepareForShutdown(w) ==
    CASE w.srv.state = "wait" /\ w.child # None -> {}
      [] w.srv.state = "off" -> {w}
      [] OTHER -> {redis_fsync(x) : x \in flushAppendOnlyFile(killAppendOnlyChild(w), TRUE)}

Shutdown ==
    /\ phase = "timers"
    /\ \E w \in prepareForShutdown(World) :
          Exit /\ phase' = (IF w.exit THEN "dead" ELSE "down") /\ srv' = w.srv /\ file' = w.file /\ n' = w.n

\* A second passes.
Tick ==
    /\ Running /\ Policy = "everysec" /\ (~srv.due \/ srv.postponed \in {0, 1})
    /\ srv' = [srv EXCEPT !.due = TRUE, !.postponed = IF @ \in {0, 1} THEN @ + 1 ELSE @]
    /\ UNCHANGED <<data, file, jobs, child, pipe, cl, acked, phase, disk, other, n, crashes>>

\* The bio thread: the fsync, then the job leaves the list.
bioFsync ==
    /\ (Running \/ phase = "switching") /\ jobs # <<>>
    /\ IF jobs[1].done THEN jobs' = Tail(jobs) /\ UNCHANGED file
       ELSE /\ jobs' = [jobs EXCEPT ![1].done = TRUE]
            /\ file' = IF jobs[1].gen = file.gen THEN [file EXCEPT !.synced = Len(file.bytes)] ELSE file
    /\ UNCHANGED <<data, srv, child, pipe, cl, acked, phase, disk, other, n, crashes>>

\* The disk fills up or gets room again; a BGSAVE starts or ends.
Environment ==
    /\ Running /\ UNCHANGED <<parent, child, pipe>>
    /\ \/ disk' \in Disk \ {disk} /\ UNCHANGED other
       \/ OtherChild /\ child = None /\ other' = ~other /\ UNCHANGED disk

\* The process dies while AOF is on; a power loss keeps only some of what was
\* not on the disk.
CrashFile(k) == [file EXCEPT !.bytes = SubSeq(@, 1, k), !.synced = k]
PowerLoss == {CrashFile(k) : k \in file.synced .. Len(file.bytes)}
Outcomes == IF srv.state = "on" THEN {file} \cup PowerLoss ELSE {}

Restart ==
    /\ crashes < MaxCrashes /\ crashes' = crashes + 1
    /\ \E f \in Outcomes :
          LET l == loadAppendOnlyFile(f.bytes)
          IN  /\ ~l.bad
              /\ data' = l.data
              /\ file' = [bytes |-> SubSeq(f.bytes, 1, l.keep), synced |-> Min({f.synced, l.keep}), gen |-> f.gen,
                          half |-> f.half, cut |-> f.cut \/ l.torn, tail |-> Min({f.tail, l.keep})]
              /\ srv' = [Started EXCEPT !.size = l.keep, !.fsyncoff = l.keep]
    /\ child' = None /\ pipe' = <<>> /\ jobs' = <<>> /\ cl' = NewClient /\ phase' = "events"
    /\ acked' = acked \cap {w[1] : w \in UNION {ToSet(data'[d]) : d \in Dbs}}
    /\ UNCHANGED <<disk, other, n>>

Next ==
    \/ Readable \/ Writable \/ ReadableWritable \/ beforeSleep \/ serverCron \/ serverCronSwitches
    \/ aofChildWriteDiffData \/ aofReadDiffFromParent \/ AskToStop \/ aofChildPipeReadable
    \/ rewriteAppendOnlyFile \/ ChildFails \/ Tick \/ Shutdown \/ bioFsync \/ Environment \/ Restart

Spec == Init /\ [][Next]_vars

-----------------------------------------------------------------------------
(* Properties *)

WritesOf(d) == UNION {ToSet(d[e]) : e \in Dbs}

TypeOK ==
    /\ srv.state \in {"on", "off", "wait"} /\ srv.status \in {"ok", "err"} /\ srv.postponed \in {None, 0, 1, 2}
    /\ phase \in {"events", "timers", "switching", "dead", "down"} /\ cl.handler \in {None, "plain", "barrier"} /\ acked \subseteq 1 .. MaxCommands

\* While AOF is on, replaying the file and then the buffer gives exactly the
\* data in memory: through short writes that could not be undone, through the
\* switch to a rewritten file, with the SELECTs each of them needs.  The exception
\* of the code: a command that is cut off when the file is loaded.  If it is the
\* first one behind a preamble, the preamble is truncated too (valid_up_to is
\* still 0); if it is inside a transaction, the MULTI stays in the file.
LogIsData ==
    (srv.state = "on" /\ Running /\ ~file.cut) =>
        LET l == loadAppendOnlyFile(file.bytes \o srv.buf) IN ~l.bad /\ l.data = data

\* Whatever a crash leaves of the file loads, into the writes up to some
\* command: no gap, and half of a transaction only if BGREWRITEAOF was one of
\* its commands, for the rewritten file begins in the middle of it.  A file that
\* was truncated in the wrong place is excepted here and below.
CrashIsPrefix ==
    ~file.cut => \A f \in Outcomes :
        LET l == loadAppendOnlyFile(f.bytes)
        IN  /\ ~l.bad
            /\ \E i \in 0 .. n :
                  \/ l.data = [d \in Dbs |-> SelectSeq(data[d], LAMBDA w : w[1] <= i)]
                  \/ /\ f.half = i + 1
                     /\ \E j \in 1 .. 2 : l.data = [d \in Dbs |-> SelectSeq(data[d], LAMBDA w : w[1] <= i \/ (w[1] = i + 1 /\ w[2] <= j))]

\* appendfsync always: a write whose reply has been sent survives any crash.
\* The exceptions of the code: io-threads install the write handler without the
\* barrier, so that a reply may leave in the event of its command, before the
\* flush; a rewritten file gets its name before its last part is synced, and is
\* not synced by a restart in between; no-appendfsync-on-rewrite.
AckedIsDurable ==
    (Policy = "always" /\ ~NoFsyncOnRewrite /\ ~file.cut /\ file.synced >= file.tail /\ (srv.state = "on" \/ ~Running)) =>
        \A f \in Outcomes :
            LET kept == {w[1] : w \in WritesOf(loadAppendOnlyFile(f.bytes).data)}
            IN  acked \subseteq (kept \cup IF Threads THEN cl.early ELSE {})

\* appendfsync everysec: what is not on the disk is known: an fsync of this file
\* is queued, or the bookkeeping says that one is due.
UnsyncedIsKnown ==
    (Policy = "everysec" /\ srv.state = "on" /\ phase # "switching" /\ file.synced < Len(file.bytes)) =>
        srv.fsyncoff # srv.size \/ \E i \in DOMAIN jobs : jobs[i].gen = file.gen /\ ~jobs[i].done

\* A shutdown with a disk that takes writes leaves the data in memory on it,
\* the effect of the commands just before included.
ShutdownKeepsData ==
    (phase = "down" /\ srv.state = "on" /\ disk = "ok" /\ ~file.cut) =>
        file.synced = Len(file.bytes) /\ loadAppendOnlyFile(file.bytes).data = data
=============================================================================
