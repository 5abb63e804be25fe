------------------------------- MODULE FullSync -------------------------------
(***************************************************************************)
(* Full resynchronisation on the side of the master (replication.c, and    *)
(* the RDB child of rdb.c): replicas wait for a BGSAVE, share one that     *)
(* runs, get the file from disk or through a pipe from the child, and have *)
(* the writes made meanwhile kept for them.                                *)
(*   rep[r]  the client of a replica: its replstate st, whether it can     *)
(*           take a streamed RDB (eof, SLAVE_CAPA_EOF), the stream kept    *)
(*           for it in its output buffer (buf), the chunks of a streamed   *)
(*           RDB it has (got), the dataset it is given (file)              *)
(*   child   the one child process, or None: RDB to disk, RDB to sockets,  *)
(*           or another (AOF rewrite, module); its dataset is that of the  *)
(*           fork                                                          *)
(*   pipe    rdb_pipe_conns and the ones among them with a write handler,  *)
(*           or None                                                       *)
(* The dataset is the sequence of writes since the last FLUSHALL.          *)
(***************************************************************************)
EXTENDS Integers, Sequences, SequencesExt, FiniteSets

CONSTANTS Replicas, None, Partial,
          Diskless,       \* repl_diskless_sync
          Chunks,         \* chunks of a streamed RDB
          MaxStream,      \* bound on the writes and flushes
          MaxDrops, MaxForks

VARIABLES data, rep, child, pipe, rdbfile, used
vars == <<data, rep, child, pipe, rdbfile, used>>

Flush == 0
Gone == [st |-> "none"]
Spend(what) == used' = [used EXCEPT ![what] = @ + 1]

Replay(d, stream) ==
    FoldLeft(LAMBDA a, x : IF x = Flush THEN <<>> ELSE Append(a, x), d, stream)

In(st) == {r \in Replicas : rep[r].st = st}

Init ==
    /\ data = <<>> /\ rep = [r \in Replicas |-> Gone] /\ child = None /\ pipe = None
    /\ rdbfile = <<>> /\ used = [stream |-> 0, drops |-> 0, forks |-> 0]

-----------------------------------------------------------------------------
(* Writes *)

\* replicationFeedSlaves: every replica but those waiting for a BGSAVE to start.
Feed(x) ==
    rep' = [r \in Replicas |->
              IF rep[r].st \in {"none", "start"} THEN rep[r] ELSE [rep[r] EXCEPT !.buf = Append(@, x)]]

ClientWrite ==
    /\ used.stream < MaxStream /\ Spend("stream")
    /\ data' = Append(data, used.stream + 1)
    /\ Feed(used.stream + 1)
    /\ UNCHANGED <<child, pipe, rdbfile>>

\* flushAllDataAndResetRDB kills the RDB child, which may have just ended, and
\* saves the empty dataset; FLUSHALL is then propagated.
flushall ==
    /\ used.stream < MaxStream /\ Spend("stream") /\ data # <<>>
    /\ data' = <<>> /\ rdbfile' = <<>>
    /\ IF child # None /\ child.type # "other" /\ child.st = "running"
       THEN child' = [child EXCEPT !.st = "failed"]
       ELSE UNCHANGED child
    /\ Feed(Flush)
    /\ UNCHANGED pipe

-----------------------------------------------------------------------------
(* Starting a BGSAVE *)

Forked(type) == [type |-> type, st |-> "running", snap |-> data, left |-> Chunks]

\* replicationSetupSlaveForFullResync for every replica of rp that waits.
SetupForFullResync(rp) ==
    [r \in Replicas |->
        IF rp[r].st = "start" THEN [rp[r] EXCEPT !.st = "end", !.buf = <<>>, !.got = 0] ELSE rp[r]]

\* startBgsaveForReplication, with the replicas as rp has them; when the fork
\* fails the replicas that wait are dropped.
startBgsaveForReplication(rp, mincapa) ==
    LET socket  == Diskless /\ mincapa
        waiting == {r \in Replicas : rp[r].st = "start"}
    IN  \/ /\ child' = Forked(IF socket THEN "socket" ELSE "disk")
           /\ rep' = SetupForFullResync(rp)
           /\ pipe' = IF socket THEN [conns |-> waiting, writing |-> {}] ELSE pipe
           /\ UNCHANGED used
        \/ /\ used.drops < MaxDrops /\ Spend("drops")
           /\ rep' = [r \in Replicas |-> IF r \in waiting THEN Gone ELSE rp[r]]
           /\ child' = None /\ UNCHANGED pipe

\* The capabilities all waiting replicas share.
MinCapa(rp) == \A r \in Replicas : rp[r].st = "start" => rp[r].eof

\* A replica attaches to the disk BGSAVE that runs for another one: same offset,
\* same buffer; only if it can do what the other can.
Attach_emptyBuffer(r, eof) ==
    /\ \E t \in In("end") : (rep[t].eof => eof)
           /\ rep' = [rep EXCEPT ![r] = [rep[t] EXCEPT !.eof = eof, !.buf = <<>>]]
    /\ UNCHANGED <<child, pipe, used>>

Attach(r, eof) ==
    /\ \E t \in In("end") : (rep[t].eof => eof)
           /\ rep' = [rep EXCEPT ![r] = [rep[t] EXCEPT !.eof = eof]]
    /\ UNCHANGED <<child, pipe, used>>

\* syncCommand, once a full resynchronisation is needed.
syncCommand(r, eof) ==
    /\ rep[r].st = "none"
    /\ LET rp == [rep EXCEPT ![r] = [st |-> "start", eof |-> eof, buf |-> <<>>, got |-> 0,
                                     file |-> Partial]]
           toDisk == child # None /\ child.type = "disk"
       IN  \/ toDisk /\ Attach(r, eof)
           \/ /\ toDisk => (In("end") = {} \/ \E t \in In("end") : rep[t].eof /\ ~eof)
              /\ child # None \/ (Diskless /\ eof)
              /\ rep' = rp /\ UNCHANGED <<child, pipe, used>>
           \/ /\ child = None /\ ~(Diskless /\ eof)
              /\ startBgsaveForReplication(rp, eof)
    /\ UNCHANGED <<data, rdbfile>>

\* replicationCron starts a BGSAVE for who waits.
replicationCron ==
    /\ child = None /\ pipe = None /\ In("start") # {}
    /\ startBgsaveForReplication(rep, MinCapa(rep))
    /\ UNCHANGED <<data, rdbfile>>

\* BGSAVE by a client or a save point, AOF rewrite or module fork.
OtherFork(type) ==
    /\ child = None /\ used.forks < MaxForks /\ Spend("forks")
    /\ child' = Forked(type)
    /\ UNCHANGED <<data, rep, pipe, rdbfile>>

-----------------------------------------------------------------------------
(* The child and its end *)

\* The child has renamed its file, or has written everything to the pipe.
ChildSucceeds ==
    /\ child # None /\ child.st = "running" /\ (child.type = "socket" => child.left = 0)
    /\ child' = [child EXCEPT !.st = "ok"]
    /\ rdbfile' = IF child.type = "disk" THEN child.snap ELSE rdbfile
    /\ UNCHANGED <<data, rep, pipe, used>>

ChildFails ==
    /\ child # None /\ child.st = "running" /\ used.drops < MaxDrops /\ Spend("drops")
    /\ child' = [child EXCEPT !.st = "failed"]
    /\ UNCHANGED <<data, rep, pipe, rdbfile>>

\* updateSlavesWaitingBgsave: a replica of a disk save gets the file opened now,
\* or is dropped; one that was streamed to must first acknowledge.
Served(r) ==
    CASE rep[r].st # "end"      -> rep[r]
      [] child.type = "socket"  -> [rep[r] EXCEPT !.st = "acking",
                                      !.file = IF rep[r].got = Chunks THEN child.snap ELSE Partial]
      [] child.type = "disk"    -> IF child.st = "ok"
                                   THEN [rep[r] EXCEPT !.st = "bulk", !.file = rdbfile]
                                   ELSE Gone
      [] OTHER                  -> rep[r]

\* checkChildrenDone: not before the pipe is drained.
checkChildrenDone ==
    /\ child # None /\ child.st # "running" /\ pipe = None
    /\ LET rp == [r \in Replicas |-> Served(r)]
       IN  IF child.type # "other" /\ In("start") # {}
           THEN startBgsaveForReplication(rp, MinCapa(rp))
           ELSE rep' = rp /\ child' = None /\ UNCHANGED <<pipe, used>>
    /\ UNCHANGED <<data, rdbfile>>

-----------------------------------------------------------------------------
(* Sending *)

\* rdbPipeReadHandler: the next chunk goes to every connection; the ones of W
\* take only a part of it and get a write handler.  Nobody left: the child is
\* killed.
PipeRead(W) ==
    /\ pipe # None /\ pipe.writing = {} /\ child.st = "running" /\ child.left > 0
    /\ W \subseteq pipe.conns
    /\ IF pipe.conns = {}
       THEN /\ child' = [child EXCEPT !.st = "failed"] /\ pipe' = None /\ UNCHANGED rep
       ELSE /\ child' = [child EXCEPT !.left = @ - 1]
            /\ pipe' = [pipe EXCEPT !.writing = W]
            /\ rep' = [r \in Replicas |->
                  IF r \in pipe.conns \ W THEN [rep[r] EXCEPT !.got = @ + 1] ELSE rep[r]]
    /\ UNCHANGED <<data, rdbfile, used>>

\* Reading the pipe fails: the replicas are dropped and the child is killed; its
\* end of the pipe is still to be seen.
PipeReadError ==
    /\ pipe # None /\ pipe.writing = {} /\ used.drops < MaxDrops /\ Spend("drops")
    /\ rep' = [r \in Replicas |-> IF r \in pipe.conns THEN Gone ELSE rep[r]]
    /\ pipe' = [pipe EXCEPT !.conns = {}]
    /\ child' = IF child.st = "running" THEN [child EXCEPT !.st = "failed"] ELSE child
    /\ UNCHANGED <<data, rdbfile>>

\* The child has closed the pipe: RdbPipeCleanup.
PipeEof ==
    /\ pipe # None /\ pipe.writing = {} /\ child.st # "running"
    /\ pipe' = None
    /\ UNCHANGED <<data, rep, child, rdbfile, used>>

\* rdbPipeWriteHandler: the rest of the chunk is written.
PipeWrite(r) ==
    /\ pipe # None /\ r \in pipe.writing \cap pipe.conns
    /\ pipe' = [pipe EXCEPT !.writing = @ \ {r}]
    /\ rep' = [rep EXCEPT ![r].got = @ + 1]
    /\ UNCHANGED <<data, child, rdbfile, used>>

\* sendBulkToSlave has sent the whole file.
sendBulkToSlave(r) ==
    /\ rep[r].st = "bulk"
    /\ rep' = [rep EXCEPT ![r].st = "online"]
    /\ UNCHANGED <<data, child, pipe, rdbfile, used>>

\* REPLCONF ACK of a replica that has loaded what was streamed: putSlaveOnline.
Ack(r) ==
    /\ rep[r].st = "acking" /\ rep[r].file # Partial
    /\ rep' = [rep EXCEPT ![r].st = "online"]
    /\ UNCHANGED <<data, child, pipe, rdbfile, used>>

\* freeClient of a replica; unlinkClient takes it off the pipe.
Freed_keepsWriting(r) ==
    /\ rep' = [rep EXCEPT ![r] = Gone]
    /\ pipe' = IF pipe = None THEN None
               ELSE [conns |-> pipe.conns \ {r}, writing |-> pipe.writing]

Freed(r) ==
    /\ rep' = [rep EXCEPT ![r] = Gone]
    /\ pipe' = IF pipe = None THEN None
               ELSE [conns |-> pipe.conns \ {r}, writing |-> pipe.writing \ {r}]

freeClient(r) ==
    /\ rep[r].st # "none" /\ used.drops < MaxDrops /\ Spend("drops")
    /\ Freed(r)
    /\ UNCHANGED <<data, child, rdbfile>>

\* A replica that did not get everything never acknowledges and times out.
Timeout(r) ==
    /\ rep[r].st = "acking" /\ rep[r].file = Partial
    /\ Freed(r)
    /\ UNCHANGED <<data, child, rdbfile, used>>

-----------------------------------------------------------------------------
Next ==
    \/ ClientWrite \/ flushall \/ replicationCron \/ ChildSucceeds \/ ChildFails
    \/ checkChildrenDone \/ PipeReadError \/ PipeEof
    \/ \E t \in {"disk", "other"} : OtherFork(t)
    \/ \E W \in SUBSET Replicas : PipeRead(W)
    \/ \E r \in Replicas :
          \/ \E eof \in BOOLEAN : syncCommand(r, eof)
          \/ PipeWrite(r) \/ sendBulkToSlave(r) \/ Ack(r) \/ freeClient(r) \/ Timeout(r)

Spec == Init /\ [][Next]_vars

\* The cron and the event loop run, children end, and a replica that is
\* connected reads what it is sent.
Progress ==
    \/ replicationCron \/ ChildSucceeds \/ checkChildrenDone \/ PipeEof
    \/ \E W \in SUBSET Replicas : PipeRead(W)
    \/ \E r \in Replicas : PipeWrite(r) \/ sendBulkToSlave(r) \/ Ack(r) \/ Timeout(r)

-----------------------------------------------------------------------------
(* Properties *)

\* States of clients, child and pipe fit together: a pipe belongs to a child
\* that streams, and to replicas that wait for its end.
TypeOK ==
    /\ \A r \in Replicas : rep[r].st \in {"none", "start", "end", "bulk", "acking", "online"}
    /\ child # None => child.type \in {"disk", "socket", "other"}
                       /\ child.st \in {"running", "ok", "failed"} /\ child.left \in 0 .. Chunks
    /\ pipe # None => /\ child # None /\ child.type = "socket"
                      /\ pipe.writing \subseteq pipe.conns /\ pipe.conns \subseteq In("end")

\* The dataset replica r is going to be given, or has been given.
GivenTo(r) ==
    IF rep[r].st # "end" THEN rep[r].file
    ELSE IF child.type = "disk" /\ child.st = "ok" THEN rdbfile ELSE child.snap

\* What a replica is given, followed by what is kept in its buffer, is the
\* dataset of the master: no write made during the BGSAVE is lost or applied
\* twice, also for the replica that joined a BGSAVE under way and across a
\* FLUSHALL that overwrote the file.
NoWriteLost ==
    \A r \in Replicas :
        /\ rep[r].st \in {"end", "bulk", "acking", "online"}
        /\ rep[r].st = "end" => child # None /\ child.st # "failed"
        /\ rep[r].st = "acking" => rep[r].file # Partial
        => Replay(GivenTo(r), rep[r].buf) = data

\* The stream starts only for a replica that has the whole RDB.
OnlineHasWholeFile ==
    \A r \in In("online") : rep[r].file # Partial

\* A replica that cannot find the end of a streamed RDB is never streamed to.
StreamedOnlyIfCapable ==
    child # None /\ child.type = "socket" => \A r \in In("end") : rep[r].eof

Waits(r) == rep[r].st \notin {"none", "online"}
=============================================================================
