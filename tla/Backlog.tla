------------------------------- MODULE Backlog -------------------------------
(***************************************************************************)
(* The replication backlog: the circular buffer in which a server keeps    *)
(* the last bytes of its replication stream, and from which a replica that *)
(* lost its link is served (replication.c).  A backlog is a record:        *)
(*   buf      the repl_backlog_size cells, a function on 0 .. size - 1     *)
(*   idx      repl_backlog_idx, the cell the next byte goes to             *)
(*   histlen  repl_backlog_histlen, how many cells hold stream bytes       *)
(*   off      repl_backlog_off, the offset of the oldest byte held         *)
(* A "byte" is any value; Psync puts whole commands in the cells.          *)
(* master_repl_offset belongs to the server and is passed in as moff.      *)
(***************************************************************************)
EXTENDS Integers, Sequences, FiniteSets, SequencesExt

\* The content of a cell that was never written (fresh zmalloc'ed memory).
Blank == [t |-> "blank"]

createReplicationBacklog(size, moff) ==
    [buf |-> [i \in 0 .. size - 1 |-> Blank], idx |-> 0, histlen |-> 0,
     off |-> moff + 1]

\* resizeReplicationBacklog (CONFIG SET repl-backlog-size): the content is dropped.
resizeReplicationBacklog(b, size, moff) ==
    IF size = Cardinality(DOMAIN b.buf) THEN b ELSE createReplicationBacklog(size, moff)

\* One byte of the memcpy loop: it goes to cell idx, which then wraps.
PutByte(b, x) ==
    [b EXCEPT !.buf[b.idx] = x,
              !.idx = IF b.idx + 1 = Cardinality(DOMAIN b.buf) THEN 0 ELSE b.idx + 1,
              !.histlen = b.histlen + 1]

\* feedReplicationBacklog: moff is master_repl_offset before the call.
feedReplicationBacklog(b, moff, bytes) ==
    LET size == Cardinality(DOMAIN b.buf)
        w    == FoldLeft(PutByte, b, bytes)
        hist == IF w.histlen > size THEN size ELSE w.histlen
    IN  [w EXCEPT !.histlen = hist, !.off = moff + Len(bytes) - hist + 1]

\* The offsets masterTryPartialResynchronization serves from this backlog.
InBacklog(b, offset) == offset >= b.off /\ offset <= b.off + b.histlen

\* What addReplyReplicationBacklog sends to a replica asking from offset on.
addReplyReplicationBacklog(b, offset) ==
    LET size == Cardinality(DOMAIN b.buf)
        skip == offset - b.off
        j    == (b.idx + (size - b.histlen) + skip) % size
    IN  IF b.histlen = 0 THEN <<>>
        ELSE [k \in 1 .. b.histlen - skip |-> b.buf[(j + k - 1) % size]]
=============================================================================
