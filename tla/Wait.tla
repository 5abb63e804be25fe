--------------------------------- MODULE Wait ---------------------------------
(***************************************************************************)
(* WAIT (replication.c): a client asks how many replicas have processed    *)
(* its writes, and blocks until enough have said so.                       *)
(*   log      the replication stream of this history: write ids, and       *)
(*            GetAck for each REPLCONF GETACK; its length is               *)
(*            master_repl_offset                                           *)
(*   rep[r]   a replica: state of its client here, how much of the stream  *)
(*            it has processed (len), repl_ack_off (ack), the latest ACK   *)
(*            on the way (sent; an earlier one changes nothing any more)   *)
(*   cl[c]    a client: c->woff, its last write and the history it made    *)
(*            it in, what it waits for, the last reply of WAIT             *)
(*   waiting  clients_waiting_acks                                         *)
(* The role of the server may change, which begins another history: hist   *)
(* counts them. A replica can only come back with a part of the stream if  *)
(* its history is still ours.                                              *)
(***************************************************************************)
EXTENDS Integers, Sequences, SequencesExt, FiniteSets, TLC

CONSTANTS Replicas, Clients,
          Flags,          \* how WAIT is called: pairs <<has a timeout, is inside MULTI>>
          MaxWrites, MaxWaits, MaxDrops, MaxRoleChanges,
          MaxForeign      \* bounds; MaxForeign: what another master adds to the stream

VARIABLES log, rep, cl, waiting, getack, master, hist, used
vars == <<log, rep, cl, waiting, getack, master, hist, used>>

GetAck == 0
Foreign == -1       \* a write of another master
Ping == -2
NoReply == -1
NoWrite == 0
Spend(what) == used' = [used EXCEPT ![what] = @ + 1]
master_repl_offset == Len(log)

NewClient == [woff |-> 0, last |-> NoWrite, hist |-> 0, off |-> 0, num |-> 0, timed |-> FALSE, reply |-> NoReply]

Init ==
    /\ log = <<>> /\ waiting = <<>> /\ getack = FALSE /\ master = TRUE /\ hist = 0
    /\ rep = [r \in Replicas |-> [st |-> "online", len |-> 0, ack |-> 0, sent |-> 0, hist |-> 0]]
    /\ cl = [c \in Clients |-> NewClient]
    /\ used = [writes |-> 0, waits |-> 0, drops |-> 0, roles |-> 0]

Blocked(c) == \E i \in DOMAIN waiting : waiting[i] = c

-----------------------------------------------------------------------------
(* Commands of the clients *)

Write(c) ==
    /\ ~Blocked(c) /\ master
    /\ used.writes < MaxWrites /\ Spend("writes")
    /\ log' = Append(log, used.writes + 1)
    /\ cl' = [cl EXCEPT ![c].woff = Len(log'), ![c].last = used.writes + 1, ![c].hist = hist,
                         ![c].reply = NoReply]
    /\ UNCHANGED <<rep, waiting, getack, master, hist>>

replicationCountAcksByOffset(offset) ==
    Cardinality({r \in Replicas : rep[r].st = "online" /\ rep[r].ack >= offset})

\* Any other command: it writes nothing and moves woff all the same.
Read(c) ==
    /\ ~Blocked(c) /\ cl[c].woff # master_repl_offset
    /\ cl' = [cl EXCEPT ![c].woff = master_repl_offset, ![c].reply = NoReply]
    /\ UNCHANGED <<log, rep, waiting, getack, master, hist, used>>

\* Inside MULTI, and when enough replicas have acknowledged, it answers at once.
waitCommand(c, num, timed, multi) ==
    /\ ~Blocked(c) /\ master
    /\ used.waits < MaxWaits /\ Spend("waits")
    /\ \E acks \in {replicationCountAcksByOffset(cl[c].woff)} :
         \/ /\ acks >= num \/ multi
            /\ cl' = [cl EXCEPT ![c].reply = acks, ![c].woff = master_repl_offset]
            /\ UNCHANGED <<waiting, getack>>
         \/ /\ acks < num /\ ~multi
            /\ cl' = [cl EXCEPT ![c].off = cl[c].woff, ![c].num = num, ![c].timed = timed,
                                ![c].reply = NoReply, ![c].woff = master_repl_offset]
            /\ waiting' = Append(waiting, c)
            /\ getack' = TRUE
    /\ UNCHANGED <<log, rep, master, hist>>

-----------------------------------------------------------------------------
(* beforeSleep: clients whose time is up, then the others, then GETACK *)

\* The remembered count is used without comparing the offsets.
processClientsWaitingReplicas_anyOffset(cs) ==
    FoldLeft(LAMBDA a, c :
               IF a.lastnum > cl[c].num
                 THEN [a EXCEPT !.reply = @ @@ (c :> a.lastnum)]
                 ELSE LET n == replicationCountAcksByOffset(cl[c].off)
                      IN  IF n < cl[c].num THEN a
                          ELSE [reply |-> a.reply @@ (c :> n), lastoff |-> cl[c].off, lastnum |-> n],
             [reply |-> <<>>, lastoff |-> 0, lastnum |-> 0], cs).reply

\* The clients unblocked and their replies; the last count is reused for a
\* client that asks for less.
processClientsWaitingReplicas(cs) ==
    FoldLeft(LAMBDA a, c :
               IF a.lastoff > cl[c].off /\ a.lastnum > cl[c].num
                 THEN [a EXCEPT !.reply = @ @@ (c :> a.lastnum)]
                 ELSE LET n == replicationCountAcksByOffset(cl[c].off)
                      IN  IF n < cl[c].num THEN a
                          ELSE [reply |-> a.reply @@ (c :> n), lastoff |-> cl[c].off, lastnum |-> n],
             [reply |-> <<>>, lastoff |-> 0, lastnum |-> 0], cs).reply

\* A client that timed out is told how many there are so far.
replyToBlockedClientTimedOut(cs) == [c \in cs |-> replicationCountAcksByOffset(cl[c].off)]

Timed == {c \in Clients : Blocked(c) /\ cl[c].timed}

beforeSleep(expired) ==
    /\ waiting # <<>> \/ getack
    /\ \E rest \in {SelectSeq(waiting, LAMBDA c : c \notin expired)} :
       \E reply \in {replyToBlockedClientTimedOut(expired) @@ processClientsWaitingReplicas(rest)} :
         /\ waiting' = SelectSeq(waiting, LAMBDA c : c \notin DOMAIN reply)
         /\ cl' = [c \in Clients |-> IF c \in DOMAIN reply THEN [cl[c] EXCEPT !.reply = reply[c], !.off = 0, !.num = 0, !.timed = FALSE] ELSE cl[c]]
    /\ log' = IF getack /\ master THEN Append(log, GetAck) ELSE log
    /\ getack' = FALSE
    /\ UNCHANGED <<rep, master, hist, used>>

-----------------------------------------------------------------------------
(* Replicas *)

\* The replica processes the next command; to GETACK it answers with the
\* offset before it.
ReplicaStep(r) ==
    /\ rep[r].st = "online" /\ rep[r].len < Len(log)
    /\ rep' = [rep EXCEPT ![r].len = @ + 1,
                          ![r].sent = IF log[rep[r].len + 1] = GetAck THEN rep[r].len ELSE @]
    /\ UNCHANGED <<log, cl, waiting, getack, master, hist, used>>

\* replicationCron of the replica, once a second.
replicationSendAck(r) ==
    /\ rep[r].st = "online" /\ rep[r].sent < rep[r].len
    /\ rep' = [rep EXCEPT ![r].sent = rep[r].len]
    /\ UNCHANGED <<log, cl, waiting, getack, master, hist, used>>

\* replicationCron of the master, every repl_ping_slave_period. Only the PINGs
\* somebody needs are followed: a client waits for an offset that the stream,
\* begun anew, has not reached.
PingReplicas ==
    /\ master /\ \E r \in Replicas : rep[r].st # "gone"
    /\ \E c \in Clients : Blocked(c) /\ cl[c].off > Len(log)
    /\ log' = Append(log, Ping)
    /\ UNCHANGED <<rep, cl, waiting, getack, master, hist, used>>

\* The offset of a full resynchronisation counts as an acknowledgement.
FullResync_ackedAtOnce(r) ==
    /\ master /\ rep[r].st = "gone"
    /\ rep' = [rep EXCEPT ![r] = [st |-> "sync", len |-> 0, ack |-> Len(log), sent |-> 0, hist |-> hist]]
    /\ UNCHANGED <<log, cl, waiting, getack, master, hist, used>>

replconfAck(r) ==
    /\ rep[r].st = "online" /\ rep[r].sent > rep[r].ack
    /\ rep' = [rep EXCEPT ![r].ack = rep[r].sent]
    /\ UNCHANGED <<log, cl, waiting, getack, master, hist, used>>

\* A new client of the replica, and with it a new repl_ack_off.
PartialResync(r) ==
    /\ master /\ rep[r].st = "gone" /\ rep[r].hist = hist
    /\ rep' = [rep EXCEPT ![r].st = "online", ![r].ack = 0, ![r].sent = 0]
    /\ UNCHANGED <<log, cl, waiting, getack, master, hist, used>>

FullResync(r) ==
    /\ master /\ rep[r].st = "gone"
    /\ rep' = [rep EXCEPT ![r] = [st |-> "sync", len |-> Len(log), ack |-> 0, sent |-> 0, hist |-> hist]]
    /\ UNCHANGED <<log, cl, waiting, getack, master, hist, used>>

SnapshotLoaded(r) ==
    /\ rep[r].st = "sync"
    /\ rep' = [rep EXCEPT ![r].st = "online"]
    /\ UNCHANGED <<log, cl, waiting, getack, master, hist, used>>

\* The link breaks; after half a full resynchronisation the replica has no
\* history to continue.
Drop(r) ==
    /\ rep[r].st # "gone" /\ used.drops < MaxDrops /\ Spend("drops")
    /\ rep' = [rep EXCEPT ![r].st = "gone", ![r].sent = 0, ![r].hist = IF rep[r].st = "sync" THEN -1 ELSE @]
    /\ UNCHANGED <<log, cl, waiting, getack, master, hist>>

-----------------------------------------------------------------------------
(* Roles *)

\* REPLICAOF host port: blocked clients are told so and disconnected, and so
\* are the replicas; the other clients stay.
replicationSetMaster ==
    /\ master /\ used.roles < MaxRoleChanges /\ Spend("roles")
    /\ master' = FALSE
    /\ waiting' = <<>>
    /\ cl' = [c \in Clients |-> IF Blocked(c) THEN NewClient ELSE cl[c]]
    /\ rep' = [r \in Replicas |-> [rep[r] EXCEPT !.st = "gone", !.sent = 0]]
    /\ UNCHANGED <<log, getack, hist>>

\* REPLICAOF NO ONE, after the data and the offset of the other master were
\* taken over: what it had of our stream, and its own writes.
replicationUnsetMaster ==
    /\ ~master /\ master' = TRUE
    /\ hist' = hist + 1
    /\ \E k \in 0..Len(log), n \in 0..MaxForeign :
          log' = SubSeq(log, 1, k) \o [i \in 1..n |-> Foreign]
    /\ UNCHANGED <<rep, cl, waiting, getack, used>>

BeforeSleep == \E expired \in SUBSET Timed : beforeSleep(expired)
AllExpire == beforeSleep(Timed)

Next ==
    \/ \E c \in Clients :
         \/ Write(c) \/ Read(c)
         \/ \E num \in 1..Cardinality(Replicas), f \in Flags : waitCommand(c, num, f[1], f[2])
    \/ BeforeSleep
    \/ \E r \in Replicas :
         \/ ReplicaStep(r) \/ replicationSendAck(r) \/ replconfAck(r)
         \/ PartialResync(r) \/ FullResync(r) \/ SnapshotLoaded(r) \/ Drop(r)
    \/ PingReplicas \/ replicationSetMaster \/ replicationUnsetMaster

Spec == Init /\ [][Next]_vars

\* The event loops keep turning on both sides, timers expire, a replica that
\* lost its master comes back.
Progress ==
    \/ AllExpire \/ PingReplicas \/ replicationUnsetMaster
    \/ \E r \in Replicas :
          \/ ReplicaStep(r) \/ replicationSendAck(r) \/ replconfAck(r)
          \/ PartialResync(r) \/ FullResync(r) \/ SnapshotLoaded(r)

-----------------------------------------------------------------------------
TypeOK ==
    /\ \A r \in Replicas : rep[r].st \in {"gone", "sync", "online"} /\ rep[r].ack \in Nat /\ rep[r].len \in Nat
    /\ \A i, j \in DOMAIN waiting : waiting[i] = waiting[j] => i = j

Holds(r, w) == w = NoWrite \/ \E i \in 1..rep[r].len : i <= Len(log) /\ log[i] = w

\* The server has been a replica since the client's last write: woff is an
\* offset of a stream that is over, and says nothing about this one.
HistoryOver(c) == cl[c].hist # hist

\* The number WAIT answers is never more than the replicas that really hold
\* the client's last write at that moment, unless the history it was made in
\* is over: then the write may be gone, and WAIT counts the replicas that
\* have as much of the present stream, which is all that holds.
WaitCountsRealCopiesStep ==
    \A c \in Clients :
       cl'[c].reply # NoReply /\ cl[c].reply = NoReply =>
          LET off == IF Blocked(c) THEN cl[c].off ELSE cl[c].woff
          IN  cl'[c].reply <= Cardinality({r \in Replicas :
                                /\ rep[r].st = "online" /\ rep[r].hist = hist /\ rep[r].len >= off
                                /\ HistoryOver(c) \/ Holds(r, cl[c].last)})
WaitCountsRealCopies == [][WaitCountsRealCopiesStep]_vars

\* A replica is never believed to have processed more than it has.
AckedIsProcessed ==
    \A r \in Replicas : rep[r].st = "online" => rep[r].ack <= rep[r].len
================================================================================
