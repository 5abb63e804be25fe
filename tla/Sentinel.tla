-------------------------------- MODULE Sentinel --------------------------------
(***************************************************************************)
(* Sentinels that monitor one master (sentinel.c): failure detection,      *)
(* agreement, the election of a leader, the failover, the configuration    *)
(* that hello messages spread, and what survives a restart.                *)
(*   st[s]    a sentinel: current_epoch, and of the master it monitors the *)
(*            address, config_epoch, vote, failover state and flags        *)
(*   conf[s]  the SRI_RECONF flag of each replica                          *)
(*   votes[s] what the other sentinels last answered: down?, their vote    *)
(*   disk[s]  what sentinelFlushConfig wrote                               *)
(*   redis[r] is the instance up, and whose replica is it (None: a master) *)
(*   link     is-master-down-by-addr on its way, or its reply: one per pair*)
(*            of sentinels at a time (bound)                               *)
(*   cmds     SLAVEOF on its way                                           *)
(* Time is not modelled: a timeout may have passed at any timer event.     *)
(* Each sentinel knows the others; INFO and hello are read when they are   *)
(* sent (what they carry is compared with what is newer).                  *)
(***************************************************************************)
EXTENDS Integers, Sequences, FiniteSets, FiniteSetsExt

CONSTANTS Sentinels, Redis, None,
          FirstMaster,          \* the address in every configuration at the start
          Better(_, _),         \* compareSlavesForPromotion: priority, offset, run id
          Quorum, ParallelSyncs,
          FalseAlarm,           \* may a master that is up seem down?
          DownAtStart,          \* start when the first master is down and every sentinel knows it is
          Lossy,                \* may links between sentinels break and answers grow old?
          MaxEpoch, MaxForced, MaxRestarts, MaxRedisCrashes, MaxTilts   \* bounds

VARIABLES st, conf, votes, disk, redis, link, cmds, voted, elected, spent
vars == <<st, conf, votes, disk, redis, link, cmds, voted, elected, spent>>

WAIT_START == 1
SELECT_SLAVE == 2
SEND_SLAVEOF_NOONE == 3
WAIT_PROMOTION == 4
RECONF_SLAVES == 5
UPDATE_CONFIG == 6

Others(s) == Sentinels \ {s}
Slaves(m) == Redis \ {m.addr}
NoReconf == [r \in Redis |-> "none"]
NoVote == [down |-> FALSE, leader |-> None, lepoch |-> 0]

Init ==
    /\ st = [s \in Sentinels |->
                [cur |-> 0, addr |-> FirstMaster, cfg |-> 0, leader |-> None, lepoch |-> 0, fepoch |-> 0, fstate |-> 0,
                 prom |-> None, sdown |-> DownAtStart, odown |-> DownAtStart, force |-> FALSE, recent |-> FALSE, tilt |-> FALSE]]
    /\ conf = [s \in Sentinels |-> NoReconf] /\ votes = [s \in Sentinels |-> [t \in Others(s) |-> [NoVote EXCEPT !.down = DownAtStart]]]
    /\ disk = [s \in Sentinels |-> [cur |-> 0, addr |-> FirstMaster, cfg |-> 0, lepoch |-> 0]]
    /\ redis = [r \in Redis |-> [up |-> r # FirstMaster \/ ~DownAtStart, of |-> IF r = FirstMaster THEN None ELSE FirstMaster]]
    /\ link = [s \in Sentinels |-> [t \in Others(s) |-> None]] /\ cmds = {} /\ voted = {} /\ elected = {}
    /\ spent = [forced |-> 0, restarts |-> 0, crashes |-> 0, tilts |-> 0]

\* The handlers work on w = [m, conf, votes, link, disk, cmds, voted, elected]
\* of one sentinel: links are those it sends on.
World(s) == [m |-> st[s], conf |-> conf[s], votes |-> votes[s], link |-> link[s], disk |-> disk[s], cmds |-> cmds,
             voted |-> voted, elected |-> elected]
SetWorld(s, w) ==
    /\ st' = [st EXCEPT ![s] = w.m] /\ conf' = [conf EXCEPT ![s] = w.conf] /\ votes' = [votes EXCEPT ![s] = w.votes]
    /\ disk' = [disk EXCEPT ![s] = w.disk] /\ cmds' = w.cmds /\ voted' = w.voted /\ elected' = w.elected

-----------------------------------------------------------------------------
(* The configuration *)

\* The address of the promoted replica, once it has acknowledged its role.
sentinelGetCurrentMasterAddress(m) == IF m.prom # None /\ m.fstate >= RECONF_SLAVES THEN m.prom ELSE m.addr

sentinelFlushConfig(w) ==
    [w EXCEPT !.disk = [cur |-> w.m.cur, addr |-> sentinelGetCurrentMasterAddress(w.m), cfg |-> w.m.cfg, lepoch |-> w.m.lepoch]]

\* The vote is forgotten, the epoch it was cast in is not.
sentinelResetMaster(w) ==
    [w EXCEPT !.m.leader = None, !.m.fstate = 0, !.m.recent = FALSE, !.m.prom = None, !.m.sdown = FALSE, !.m.odown = FALSE,
              !.m.force = FALSE, !.conf = NoReconf]

sentinelResetMasterAndChangeAddress(w, r) == sentinelFlushConfig([sentinelResetMaster(w) EXCEPT !.m.addr = r])

sentinelSendSlaveOf(w, r, host) == [w EXCEPT !.cmds = @ \cup {[to |-> r, host |-> host]}]

-----------------------------------------------------------------------------
(* Votes *)

sentinelVoteLeader_unsaved(s, w, epoch, id) ==
    LET e == [w EXCEPT !.m.cur = Max({@, epoch})]
    IN  IF e.m.lepoch < epoch /\ e.m.cur <= epoch
        THEN [e EXCEPT !.m.leader = id, !.m.lepoch = e.m.cur, !.m.recent = @ \/ id # s, !.voted = @ \cup {<<s, epoch, id>>}]
        ELSE e

sentinelVoteLeader(s, w, epoch, id) ==
    LET e == IF epoch > w.m.cur THEN sentinelFlushConfig([w EXCEPT !.m.cur = epoch]) ELSE w
    IN  IF e.m.lepoch < epoch /\ e.m.cur <= epoch
        THEN sentinelFlushConfig([e EXCEPT !.m.leader = id, !.m.lepoch = e.m.cur, !.m.recent = @ \/ id # s,
                                           !.voted = @ \cup {<<s, epoch, id>>}])
        ELSE e

\* Votes for c among the others, in what this sentinel thinks is the epoch.
Counted(w, c) == Cardinality({t \in DOMAIN w.votes : w.votes[t].leader = c /\ w.votes[t].lepoch = w.m.cur})
Leading(w) == {c \in Sentinels : Counted(w, c) > 0 /\ \A d \in Sentinels : Counted(w, d) <= Counted(w, c)}
Majority == Cardinality(Sentinels) \div 2 + 1

\* With the vote of this sentinel, which goes to the one that leads, or itself.
sentinelGetLeader(s, w) ==
    {LET v == sentinelVoteLeader(s, w, w.m.fepoch, c)
         mine(x) == IF v.m.leader = x /\ v.m.lepoch = w.m.fepoch THEN 1 ELSE 0
         total(x) == Counted(w, x) + mine(x)
         winner == IF v.m.leader # None /\ v.m.lepoch = w.m.fepoch /\ total(v.m.leader) > Counted(w, c) THEN v.m.leader ELSE c
     IN  [w |-> v, leader |-> IF total(winner) >= Majority /\ total(winner) >= Quorum THEN winner ELSE None] :
        c \in IF Leading(w) = {} THEN {s} ELSE Leading(w)}

-----------------------------------------------------------------------------
(* The failover state machine *)

sentinelAbortFailover(w) == [w EXCEPT !.m.fstate = 0, !.m.force = FALSE, !.m.prom = None]

sentinelStartFailover(w) ==
    [w EXCEPT !.m.fstate = WAIT_START, !.m.fepoch = w.m.cur + 1, !.m.cur = @ + 1, !.m.recent = TRUE]

sentinelStartFailoverIfNeeded(w) ==
    IF w.m.odown /\ w.m.fstate = 0 /\ ~w.m.recent /\ w.m.cur < MaxEpoch THEN sentinelStartFailover(w) ELSE w

\* Elected, or forced by SENTINEL FAILOVER; the history keeps the elections.
sentinelFailoverWaitStart(s, w) ==
    UNION {LET v == g.w
           IN  IF g.leader = s \/ v.m.force
               THEN {[v EXCEPT !.m.fstate = SELECT_SLAVE, !.elected = IF v.m.force THEN @ ELSE @ \cup {<<s, v.m.fepoch, v.m.cur>>}]}
               ELSE {v, sentinelAbortFailover(v)} : g \in sentinelGetLeader(s, w)}

\* Which replicas look good enough depends on timers; of these, the best.
sentinelSelectSlave(w, good) == IF good = {} THEN None ELSE CHOOSE r \in good : \A q \in good : q = r \/ Better(r, q)

sentinelFailoverSelectSlave(w) ==
    {LET r == sentinelSelectSlave(w, good)
     IN  IF r = None THEN sentinelAbortFailover(w) ELSE [w EXCEPT !.m.prom = r, !.m.fstate = SEND_SLAVEOF_NOONE] :
        good \in SUBSET {r \in Slaves(w.m) : redis[r].up}}

sentinelFailoverSendSlaveOfNoOne(w) ==
    IF redis[w.m.prom].up THEN {[sentinelSendSlaveOf(w, w.m.prom, None) EXCEPT !.m.fstate = WAIT_PROMOTION]}
    ELSE {w, sentinelAbortFailover(w)}

sentinelFailoverWaitPromotion(w) == {w, sentinelAbortFailover(w)}

\* The end: every replica that does not seem down is done, or the timeout.
sentinelFailoverDetectEnd(w) ==
    LET ended == [w EXCEPT !.m.fstate = UPDATE_CONFIG]
        rest == Slaves(w.m) \ {w.m.prom}
        Last == {r \in rest : w.conf[r] \in {"none", "inprog"} /\ redis[r].up}
        Ends(sdown) ==
            IF w.m.prom \in sdown THEN {w}
            ELSE IF \A r \in rest : w.conf[r] \in {"done", "resent"} \/ r \in sdown THEN {ended}
            ELSE {w, [ended EXCEPT !.cmds = @ \cup {[to |-> r, host |-> w.m.prom] : r \in Last}]}
    IN  UNION {Ends(sdown) : sdown \in SUBSET {r \in Redis : ~redis[r].up}}

\* SLAVEOF to replicas, ParallelSyncs at a time; one that takes too long counts
\* as done, and is sent the command once more.
sentinelFailoverReconfNextSlave(w) ==
    LET busy == {r \in Redis : w.conf[r] \in {"sent", "inprog", "resent"}}
        more == Max({ParallelSyncs - Cardinality(busy), 0})
        free == {r \in Slaves(w.m) \ {w.m.prom} : w.conf[r] = "none" /\ redis[r].up}
        Again(late) == {r \in late : redis[r].up}
        Sent(to, late) ==
            [w EXCEPT !.conf = [r \in Redis |-> IF r \in Again(late) THEN "resent" ELSE IF r \in late THEN "done"
                                                ELSE IF r \in to THEN "sent" ELSE @[r]],
                      !.cmds = @ \cup {[to |-> r, host |-> w.m.prom] : r \in to \cup Again(late)}]
        Full(to, late) == Cardinality(to \cup Again(late)) = Min({more, Cardinality(free \cup Again(late))})
    IN  UNION {sentinelFailoverDetectEnd(Sent(x[1], x[2])) :
                 x \in {y \in (SUBSET free) \X (IF more = 0 THEN {{}} ELSE SUBSET {r \in busy : w.conf[r] = "sent"}) : Full(y[1], y[2])}}

sentinelFailoverStateMachine(s, w) ==
    CASE w.m.fstate = WAIT_START -> sentinelFailoverWaitStart(s, w)
      [] w.m.fstate = SELECT_SLAVE -> sentinelFailoverSelectSlave(w)
      [] w.m.fstate = SEND_SLAVEOF_NOONE -> sentinelFailoverSendSlaveOfNoOne(w)
      [] w.m.fstate = WAIT_PROMOTION -> sentinelFailoverWaitPromotion(w)
      [] w.m.fstate = RECONF_SLAVES -> sentinelFailoverReconfNextSlave(w)
      [] OTHER -> {w}

sentinelFailoverSwitchToPromotedSlave(w) ==
    IF w.m.fstate = UPDATE_CONFIG THEN sentinelResetMasterAndChangeAddress(w, w.m.prom) ELSE w

-----------------------------------------------------------------------------
(* The timer *)

\* No answer for long enough, or a master that says it is a replica.
sentinelCheckSubjectivelyDown(w) ==
    LET bad == ~redis[w.m.addr].up \/ redis[w.m.addr].of # None
    IN  {[w EXCEPT !.m.sdown = d] : d \in {w.m.sdown, bad} \cup (IF FalseAlarm THEN BOOLEAN ELSE {})}

sentinelCheckObjectivelyDown(w) ==
    [w EXCEPT !.m.odown = w.m.sdown /\ 1 + Cardinality({t \in DOMAIN w.votes : w.votes[t].down}) >= Quorum]

\* Old answers are dropped; while the master seems down the others are asked,
\* for their vote too when a failover has been started, and asked again as soon
\* as they have answered.
sentinelAskMasterStateToOtherSentinels(s, w) ==
    {[w EXCEPT !.votes = [t \in Others(s) |-> IF t \in old THEN [@[t] EXCEPT !.down = FALSE, !.leader = None] ELSE @[t]],
               !.link = [t \in Others(s) |->
                            IF w.m.sdown /\ @[t] = None
                            THEN [kind |-> "ask", addr |-> w.m.addr, epoch |-> w.m.cur, id |-> IF w.m.fstate > 0 THEN s ELSE None]
                            ELSE @[t]]] : old \in {{}} \cup {{t} : t \in {u \in Others(s) : Lossy /\ w.votes[u] # NoVote}}}

Acted(s, w) ==
    {sentinelFailoverSwitchToPromotedSlave(z) :
        z \in UNION {sentinelAskMasterStateToOtherSentinels(s, y) :
            y \in UNION {sentinelFailoverStateMachine(s, sentinelStartFailoverIfNeeded(sentinelCheckObjectivelyDown(x))) :
                x \in sentinelCheckSubjectivelyDown(w)}}}

sentinelTimer(s) ==
    /\ ~st[s].tilt
    /\ \E w \in Acted(s, World(s)) :
          /\ w # World(s) /\ SetWorld(s, w) /\ link' = [link EXCEPT ![s] = w.link]
    /\ UNCHANGED <<redis, spent>>

\* The delay before the next failover has passed.
DelayPassed(s) ==
    /\ st[s].recent /\ st[s].fstate = 0 /\ st' = [st EXCEPT ![s].recent = FALSE]
    /\ UNCHANGED <<conf, votes, disk, redis, link, cmds, voted, elected, spent>>

\* The clock jumped: collect, but do not act until the period is over.
sentinelCheckTiltCondition(s) ==
    /\ spent.tilts < MaxTilts \/ st[s].tilt
    /\ st' = [st EXCEPT ![s].tilt = ~@] /\ spent' = [spent EXCEPT !.tilts = @ + IF st[s].tilt THEN 0 ELSE 1]
    /\ UNCHANGED <<conf, votes, disk, redis, link, cmds, voted, elected>>

-----------------------------------------------------------------------------
(* Messages *)

\* SENTINEL IS-MASTER-DOWN-BY-ADDR, at t: only about the master t monitors.
sentinelCommand(s, t) ==
    /\ link[s][t] # None /\ link[s][t].kind = "ask"
    /\ LET q == link[s][t]
           known == q.addr = st[t].addr
           w == IF known /\ q.id # None THEN sentinelVoteLeader(t, World(t), q.epoch, q.id) ELSE World(t)
           asked == known /\ q.id # None
       IN  /\ SetWorld(t, w)
           /\ link' = [link EXCEPT ![s][t] = [kind |-> "reply", down |-> known /\ st[t].sdown /\ ~st[t].tilt,
                                              leader |-> IF asked THEN w.m.leader ELSE None,
                                              lepoch |-> IF asked THEN w.m.lepoch ELSE 0]]
    /\ UNCHANGED <<redis, spent>>

sentinelReceiveIsMasterDownReply(s, t) ==
    /\ link[s][t] # None /\ link[s][t].kind = "reply"
    /\ LET a == link[s][t]
       IN  votes' = [votes EXCEPT ![s][t] = IF a.leader = None THEN [@ EXCEPT !.down = a.down]
                                            ELSE [down |-> a.down, leader |-> a.leader, lepoch |-> a.lepoch]]
    /\ link' = [link EXCEPT ![s][t] = None]
    /\ UNCHANGED <<st, conf, disk, redis, cmds, voted, elected, spent>>

\* The connection between two sentinels breaks: what was on it is lost.
instanceLinkConnectionError(s, t) ==
    /\ Lossy /\ link[s][t] # None /\ link' = [link EXCEPT ![s][t] = None]
    /\ UNCHANGED <<st, conf, votes, disk, redis, cmds, voted, elected, spent>>

\* t hears what s says of the master.
sentinelProcessHelloMessage(s, t) ==
    LET from == sentinelGetCurrentMasterAddress(st[s])
        w == World(t)
        e == IF st[s].cur > w.m.cur THEN sentinelFlushConfig([w EXCEPT !.m.cur = st[s].cur]) ELSE w
        c == [e EXCEPT !.m.cfg = st[s].cfg]
        new == CASE e.m.cfg >= st[s].cfg -> e
                 [] e.m.cfg < st[s].cfg /\ from = e.m.addr -> c
                 [] OTHER -> sentinelResetMasterAndChangeAddress(c, from)
    IN  /\ new # w /\ SetWorld(t, new) /\ UNCHANGED <<redis, link, spent>>

\* INFO of r, read by s.
Promoted(w) == sentinelFlushConfig([w EXCEPT !.m.cfg = w.m.fepoch, !.m.fstate = RECONF_SLAVES])
sentinelMasterLooksSane(m) == redis[m.addr].up /\ redis[m.addr].of = None /\ ~m.sdown /\ ~m.odown

\* The flags of a replica that reports its master, and the state of its link.
Reconfigured(w, r, linked) ==
    LET f == w.conf[r]
        now == IF f = "sent" /\ redis[r].of = w.m.prom THEN "inprog" ELSE f
        done == linked /\ (now = "inprog" \/ (now = "resent" /\ redis[r].of = w.m.prom))
    IN  [w EXCEPT !.conf[r] = IF redis[r].of # None /\ done THEN "done" ELSE IF redis[r].of # None THEN now ELSE f]

\* A replica that became a master, or follows another one, is sent back to the
\* master of this sentinel, once it has been so for long enough.
sentinelRefreshInstanceInfo(s, r) ==
    /\ redis[r].up /\ ~st[s].tilt /\ r \in Slaves(st[s])
    /\ LET w == World(s)
           promoted == redis[r].of = None /\ r = w.m.prom /\ w.m.fstate = WAIT_PROMOTION
           wrong == IF redis[r].of = None THEN r # w.m.prom ELSE redis[r].of # w.m.addr
           role == IF promoted THEN Promoted(w) ELSE w
           fixes == IF wrong /\ sentinelMasterLooksSane(w.m) THEN {role, sentinelSendSlaveOf(role, r, w.m.addr)} ELSE {role}
           links == {b \in BOOLEAN : b => redis[r].of # None /\ redis[redis[r].of].up}
       IN  \E v \in {Reconfigured(f, r, l) : f \in fixes, l \in links} : v # w /\ SetWorld(s, v)
    /\ UNCHANGED <<redis, link, spent>>

\* SENTINEL FAILOVER
ForceFailover(s) ==
    /\ spent.forced < MaxForced /\ st[s].fstate = 0 /\ st[s].cur < MaxEpoch /\ \E r \in Slaves(st[s]) : redis[r].up
    /\ SetWorld(s, [sentinelStartFailover(World(s)) EXCEPT !.m.force = TRUE])
    /\ spent' = [spent EXCEPT !.forced = @ + 1] /\ UNCHANGED <<redis, link>>

-----------------------------------------------------------------------------
(* Crashes *)

\* The sentinel starts again from its configuration file.
Restart(s) ==
    /\ spent.restarts < MaxRestarts /\ spent' = [spent EXCEPT !.restarts = @ + 1]
    /\ st' = [st EXCEPT ![s] = [cur |-> Max({disk[s].cur, disk[s].cfg}), addr |-> disk[s].addr, cfg |-> disk[s].cfg, leader |-> None,
                                lepoch |-> disk[s].lepoch, fepoch |-> 0, fstate |-> 0, prom |-> None, sdown |-> FALSE,
                                odown |-> FALSE, force |-> FALSE, recent |-> FALSE, tilt |-> FALSE]]
    /\ conf' = [conf EXCEPT ![s] = NoReconf] /\ votes' = [votes EXCEPT ![s] = [t \in Others(s) |-> NoVote]]
    /\ link' = [x \in Sentinels |-> [t \in Others(x) |-> IF x = s \/ t = s THEN None ELSE link[x][t]]]
    /\ UNCHANGED <<disk, redis, cmds, voted, elected>>

SlaveOf(c) ==
    /\ c \in cmds /\ cmds' = cmds \ {c}
    /\ redis' = IF redis[c.to].up THEN [redis EXCEPT ![c.to].of = c.host] ELSE redis
    /\ UNCHANGED <<st, conf, votes, disk, link, voted, elected, spent>>

RedisCrash(r) ==
    /\ redis[r].up /\ spent.crashes < MaxRedisCrashes /\ spent' = [spent EXCEPT !.crashes = @ + 1]
    /\ redis' = [redis EXCEPT ![r].up = FALSE]
    /\ UNCHANGED <<st, conf, votes, disk, link, cmds, voted, elected>>

RedisRestart(r) ==
    /\ ~redis[r].up /\ redis' = [redis EXCEPT ![r].up = TRUE]
    /\ UNCHANGED <<st, conf, votes, disk, link, cmds, voted, elected, spent>>

Next ==
    \/ \E s \in Sentinels : sentinelTimer(s) \/ DelayPassed(s) \/ sentinelCheckTiltCondition(s) \/ ForceFailover(s) \/ Restart(s)
    \/ \E s \in Sentinels : \E t \in Others(s) :
          sentinelCommand(s, t) \/ sentinelReceiveIsMasterDownReply(s, t) \/ instanceLinkConnectionError(s, t) \/ sentinelProcessHelloMessage(s, t)
    \/ \E s \in Sentinels, r \in Redis : sentinelRefreshInstanceInfo(s, r)
    \/ \E c \in cmds : SlaveOf(c)
    \/ \E r \in Redis : RedisCrash(r) \/ RedisRestart(r)

Spec == Init /\ [][Next]_vars

-----------------------------------------------------------------------------
(* Properties *)

TypeOK ==
    /\ \A s \in Sentinels : st[s].addr \in Redis /\ st[s].fstate \in 0 .. 5 /\ st[s].cfg <= st[s].cur /\ st[s].cur <= MaxEpoch
    /\ \A c \in cmds : c.to \in Redis

\* No sentinel votes for two in one epoch, not even when it is restarted or
\* switches to another master in between.
OneVotePerEpoch == \A a, b \in voted : (a[1] = b[1] /\ a[2] = b[2]) => a[3] = b[3]

\* Two sentinels are elected to fail the master over in one failover epoch only
\* if one of them counted the votes of a later epoch: sentinelGetLeader takes the
\* others' votes of current_epoch and its own of failover_epoch, so a sentinel
\* that hears of a later epoch while it waits may win with a mix of the two.
OneLeaderPerEpoch ==
    \A a, b \in elected : (a[2] = b[2] /\ a[1] # b[1]) => (a[2] # a[3] \/ b[2] # b[3])

\* A sentinel changes the address it gives to clients only for a configuration
\* with a greater epoch, through failovers, hello messages and restarts.
ConfigMovesForwardStep ==
    \A s \in Sentinels :
        sentinelGetCurrentMasterAddress(st'[s]) # sentinelGetCurrentMasterAddress(st[s]) => st'[s].cfg > st[s].cfg
ConfigMovesForward == [][ConfigMovesForwardStep]_vars
=============================================================================
