-------------------------------- MODULE Cluster --------------------------------
(***************************************************************************)
(* The cluster bus (cluster.c): epochs, failure detection by gossip, the   *)
(* election of a replica, ownership of the hash slots and how it spreads,  *)
(* manual failover, and what nodes.conf keeps across a restart.            *)
(*   st[n]    a node: currentEpoch, lastVoteEpoch, its table of the nodes  *)
(*            (configEpoch, master, failure flag, who reported it), owner  *)
(*            of every slot, the election it runs, the manual failover it  *)
(*            takes part in, cluster state and size, replication offset    *)
(*   disk[n]  nodes.conf                                                   *)
(*   up[n]    is the process running?                                      *)
(*   net      messages on the bus; a connection that breaks loses what it  *)
(*            carries, and two links join each pair of nodes: any order    *)
(* A slot is named after the master it belongs to at the start.            *)
(* PING, PONG and the PONGs sent to all after a promotion carry the same   *)
(* thing, the sender's header and gossip, and a PING may be sent at any    *)
(* time: they are one message, "ping" (a "pong" also proves the receiver's *)
(* own link works).  Time is not modelled: a timeout may have passed.      *)
(***************************************************************************)
EXTENDS Integers, FiniteSets, FiniteSetsExt

CONSTANTS Nodes, Masters, None,
          MasterOf(_),          \* whose replica a node is at the start (None: a master)
          FirstEpoch(_),        \* its configEpoch at the start
          SmallerId(_, _),      \* the order of the node ids
          DownAtStart,          \* nodes that are down at the start, flagged FAIL by all
          FalseAlarm,           \* may a node that is up seem unreachable?
          Manual,               \* the kinds of CLUSTER FAILOVER users ask for
          MaxEpoch, MaxElections, MaxCrashes, MaxManual, MaxWrites, MaxNet, MaxBumps    \* bounds

VARIABLES st, disk, up, net, voted, elected, suspected, spent
vars == <<st, disk, up, net, voted, elected, suspected, spent>>

Slots == Masters
NoMf == [on |-> FALSE, can |-> FALSE, forced |-> FALSE, off |-> 0, slave |-> None]
NoAuth == [on |-> FALSE, sent |-> FALSE, count |-> 0, epoch |-> 0]

nodeIsMaster(s, x) == s.node[x].master = None
SlotsOf(s, x) == {k \in Slots : s.slots[k] = x}
Persistent(s) == [cur |-> s.cur, vote |-> s.vote, node |-> [x \in Nodes |-> [s.node[x] EXCEPT !.reports = {}]], slots |-> s.slots]

Init ==
    /\ st = [n \in Nodes |->
                [cur |-> Max({FirstEpoch(m) : m \in Masters}), vote |-> 0,
                 node |-> [x \in Nodes |-> [cfg |-> FirstEpoch(x), master |-> MasterOf(x), reports |-> {},
                                            flag |-> IF x \in DownAtStart /\ x # n THEN "fail" ELSE "ok"]],
                 slots |-> [k \in Slots |-> k], auth |-> NoAuth, mf |-> NoMf,
                 ok |-> DownAtStart \cap Masters = {}, size |-> Cardinality(Masters), fresh |-> FALSE, off |-> 1]]
    /\ disk = [n \in Nodes |-> Persistent(st[n])] /\ up = [n \in Nodes |-> n \notin DownAtStart]
    /\ net = {} /\ voted = {} /\ elected = {} /\ suspected = [x \in Nodes |-> IF x \in DownAtStart THEN Masters ELSE {}]
    /\ spent = [elections |-> [n \in Nodes |-> 0], crashes |-> 0, manual |-> 0, lapsed |-> {}, bumps |-> 0]

-----------------------------------------------------------------------------
(* State of one node: operators from a node's state to its next *)

ReachableMasters(s) == {x \in Nodes : nodeIsMaster(s, x) /\ SlotsOf(s, x) # {}}
Majority(s) == s.size \div 2 + 1

\* A master that was cut off, or has just started, waits before it serves
\* again: `late' says the delay is over.  While it waits after a start even
\* the size of the cluster is the one it starts with.
clusterUpdateState(s, n, late) ==
    LET serving == ReachableMasters(s)
        covered == \A k \in Slots : s.slots[k] # None /\ s.node[s.slots[k]].flag # "fail"
        t       == [s EXCEPT !.size = Cardinality(serving)]
        good    == covered /\ Cardinality({x \in serving : s.node[x].flag = "ok"}) >= Majority(t)
    IN  IF s.fresh /\ ~late /\ nodeIsMaster(s, n) THEN s
        ELSE [t EXCEPT !.fresh = FALSE, !.ok = good /\ (s.ok \/ late \/ ~nodeIsMaster(s, n))]

resetManualFailover(s) == [s EXCEPT !.mf = NoMf]

clusterSetNodeAsMaster(s, x) == [s EXCEPT !.node[x].master = None]

clusterSetMaster(s, n, x) == resetManualFailover([s EXCEPT !.node[n].master = x])

clusterUpdateSlotsConfigWith_anyEpoch(s, n, x, epoch, claimed) ==
    LET current == IF nodeIsMaster(s, n) THEN n ELSE s.node[n].master
        won     == {k \in claimed : s.slots[k] # x /\ (s.slots[k] = None \/ s.node[s.slots[k]].cfg <= epoch)}
        t       == [s EXCEPT !.slots = [k \in Slots |-> IF k \in won THEN x ELSE @[k]]]
    IN  IF x = n THEN s
        ELSE IF (\E k \in won : s.slots[k] = current) /\ SlotsOf(t, current) = {} THEN clusterSetMaster(t, n, x) ELSE t

\* x claims slots with a configuration epoch: those that are free or whose
\* owner's epoch is smaller become its own, and the node that is left
\* without any, or whose master is, becomes a replica of x.
clusterUpdateSlotsConfigWith(s, n, x, epoch, claimed) ==
    LET current == IF nodeIsMaster(s, n) THEN n ELSE s.node[n].master
        won     == {k \in claimed : s.slots[k] # x /\ (s.slots[k] = None \/ s.node[s.slots[k]].cfg < epoch)}
        t       == [s EXCEPT !.slots = [k \in Slots |-> IF k \in won THEN x ELSE @[k]]]
    IN  IF x = n THEN s
        ELSE IF (\E k \in won : s.slots[k] = current) /\ SlotsOf(t, current) = {} THEN clusterSetMaster(t, n, x) ELSE t

clusterHandleConfigEpochCollision_none(s, n, x) == s

\* Of two masters with the same epoch the one with the smaller id takes the next.
clusterHandleConfigEpochCollision(s, n, x) ==
    IF s.node[x].cfg # s.node[n].cfg \/ ~SmallerId(n, x) THEN s
    ELSE [s EXCEPT !.cur = @ + 1, !.node[n].cfg = s.cur + 1]

clusterBumpConfigEpochWithoutConsensus(s, n) ==
    IF s.node[n].cfg # 0 /\ s.node[n].cfg = Max({s.node[x].cfg : x \in Nodes} \cup {s.cur}) THEN s
    ELSE [s EXCEPT !.cur = @ + 1, !.node[n].cfg = s.cur + 1]

clusterFailoverReplaceYourMaster(s, n) ==
    LET old == s.node[n].master
        t   == clusterSetNodeAsMaster(s, n)
    IN  resetManualFailover(clusterUpdateState([t EXCEPT !.slots = [k \in Slots |-> IF @[k] = old THEN n ELSE @[k]]], n, TRUE))

-----------------------------------------------------------------------------
(* Messages *)

\* A replica speaks of its master's slots and epoch.
clusterBuildMessageHdr(s, n, type) ==
    LET owner == IF nodeIsMaster(s, n) THEN n ELSE s.node[n].master
    IN  [type |-> type, from |-> n, cur |-> s.cur, cfg |-> s.node[owner].cfg, slots |-> SlotsOf(s, owner),
         slaveof |-> s.node[n].master, off |-> s.off, paused |-> nodeIsMaster(s, n) /\ s.mf.on,
         bad |-> {}, about |-> None, aboutCfg |-> 0, force |-> FALSE]

Ping(s, n, type) == [clusterBuildMessageHdr(s, n, type) EXCEPT !.bad = {x \in Nodes : s.node[x].flag # "ok"}]
clusterSendUpdate(s, n, x) ==
    [clusterBuildMessageHdr(s, n, "update") EXCEPT !.about = x, !.aboutCfg = s.node[x].cfg, !.slots = SlotsOf(s, x)]
clusterSendFail(s, n, x) == [clusterBuildMessageHdr(s, n, "fail") EXCEPT !.about = x]
clusterRequestFailoverAuth(s, n) == [clusterBuildMessageHdr(s, n, "request") EXCEPT !.force = s.mf.on]

To(m, receivers) == {[to |-> x, msg |-> m] : x \in receivers}
Others(n) == Nodes \ {n}

\* What every packet tells, whatever its type; only a new configEpoch is saved.
ProcessHeader(s, n, m) ==
    LET x == m.from
    IN  [s EXCEPT !.cur = Max({@, m.cur}), !.node[x].cfg = Max({@, m.cfg}),
                  !.mf.off = IF s.mf.on /\ s.node[n].master = x /\ m.paused /\ @ = 0 THEN m.off ELSE @]

markNodeAsFailingIfNeeded(s, n, x) ==
    LET failures == Cardinality(s.node[x].reports) + IF nodeIsMaster(s, n) THEN 1 ELSE 0
    IN  IF s.node[x].flag = "pfail" /\ failures >= Majority(s) THEN [s EXCEPT !.node[x].flag = "fail"] ELSE s

\* Only what masters say of the other nodes counts.
clusterProcessGossipSection(s, n, m) ==
    LET mark(x) == markNodeAsFailingIfNeeded([s EXCEPT !.node[x].reports = @ \cup {m.from}], n, x).node[x]
    IN  IF ~nodeIsMaster(s, m.from) THEN s
        ELSE [s EXCEPT !.node = [x \in Nodes |-> IF x = n THEN @[x]
                                                 ELSE IF x \in m.bad THEN mark(x) ELSE [@[x] EXCEPT !.reports = @ \ {m.from}]]]

\* A master that became a replica loses its slots.
RoleSwitch(s, m) ==
    LET x == m.from
    IN  IF m.slaveof = None THEN clusterSetNodeAsMaster(s, x)
        ELSE [s EXCEPT !.slots = [k \in Slots |-> IF @[k] = x /\ nodeIsMaster(s, x) THEN None ELSE @[k]],
                       !.node[x].master = m.slaveof]

\* FAIL is undone for a replica or a master without slots, else only if
\* nobody has taken the slots for long.
clearNodeFailureIfNeeded(s, x, long) ==
    IF ~nodeIsMaster(s, x) \/ SlotsOf(s, x) = {} \/ long THEN [s EXCEPT !.node[x].flag = "ok"] ELSE s

PongReceived(s, m, long) ==
    IF m.type # "pong" THEN s
    ELSE IF s.node[m.from].flag = "pfail" THEN [s EXCEPT !.node[m.from].flag = "ok"]
    ELSE IF s.node[m.from].flag = "fail" THEN clearNodeFailureIfNeeded(s, m.from, long)
    ELSE s

\* A slot the sender claims that another master owns with a greater epoch.
Outdated(s, m) ==
    {s.slots[k] : k \in {j \in m.slots : s.slots[j] \notin {m.from, None} /\ s.node[s.slots[j]].cfg > m.cfg}}

\* PING and PONG: [s |-> the next state, out |-> what is sent].
ProcessPing(s, n, m, long) ==
    LET x     == m.from
        r     == RoleSwitch(PongReceived(s, m, long), m)
        owner == IF nodeIsMaster(r, x) THEN x ELSE r.node[x].master
        dirty == SlotsOf(r, owner) # m.slots
        u     == IF nodeIsMaster(r, x) /\ dirty THEN clusterUpdateSlotsConfigWith(r, n, x, m.cfg, m.slots) ELSE r
        c     == IF nodeIsMaster(u, n) /\ nodeIsMaster(u, x) /\ m.cfg = u.node[n].cfg
                 THEN clusterHandleConfigEpochCollision(u, n, x) ELSE u
        g     == clusterProcessGossipSection(c, n, m)
        newly == {y \in Nodes : g.node[y].flag = "fail" /\ c.node[y].flag # "fail"}
    IN  [s |-> g,
         out |-> (IF dirty /\ Outdated(u, m) # {} THEN To(clusterSendUpdate(u, n, CHOOSE o \in Outdated(u, m) : TRUE), {x}) ELSE {})
                 \cup (IF nodeIsMaster(g, n) THEN UNION {To(clusterSendFail(g, n, y), Others(n)) : y \in newly} ELSE {})]

\* Does the node vote for the replica that asks?  (That it has not voted
\* about this master for a while can always be so: only time decides.)
clusterSendFailoverAuthIfNeeded(s, n, m) ==
    /\ nodeIsMaster(s, n) /\ SlotsOf(s, n) # {} /\ m.cur >= s.cur /\ s.vote # s.cur
    /\ ~nodeIsMaster(s, m.from) /\ (s.node[s.node[m.from].master].flag = "fail" \/ m.force)
    /\ \A k \in m.slots : s.slots[k] = None \/ s.node[s.slots[k]].cfg <= m.cfg

ProcessAck(s, m) ==
    IF nodeIsMaster(s, m.from) /\ SlotsOf(s, m.from) # {} /\ m.cur >= s.auth.epoch THEN [s EXCEPT !.auth.count = @ + 1] ELSE s

ProcessFail(s, n, m) == IF m.about = n THEN s ELSE [s EXCEPT !.node[m.about].flag = "fail"]

ProcessMfStart(s, n, m) ==
    IF s.node[m.from].master # n THEN s ELSE [s EXCEPT !.mf = [NoMf EXCEPT !.on = TRUE, !.slave = m.from]]

ProcessUpdate(s, n, m) ==
    LET x == m.about
    IN  IF s.node[x].cfg >= m.aboutCfg THEN s
        ELSE clusterUpdateSlotsConfigWith([clusterSetNodeAsMaster(s, x) EXCEPT !.node[x].cfg = m.aboutCfg], n, x, m.aboutCfg, m.slots)

clusterProcessPacket(s, n, m, long) ==
    CASE m.type \in {"ping", "pong"} -> ProcessPing(s, n, m, long)
      [] m.type = "request" ->
            IF clusterSendFailoverAuthIfNeeded(s, n, m)
            THEN LET v == [s EXCEPT !.vote = s.cur] IN [s |-> v, out |-> To(clusterBuildMessageHdr(v, n, "ack"), {m.from})]
            ELSE [s |-> s, out |-> {}]
      [] m.type = "ack" -> [s |-> ProcessAck(s, m), out |-> {}]
      [] m.type = "fail" -> [s |-> ProcessFail(s, n, m), out |-> {}]
      [] m.type = "mfstart" -> [s |-> ProcessMfStart(s, n, m), out |-> {}]
      [] m.type = "update" -> [s |-> ProcessUpdate(s, n, m), out |-> {}]

-----------------------------------------------------------------------------
(* Steps of a node.  Before it sleeps, so before anything it queued is     *)
(* written to a socket, it brings its state up to date and saves what      *)
(* changed: only currentEpoch can change without being saved.              *)
clusterBeforeSleep(n, s) ==
    LET p == Persistent(s)
    IN  /\ st' = [st EXCEPT ![n] = clusterUpdateState(s, n, FALSE)]
        /\ disk' = [disk EXCEPT ![n] = IF p = [Persistent(st[n]) EXCEPT !.cur = s.cur] THEN @ ELSE p]

\* Without a link, to a node that is down, nothing is sent.
Send(messages) == LET sent == {d \in messages : up[d.to]} IN Cardinality(sent) <= MaxNet /\ net' = sent

Receive(n) ==
    \E d \in net, long \in BOOLEAN :
        /\ d.to = n /\ up[n]
        /\ LET h == ProcessHeader(st[n], n, d.msg)
               r == clusterProcessPacket(h, n, d.msg, long)
           IN  /\ r.s.cur <= MaxEpoch
               /\ clusterBeforeSleep(n, r.s)
               /\ Send((net \ {d}) \cup r.out)
               /\ voted' = IF r.s.vote # st[n].vote THEN voted \cup {<<n, r.s.vote, d.msg.from>>} ELSE voted
               /\ UNCHANGED <<up, elected, suspected, spent>>

Lose == \E d \in net : net' = net \ {d} /\ UNCHANGED <<st, disk, up, voted, elected, suspected, spent>>

SendPing(n) ==
    \E x \in Others(n), type \in {"ping", "pong"} :
        /\ up[n] /\ Send(net \cup To(Ping(st[n], n, type), {x}))
        /\ UNCHANGED <<st, disk, up, voted, elected, suspected, spent>>

\* clusterCron: no answer from x for the node timeout.
PossiblyFailing(n) ==
    \E x \in Others(n) :
        /\ up[n] /\ (~up[x] \/ FalseAlarm) /\ st[n].node[x].flag = "ok"
        /\ st' = [st EXCEPT ![n] = clusterUpdateState([@ EXCEPT !.node[x].flag = "pfail"], n, FALSE)]
        /\ suspected' = [suspected EXCEPT ![x] = @ \cup {n}]
        /\ UNCHANGED <<disk, up, net, voted, elected, spent>>

clusterNodeCleanupFailureReports(n) ==
    \E x, y \in Nodes :
        /\ up[n] /\ y \in st[n].node[x].reports
        /\ st' = [st EXCEPT ![n].node[x].reports = @ \ {y}]
        /\ UNCHANGED <<disk, up, net, voted, elected, suspected, spent>>

\* clusterCron of a node whose state is FAIL, once the delays are over.
ServesAgain(n) ==
    /\ up[n] /\ (st[n].fresh \/ ~st[n].ok)
    /\ clusterUpdateState(st[n], n, TRUE) # st[n] /\ st' = [st EXCEPT ![n] = clusterUpdateState(@, n, TRUE)]
    /\ UNCHANGED <<disk, up, net, voted, elected, suspected, spent>>

\* The failover may go on: the master has failed, or a manual failover was
\* cleared to start, and the master has slots to take.
MayFailover(s, n) ==
    /\ ~nodeIsMaster(s, n) /\ SlotsOf(s, s.node[n].master) # {}
    /\ s.node[s.node[n].master].flag = "fail" \/ (s.mf.on /\ s.mf.can)

clusterHandleManualFailover(s, n) ==
    [s EXCEPT !.mf.can = @ \/ (s.mf.on /\ ~nodeIsMaster(s, n) /\ s.mf.off # 0 /\ s.mf.off = s.off)]

\* clusterHandleSlaveFailover as clusterCron calls it: a new election is
\* scheduled when the last one is old, votes are asked for when its delay is
\* over, and with a majority of them the replica takes its master's place.
ScheduleElection(n) ==
    LET s == clusterHandleManualFailover(st[n], n)
    IN  /\ up[n] /\ MayFailover(s, n) /\ spent.elections[n] < MaxElections
        /\ st' = [st EXCEPT ![n] = [s EXCEPT !.auth = [@ EXCEPT !.on = TRUE, !.sent = FALSE, !.count = 0]]]
        /\ spent' = [spent EXCEPT !.elections[n] = @ + 1]
        /\ UNCHANGED <<disk, up, net, voted, elected, suspected>>

AskForVotes(n) ==
    LET s == clusterHandleManualFailover(st[n], n)
        t == [s EXCEPT !.cur = @ + 1, !.auth.sent = TRUE, !.auth.epoch = s.cur + 1]
    IN  /\ up[n] /\ MayFailover(s, n) /\ s.auth.on /\ ~s.auth.sent /\ s.cur < MaxEpoch
        /\ st' = [st EXCEPT ![n] = t] /\ disk' = [disk EXCEPT ![n] = Persistent(t)]
        /\ Send(net \cup To(clusterRequestFailoverAuth(t, n), Others(n)))
        /\ UNCHANGED <<up, voted, elected, suspected, spent>>

WinElection(n) ==
    LET s == clusterHandleManualFailover(st[n], n)
        t == clusterFailoverReplaceYourMaster([s EXCEPT !.node[n].cfg = Max({@, s.auth.epoch})], n)
    IN  /\ up[n] /\ MayFailover(s, n) /\ s.auth.sent /\ s.auth.count >= Majority(s)
        /\ st' = [st EXCEPT ![n] = t] /\ disk' = [disk EXCEPT ![n] = Persistent(t)]
        /\ elected' = elected \cup {<<n, s.auth.epoch>>}
        /\ UNCHANGED <<up, net, voted, suspected, spent>>

\* A cron that does no more than let a manual failover go on.
LetManualFailoverGoOn(n) ==
    /\ up[n] /\ clusterHandleManualFailover(st[n], n) # st[n]
    /\ st' = [st EXCEPT ![n] = clusterHandleManualFailover(@, n)]
    /\ UNCHANGED <<disk, up, net, voted, elected, suspected, spent>>

\* CLUSTER FAILOVER [FORCE|TAKEOVER].
failoverCommand(n) ==
    \E kind \in Manual :
        LET s == st[n]
            m == s.node[n].master
            r == [resetManualFailover(s) EXCEPT !.mf.on = TRUE, !.mf.forced = kind # "plain", !.mf.can = kind = "force"]
            t == clusterFailoverReplaceYourMaster(clusterBumpConfigEpochWithoutConsensus(r, n), n)
        IN  /\ up[n] /\ ~nodeIsMaster(s, n) /\ spent.manual < MaxManual
            /\ kind = "plain" => s.node[m].flag # "fail"
            /\ kind = "takeover" => t.cur <= MaxEpoch
            /\ st' = [st EXCEPT ![n] = IF kind = "takeover" THEN t ELSE r]
            /\ disk' = IF kind = "takeover" THEN [disk EXCEPT ![n] = Persistent(t)] ELSE disk
            /\ Send(IF kind = "plain" THEN net \cup To(clusterBuildMessageHdr(r, n, "mfstart"), {m}) ELSE net)
            /\ spent' = [spent EXCEPT !.manual = @ + 1]
            /\ UNCHANGED <<up, voted, elected, suspected>>

\* The deadline of each side is its own: a master's, which pauses its clients
\* until then, starts when it hears of the failover, and the replica looks at
\* its own in clusterCron only, not when a vote arrives.
manualFailoverCheckTimeout(n) ==
    /\ up[n] /\ st[n].mf.on
    /\ st' = [st EXCEPT ![n] = resetManualFailover(@)]
    /\ spent' = [spent EXCEPT !.lapsed = IF nodeIsMaster(st[n], n) THEN @ \cup {n} ELSE @]
    /\ UNCHANGED <<disk, up, net, voted, elected, suspected>>

\* CLUSTER BUMPEPOCH, and what CLUSTER SETSLOT NODE does when it closes an import.
bumpepochCommand(n) ==
    LET t == clusterBumpConfigEpochWithoutConsensus(st[n], n)
    IN  /\ up[n] /\ nodeIsMaster(st[n], n) /\ spent.bumps < MaxBumps /\ t.cur <= MaxEpoch
        /\ clusterBeforeSleep(n, t) /\ spent' = [spent EXCEPT !.bumps = @ + 1]
        /\ UNCHANGED <<up, net, voted, elected, suspected>>

\* Anything that extends the master's replication stream: a client's write,
\* an expired or evicted key, a PING to the replicas.  None happens while
\* the clients are paused.
Write(n) ==
    /\ up[n] /\ nodeIsMaster(st[n], n) /\ st[n].ok /\ SlotsOf(st[n], n) # {} /\ ~st[n].mf.on /\ st[n].off < MaxWrites
    /\ st' = [st EXCEPT ![n].off = @ + 1]
    /\ UNCHANGED <<disk, up, net, voted, elected, suspected, spent>>

\* A replica reads the stream of its master, or its whole data set.
Replicate(n) ==
    LET m == st[n].node[n].master
    IN  /\ up[n] /\ m # None /\ up[m] /\ st[n].off # st[m].off
        /\ st' = [st EXCEPT ![n].off = IF @ < st[m].off THEN @ + 1 ELSE st[m].off]
        /\ UNCHANGED <<disk, up, net, voted, elected, suspected, spent>>

Crash(n) ==
    /\ up[n] /\ spent.crashes < MaxCrashes /\ up' = [up EXCEPT ![n] = FALSE] /\ net' = {d \in net : d.to # n}
    /\ spent' = [spent EXCEPT !.crashes = @ + 1] /\ UNCHANGED <<st, disk, voted, elected, suspected>>

\* clusterInit: the size of the cluster is 1 until the state is first updated.
clusterLoadConfig(n) ==
    LET d == disk[n]
    IN  [st[n] EXCEPT !.cur = Max({d.cur} \cup {d.node[x].cfg : x \in Nodes}), !.vote = d.vote, !.node = d.node, !.slots = d.slots,
                      !.auth = NoAuth, !.mf = NoMf, !.ok = FALSE, !.size = 1, !.fresh = TRUE]

Start(n) ==
    /\ ~up[n] /\ up' = [up EXCEPT ![n] = TRUE] /\ st' = [st EXCEPT ![n] = clusterLoadConfig(n)]
    /\ UNCHANGED <<disk, net, voted, elected, suspected, spent>>

Next ==
    \/ Lose
    \/ \E n \in Nodes :
        \/ Receive(n) \/ SendPing(n) \/ PossiblyFailing(n) \/ clusterNodeCleanupFailureReports(n) \/ ServesAgain(n)
        \/ ScheduleElection(n) \/ AskForVotes(n) \/ WinElection(n) \/ LetManualFailoverGoOn(n)
        \/ failoverCommand(n) \/ manualFailoverCheckTimeout(n) \/ bumpepochCommand(n)
        \/ Write(n) \/ Replicate(n) \/ Crash(n) \/ Start(n)

Spec == Init /\ [][Next]_vars

-----------------------------------------------------------------------------
(* Properties *)

TypeOK ==
    /\ \A n \in Nodes : st[n].cur \in 0 .. MaxEpoch /\ st[n].vote \in 0 .. st[n].cur /\ st[n].off \in 1 .. Max({1, MaxWrites})
    /\ \A n \in Nodes : st[n].slots \in [Slots -> Nodes \cup {None}] /\ disk[n].slots \in [Slots -> Nodes \cup {None}]
    /\ \A n, x \in Nodes : st[n].node[x].flag \in {"ok", "pfail", "fail"} /\ st[n].node[x].reports \subseteq Nodes

\* No master gives its vote to two replicas in one epoch, whatever it
\* forgets when it restarts.
OneVotePerEpoch == \A v, w \in voted : v[1] = w[1] /\ v[2] = w[2] => v[3] = w[3]

\* No two replicas are elected in the same epoch.
OneMasterPerEpoch == \A v, w \in elected : v[2] = w[2] => v[1] = w[1]

\* A node is flagged FAIL only when a majority of the masters have found
\* they cannot reach it (while no replica is promoted).
FailNeedsMajority ==
    \A n, x \in Nodes :
        st[n].node[x].flag = "fail"
        => Cardinality(suspected[x] \cap Masters) > Cardinality(Masters) \div 2

\* In no node's table does a replica own slots, and the epoch of no node is
\* above the current epoch: what clusterSetMaster asserts and what a replica
\* counts on when it takes the next epoch for its own.
TableIsSound ==
    \A n, x \in Nodes : /\ ~nodeIsMaster(st[n], x) => SlotsOf(st[n], x) = {}
                        /\ st[n].node[x].cfg <= st[n].cur

\* In a node's table a slot goes from one owner to another only if the new
\* owner's epoch is greater.
OwnershipMovesForwardStep ==
    \A n \in Nodes, k \in Slots :
        LET a == st[n].slots[k]
            b == st'[n].slots[k]
        IN  up[n] /\ a # b /\ a # None /\ b # None => st'[n].node[b].cfg > st[n].node[a].cfg
OwnershipMovesForward == [][OwnershipMovesForwardStep]_vars

\* A manual failover of a master that is well loses no write, unless the
\* master's own deadline has passed: its clients write again, while a replica
\* that still waits for votes, or is sent the offset of the pause that is over,
\* goes on and is promoted without those writes.
ManualFailoverKeepsWritesStep ==
    \A n \in Nodes :
        LET m == st[n].node[n].master
        IN  /\ m # None /\ st[n].mf.on /\ ~st[n].mf.forced /\ st'[n].node[n].master = None /\ st[n].node[m].flag # "fail"
               /\ m \notin spent.lapsed
            => st'[n].off = st[m].off
ManualFailoverKeepsWrites == [][ManualFailoverKeepsWritesStep]_vars

\* When every node has heard every other one and nothing changes any more,
\* all agree on the owner of every slot, and no two masters have one epoch.
Quiet ==
    /\ net = {} /\ \A n \in Nodes : up[n]
    /\ \A n \in Nodes, x \in Nodes : x # n =>
        LET m == Ping(st[x], x, "ping")
            r == clusterProcessPacket(ProcessHeader(st[n], n, m), n, m, FALSE)
        IN  r.s = st[n] /\ \A d \in r.out : d.msg.type = "update" => ProcessUpdate(st[x], x, d.msg) = st[x]
QuietMeansAgreed ==
    Quiet => /\ \A n, x \in Nodes : st[n].slots = st[x].slots
             /\ \A n, x \in Nodes : n # x /\ nodeIsMaster(st[n], n) /\ nodeIsMaster(st[x], x)
                                    => st[n].node[n].cfg # st[x].node[x].cfg

=============================================================================
