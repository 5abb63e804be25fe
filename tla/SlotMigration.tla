---- MODULE SlotMigration ----
(***************************************************************************
 * Moving one hash slot between masters of a Redis Cluster: CLUSTER SETSLOT,
 * ADDSLOTS and DELSLOTS, MIGRATE and RESTORE over a connection that may
 * break or time out, the redirections clients get meanwhile
 * (getNodeByQuery), the configuration epochs that settle who owns the slot,
 * and redis-cli's resharding and fixing of the slot, which may be
 * interrupted at any point.  Every master also owns other slots, so losing
 * this one never turns it into a replica (Cluster has that case).
 ***************************************************************************)
EXTENDS Integers, Sequences, FiniteSets, FiniteSetsExt, SequencesExt

CONSTANTS Nodes, None, Keys, Clients,
          NodeLists,          \* the orders in which redis-cli may list the nodes
          FirstOwner,         \* the owner of the slot at the start
          FirstKeys,          \* the keys it holds then
          SmallerId(_, _),    \* the order of the node IDs
          Jobs,               \* what redis-cli is asked to do: "reshard", "fix", "owners" (fix that also looks for several owners)
          ByHand,             \* the commands an administrator may send: "importing", "migrating", ...
          CommandKeys,        \* the most keys a client's command has
          Pipeline,           \* the keys one MIGRATE moves (--cluster-pipeline)
          Replace,            \* --cluster-replace was given
          Deletes,            \* clients delete keys too
          MaxWrites, MaxFaults, MaxExpires, MaxJobs, MaxKills, MaxRestarts, MaxByHand, MaxEpoch

VARIABLES
    st,      \* what each node knows: the owner of the slot, the epochs, migrating_slots_to, importing_slots_from
    db,      \* the keys of the slot on each node: a version, 0 for none
    mig,     \* the MIGRATE that is running, or None; its source serves nobody else
    late,    \* RESTOREs of an abandoned connection the target has yet to read
    cli,     \* redis-cli
    ask,     \* the ASK a client has not followed yet: the node and the keys of its command
    latest,  \* the version of each key last acknowledged to a client
    spent    \* the bounds used up; history: the keys of MIGRATEs that broke, and those sent again
             \* with another's value, and those written after an ASK, those of an
             \* unread RESTORE REPLACE
vars == <<st, db, mig, late, cli, ask, latest, spent>>

Absent == 0
KeysAt(n) == {k \in Keys : db[n][k] # Absent}
Busy(n) == mig # None /\ mig.src = n
Idle == [status |-> "idle", phase |-> "open", order |-> <<>>, plan |-> <<>>, info |-> None,
         own |-> {}, ok |-> TRUE, batch |-> {}, try |-> 0, replace |-> FALSE]

Init ==
    /\ st = [n \in Nodes |-> [owner |-> FirstOwner, cur |-> Cardinality(Nodes),
              epoch |-> [x \in Nodes |-> Cardinality({y \in Nodes : y = x \/ SmallerId(y, x)})],
              migrating |-> None, importing |-> None]]
    /\ db = [n \in Nodes |-> [k \in Keys |-> IF n = FirstOwner /\ k \in FirstKeys THEN 1 ELSE Absent]]
    /\ mig = None /\ late = <<>> /\ cli = Idle
    /\ ask = [c \in Clients |-> None]
    /\ latest = db[FirstOwner]
    /\ spent = [writes |-> 1, faults |-> 0, expires |-> 0, jobs |-> 0, kills |-> 0, restarts |-> 0, byhand |-> 0, left |-> {}, mixed |-> {}, asked |-> {}, overdue |-> {}]

-----------------------------------------------------------------------------
(* The commands of a node; each answers whether it worked and the new state. *)

Done(s) == [ok |-> TRUE, s |-> s]
Refused(s) == [ok |-> FALSE, s |-> s]

\* Without consensus a node takes a fresh epoch only when it has not the greatest already.
clusterBumpConfigEpochWithoutConsensus(s, n) ==
    LET maxEpoch == Max({s.epoch[x] : x \in Nodes} \cup {s.cur})
    IN IF s.epoch[n] # 0 /\ s.epoch[n] = maxEpoch THEN s
       ELSE [s EXCEPT !.cur = @ + 1, !.epoch[n] = s.cur + 1]
AddSlots(s, n) ==
    IF s.owner # None THEN Refused(s) ELSE Done([s EXCEPT !.owner = n, !.importing = None])
DelSlots(s) ==
    IF s.owner = None THEN Refused(s) ELSE Done([s EXCEPT !.owner = None, !.importing = None])
SetSlotMigrating(s, n, x) ==
    IF s.owner # n THEN Refused(s) ELSE Done([s EXCEPT !.migrating = x])
SetSlotImporting(s, n, x) ==
    IF s.owner = n THEN Refused(s) ELSE Done([s EXCEPT !.importing = x])
SetSlotStable(s) == Done([s EXCEPT !.migrating = None, !.importing = None])
SetSlotNode(s, n, x) ==
    LET closed == IF KeysAt(n) = {} THEN [s EXCEPT !.migrating = None] ELSE s
        imported == IF x = n /\ s.importing # None
                    THEN [clusterBumpConfigEpochWithoutConsensus(closed, n) EXCEPT !.importing = None]
                    ELSE closed
    IN IF s.owner = n /\ x # n /\ KeysAt(n) # {} THEN Refused(s)
       ELSE Done([imported EXCEPT !.owner = x])

-----------------------------------------------------------------------------
(* Which node serves a command: a client's, a MIGRATE, or a RESTORE-ASKING.  *)

getNodeByQuery(n, ks, asking, cmd) ==
    LET s == st[n]
        missing == ks \ KeysAt(n) # {}
        migrating == s.owner = n /\ s.migrating # None
        importing == ~migrating /\ s.importing # None
    IN IF s.owner = None THEN [code |-> "DOWN", to |-> None]
       ELSE IF (migrating \/ importing) /\ cmd = "migrate" THEN [code |-> "NONE", to |-> n]
       ELSE IF migrating /\ missing THEN [code |-> "ASK", to |-> s.migrating]
       ELSE IF importing /\ (asking \/ cmd = "restore")
            THEN IF Cardinality(ks) > 1 /\ missing THEN [code |-> "TRYAGAIN", to |-> None]
                 ELSE [code |-> "NONE", to |-> n]
       ELSE [code |-> IF s.owner = n THEN "NONE" ELSE "MOVED", to |-> s.owner]

\* A client writes keys, here or after the redirection it was given.
Served(c, n, ks) ==
    /\ getNodeByQuery(n, ks, ask[c] # None, "client").code = "NONE"
    /\ spent.writes < MaxWrites
    /\ \E v \in {spent.writes + 1} \cup (IF Deletes THEN {Absent} ELSE {}) :
          /\ db' = [db EXCEPT ![n] = [k \in Keys |-> IF k \in ks THEN v ELSE @[k]]]
          /\ latest' = [k \in Keys |-> IF k \in ks THEN v ELSE latest[k]]
    /\ spent' = [spent EXCEPT !.writes = @ + 1, !.asked = IF ask[c] # None THEN @ \cup ks ELSE @]
    /\ ask' = [ask EXCEPT ![c] = None]
Redirected(c, n, ks) ==
    LET r == getNodeByQuery(n, ks, ask[c] # None, "client")
    IN /\ r.code # "NONE"
       /\ ask' = [ask EXCEPT ![c] = IF r.code = "ASK" THEN [to |-> r.to, keys |-> ks] ELSE None]
       /\ UNCHANGED <<db, latest, spent>>
Request(c, n) ==
    /\ ~Busy(n)
    /\ \E ks \in SUBSET Keys \ {{}} :
          /\ Cardinality(ks) <= CommandKeys
          /\ ask[c] # None => ask[c] = [to |-> n, keys |-> ks]
          /\ Served(c, n, ks) \/ Redirected(c, n, ks)
    /\ UNCHANGED <<st, mig, late, cli>>

-----------------------------------------------------------------------------
(* Gossip: a node learns the epoch another one has, and what it claims.      *)

clusterUpdateSlotsConfigWith(s, x, epoch) ==
    IF s.owner # x /\ s.importing = None /\ (s.owner = None \/ s.epoch[s.owner] < epoch)
    THEN [s EXCEPT !.owner = x] ELSE s
clusterHandleConfigEpochCollision(s, n, x) ==
    IF s.epoch[x] = s.epoch[n] /\ SmallerId(n, x)
    THEN [s EXCEPT !.cur = @ + 1, !.epoch[n] = s.cur + 1] ELSE s
clusterProcessPacket(n, x) ==
    LET epoch == st[x].epoch[x]
        known == [st[n] EXCEPT !.cur = Max({@, st[x].cur}), !.epoch[x] = Max({@, epoch})]
        bound == IF st[x].owner = x THEN clusterUpdateSlotsConfigWith(known, x, epoch) ELSE known
        s == clusterHandleConfigEpochCollision(bound, n, x)
    IN /\ n # x /\ ~Busy(n)
       /\ s # st[n] /\ s.cur <= MaxEpoch
       /\ st' = [st EXCEPT ![n] = s]
       \* The keys of a slot that is lost are deleted (delKeysInSlot).
       /\ db' = IF st[n].owner = n /\ s.owner # n THEN [db EXCEPT ![n] = [k \in Keys |-> Absent]] ELSE db
       /\ UNCHANGED <<mig, late, cli, ask, latest, spent>>

\* A node restarts and checks its keys against its configuration.
verifyClusterConfigWithData(n) ==
    LET s == st[n]
    IN /\ spent.restarts < MaxRestarts /\ mig = None
       /\ KeysAt(n) # {} /\ s.owner # n /\ s.importing = None
       /\ st' = [st EXCEPT ![n] = IF s.owner = None THEN [s EXCEPT !.owner = n] ELSE [s EXCEPT !.importing = s.owner]]
       /\ spent' = [spent EXCEPT !.restarts = @ + 1]
       /\ UNCHANGED <<db, mig, late, cli, ask, latest>>

-----------------------------------------------------------------------------
(* MIGRATE: the source writes one RESTORE per key and waits for the replies. *)

\* Key names and values are looked up once.  A key that expires before it is
\* serialised is skipped, and the names, not the values, close up.
Serialised(m, expired) ==
    LET valid == SelectSeq([i \in 1 .. Len(m.kv) |-> [key |-> m.kv[i], val |-> m.ov[i]]], LAMBDA r : r.key \notin expired)
    IN [m EXCEPT !.kv = SelectSeq(@, LAMBDA k : k \notin expired),
                 !.todo = [i \in 1 .. Len(valid) |-> valid[i] @@ [replace |-> m.replace]],
                 !.replies = <<>>]
Answer(result) == [cli EXCEPT !.try = IF result = "ok" THEN 0 ELSE @, !.batch = IF result = "ok" THEN {} ELSE @,
                              !.status = IF result = "ok" THEN "run" ELSE result]
migrateCommand(src, dst, ks, replace) ==
    LET present == ks \cap KeysAt(src)
        kv == SetToSeq(present)
        m == [src |-> src, dst |-> dst, kv |-> kv, ov |-> [i \in 1 .. Len(kv) |-> db[src][kv[i]]],
              replace |-> replace, retry |-> TRUE, j |-> 0, err |-> "none", todo |-> <<>>, replies |-> <<>>]
        code == getNodeByQuery(src, ks, FALSE, "migrate").code
    IN IF code # "NONE" THEN cli' = Answer("refused") /\ UNCHANGED <<mig, db, latest, spent>>
       ELSE IF present = {} THEN cli' = Answer("ok") /\ UNCHANGED <<mig, db, latest, spent>>
       ELSE \E expired \in SUBSET present :
              /\ spent.expires + Cardinality(expired) <= MaxExpires
              /\ spent' = [spent EXCEPT !.expires = @ + Cardinality(expired)]
              /\ db' = [db EXCEPT ![src] = [k \in Keys |-> IF k \in expired THEN Absent ELSE @[k]]]
              /\ latest' = [k \in Keys |-> IF k \in expired THEN Absent ELSE latest[k]]
              /\ IF expired = present THEN mig' = None /\ cli' = Answer("ok")
                 ELSE mig' = Serialised(m, expired) /\ cli' = [cli EXCEPT !.status = "wait"]

restoreCommand(dst, r) ==
    LET code == getNodeByQuery(dst, {r.key}, FALSE, "restore").code
    IN IF code # "NONE" THEN [reply |-> "refused", db |-> db]
       ELSE IF ~r.replace /\ db[dst][r.key] # Absent THEN [reply |-> "busy", db |-> db]
       ELSE [reply |-> "ok", db |-> [db EXCEPT ![dst][r.key] = r.val]]
Restore ==
    /\ mig # None /\ mig.todo # <<>>
    /\ LET r == restoreCommand(mig.dst, Head(mig.todo))
       IN /\ db' = r.db
          /\ mig' = [mig EXCEPT !.todo = Tail(@), !.replies = Append(@, r.reply)]
    /\ UNCHANGED <<st, late, cli, ask, latest, spent>>
\* What was written to a connection that is gone is still read by the target.
LateRestore ==
    /\ late # <<>>
    /\ ~Busy(Head(late).dst)
    /\ db' = restoreCommand(Head(late).dst, Head(late)).db
    /\ late' = Tail(late)
    /\ UNCHANGED <<st, mig, cli, ask, latest, spent>>

ReadReply ==
    /\ mig # None /\ mig.replies # <<>>
    /\ LET j == mig.j + 1
           err == IF Head(mig.replies) # "ok" /\ mig.err = "none" THEN Head(mig.replies) ELSE mig.err
       IN /\ db' = IF Head(mig.replies) = "ok" THEN [db EXCEPT ![mig.src][mig.kv[j]] = Absent] ELSE db
          /\ IF j = Len(mig.kv) THEN mig' = None /\ cli' = Answer(IF err = "none" THEN "ok" ELSE err)
             ELSE mig' = [mig EXCEPT !.j = j, !.err = err, !.replies = Tail(@)] /\ UNCHANGED cli
    /\ UNCHANGED <<st, late, ask, latest, spent>>

Unanswered(m) == {m.kv[i] : i \in m.j + 1 .. Len(m.kv)}
\* The keys a second attempt takes the wrong value for.
Mixed(m) == {m.kv[i] : i \in {x \in 1 .. Len(m.kv) : m.ov[x] # db[m.src][m.kv[x]]}}
Abandoned(m) == [i \in 1 .. Len(m.todo) |-> m.todo[i] @@ [dst |-> m.dst]]
Overdue(m) == IF m.replace THEN {m.todo[i].key : i \in 1 .. Len(m.todo)} ELSE {}
SocketError(error) == mig' = None /\ cli' = Answer(IF mig.err = "none" THEN error ELSE mig.err)
\* The connection breaks; what the target had not read may be lost or not.  One
\* retry, on a new connection, as long as no reply was read.
ConnectionLost ==
    /\ mig # None /\ spent.faults < MaxFaults
    /\ late' \in {late, late \o Abandoned(mig)}
    /\ LET again == mig.retry /\ mig.j = 0
       IN /\ IF again THEN mig' = Serialised([mig EXCEPT !.retry = FALSE], {}) /\ UNCHANGED cli ELSE SocketError("ioerr")
          /\ spent' = [spent EXCEPT !.faults = @ + 1, !.left = @ \cup Unanswered(mig),
                                    !.mixed = IF again THEN @ \cup Mixed(mig) ELSE @, !.overdue = @ \cup Overdue(mig)]
    /\ UNCHANGED <<st, db, ask, latest>>
\* The replies do not come in time: no retry.
MigrateTimeout ==
    /\ mig # None /\ spent.faults < MaxFaults
    /\ spent' = [spent EXCEPT !.faults = @ + 1, !.left = @ \cup Unanswered(mig), !.overdue = @ \cup Overdue(mig)]
    /\ late' = late \o Abandoned(mig)
    /\ SocketError("ioerr")
    /\ UNCHANGED <<st, db, ask, latest>>

-----------------------------------------------------------------------------
(* redis-cli: a job is a plan, a sequence of commands it sends one by one.   *)

Cmd(cmd, on, x) == [cmd |-> cmd, on |-> on, to |-> x]
InOrder(order, ns) == SelectSeq(order, LAMBDA n : n \in ns)
ForEach(ns, Plan(_)) == FoldLeft(LAMBDA acc, n : acc \o Plan(n), <<>>, ns)

MoveKeys(src, dst) == <<Cmd("move", src, dst)>>
\* The target learns that it owns the slot before the keys are there.
clusterManagerMoveSlot(order, src, dst) ==
    <<Cmd("importing", dst, src), Cmd("migrating", src, dst)>> \o MoveKeys(src, dst)
       \o ForEach(order, LAMBDA n : <<Cmd("node", n, dst)>>)

\* The keys of a node that imports go to the owner, and it stops importing.
CollectKeys(n, owner) == MoveKeys(n, owner) \o <<Cmd("stable", n, None)>>

clusterManagerGetNodeWithMostKeysInSlot(ns) ==
    ns[Min({i \in 1 .. Len(ns) : \A j \in 1 .. Len(ns) : Cardinality(KeysAt(ns[j])) <= Cardinality(KeysAt(ns[i]))})]

Unfixable == <<Cmd("fail", None, None)>>
\* The nodes that claim the slot or have keys of it, the owner if it is the only
\* one, and who migrates and imports: as loaded, and by the keys they have now.
OpenSlotRoles(info, own) ==
    LET owners == {n \in Nodes : n \in own \/ KeysAt(n) # {}}
        owner == IF Cardinality(owners) = 1 THEN CHOOSE n \in owners : TRUE ELSE None
        migrating == {n \in Nodes : info[n].migrating # None}
    IN [owners |-> owners, owner |-> owner, migrating |-> migrating,
        importing |-> {n \in Nodes \ migrating : info[n].importing # None \/ (n # owner /\ KeysAt(n) # {})}]
\* The four cases redis-cli knows how to close.
OpenSlotCases(order, info, owner, migrating, importing) ==
    LET src == CHOOSE n \in migrating : TRUE
        dst == CHOOSE n \in importing : TRUE
        target == info[src].migrating
    IN CASE Cardinality(migrating) = 1 /\ Cardinality(importing) = 1 ->
              clusterManagerMoveSlot(order, src, dst) \o <<Cmd("moved", src, dst)>>
         [] migrating = {} /\ importing # {} ->
              ForEach(InOrder(order, importing \ {owner}), LAMBDA n : CollectKeys(n, owner))
                \o ForEach(InOrder(order, Nodes \ {owner}), LAMBDA n : <<Cmd("node", n, owner)>>)
         [] Cardinality(migrating) = 1 /\ Cardinality(importing) > 1 ->
              IF \E n \in importing : KeysAt(n) # {} THEN Unfixable
              ELSE IF target \in importing
                   THEN clusterManagerMoveSlot(order, src, target)
                          \o ForEach(InOrder(order, importing \ {target}), LAMBDA n : <<Cmd("stable", n, None)>>)
                   ELSE ForEach(<<src>> \o InOrder(order, importing), LAMBDA n : <<Cmd("stable", n, None)>>)
         [] Cardinality(migrating) = 1 /\ importing = {} /\ (owner = src \/ KeysAt(src) = {}) ->
              <<Cmd("stable", src, None)>>
         [] OTHER -> Unfixable
\* Without a clear owner the node with most keys becomes it, and the others import.
clusterManagerFixOpenSlot(order, info, own) ==
    LET r == OpenSlotRoles(info, own)
        owner == clusterManagerGetNodeWithMostKeysInSlot(order)
        others == IF Cardinality(r.owners) > 1 THEN r.owners \ {owner} ELSE {}
    IN IF r.owner # None THEN OpenSlotCases(order, info, r.owner, r.migrating, r.importing)
       ELSE <<Cmd("stable", owner, None), Cmd("setowner", owner, None), Cmd("bump", owner, None)>>
              \o ForEach(InOrder(order, others),
                         LAMBDA n : <<Cmd("del", n, None), Cmd("node", n, owner), Cmd("importing", n, owner)>>)
              \o OpenSlotCases(order, info, owner, r.migrating \ ({owner} \cup others), (r.importing \ {owner}) \cup others)
\* The slot no node owns and several have keys of goes to the one with most keys.
CoverMulti(holders) ==
    LET target == clusterManagerGetNodeWithMostKeysInSlot(holders)
    IN <<Cmd("setownerclear", target, None)>>
         \o ForEach(SelectSeq(holders, LAMBDA n : n # target),
              LAMBDA n : <<Cmd("node", n, target), Cmd("importing", n, target)>>
                           \o MoveKeys(n, target) \o <<Cmd("stable", n, None)>>)
\* The plans for a slot no node owns: for a random node, for the one with keys, for several.
clusterManagerFixSlotsCoverage(order) ==
    LET holders == InOrder(order, {n \in Nodes : KeysAt(n) # {}})
    IN CASE Len(holders) = 0 -> {<<Cmd("setowner", n, None)>> : n \in Nodes}
         [] Len(holders) = 1 -> {<<Cmd("setowner", holders[1], None)>>}
         [] OTHER -> {CoverMulti(holders)}
clusterManagerFixMultipleSlotOwners(order, owners) ==
    LET owner == clusterManagerGetNodeWithMostKeysInSlot(InOrder(order, owners))
    IN <<Cmd("setowner", owner, None)>>
         \o ForEach(InOrder(order, Nodes \ {owner}),
              LAMBDA n : <<Cmd("del", n, None), Cmd("node", n, owner)>>
                           \o IF KeysAt(n) # {} THEN MoveKeys(n, owner) ELSE <<>>)

clusterManagerIsConfigConsistent == \A n, x \in Nodes : st[n].owner = st[x].owner
Open(info) == \E n \in Nodes : info[n].migrating # None \/ info[n].importing # None

\* redis-cli --cluster reshard refuses a cluster that does not pass the check.
clusterManagerCommandReshard(src, dst) ==
    /\ "reshard" \in Jobs
    /\ cli.status \in {"idle", "end"} /\ spent.jobs < MaxJobs
    /\ clusterManagerIsConfigConsistent /\ ~Open(st)
    /\ src # dst /\ st[src].owner = src
    /\ \E order \in NodeLists :
          cli' = [Idle EXCEPT !.status = "run", !.phase = "reshard", !.order = order,
                              !.plan = clusterManagerMoveSlot(order, src, dst)]
    /\ spent' = [spent EXCEPT !.jobs = @ + 1]
    /\ UNCHANGED <<st, db, mig, late, ask, latest>>
\* redis-cli --cluster fix: the nodes are loaded once.
clusterManagerLoadInfoFromNode ==
    /\ Jobs \cap {"fix", "owners"} # {}
    /\ cli.status \in {"idle", "end"} /\ spent.jobs < MaxJobs
    /\ \E order \in NodeLists :
          cli' = [Idle EXCEPT !.status = "run", !.order = order, !.ok = clusterManagerIsConfigConsistent,
                              !.info = [n \in Nodes |-> [migrating |-> st[n].migrating, importing |-> st[n].importing]],
                              !.own = {n \in Nodes : st[n].owner = n}]
    /\ spent' = [spent EXCEPT !.jobs = @ + 1]
    /\ UNCHANGED <<st, db, mig, late, ask, latest>>
\* One check after the other, each with its fix.
clusterManagerCheckCluster ==
    /\ cli.status = "run" /\ cli.plan = <<>>
    /\ LET owners == cli.own \cup {n \in Nodes : KeysAt(n) # {}}
       IN \/ /\ cli.phase = "open" /\ Open(cli.info)
             /\ cli' = [cli EXCEPT !.phase = "opened", !.ok = TRUE, !.plan = clusterManagerFixOpenSlot(cli.order, cli.info, cli.own)]
          \/ /\ cli.phase = "opened" \/ (cli.phase = "open" /\ ~Open(cli.info))
             /\ IF cli.own # {} THEN cli' = [cli EXCEPT !.phase = "covered"]
                ELSE \E plan \in clusterManagerFixSlotsCoverage(cli.order) :
                       cli' = [cli EXCEPT !.phase = "covered", !.ok = TRUE, !.plan = plan]
          \/ /\ cli.phase = "covered"
             /\ IF "owners" \in Jobs /\ Cardinality(owners) > 1
                THEN cli' = [cli EXCEPT !.phase = "owners", !.ok = TRUE, !.plan = clusterManagerFixMultipleSlotOwners(cli.order, owners)]
                ELSE cli' = [cli EXCEPT !.phase = "owners"]
          \/ cli.phase \in {"owners", "reshard"} /\ cli' = [cli EXCEPT !.status = "end"]
    /\ UNCHANGED <<st, db, mig, late, ask, latest, spent>>

\* One transaction: DELSLOTS, ADDSLOTS, SETSLOT STABLE if asked for, BUMPEPOCH.
clusterManagerSetSlotOwner(s, n, doClear) ==
    LET added == AddSlots(DelSlots(s).s, n).s
        cleared == IF doClear THEN SetSlotStable(added).s ELSE added
    IN Done(clusterBumpConfigEpochWithoutConsensus(cleared, n))
Result(c) ==
    LET s == st[c.on]
    IN CASE c.cmd = "importing" -> SetSlotImporting(s, c.on, c.to)
         [] c.cmd = "migrating" -> SetSlotMigrating(s, c.on, c.to)
         [] c.cmd = "stable" -> SetSlotStable(s)
         [] c.cmd = "node" -> SetSlotNode(s, c.on, c.to)
         [] c.cmd = "del" -> Done(DelSlots(s).s)   \* "already unassigned" is ignored
         [] c.cmd = "setowner" -> clusterManagerSetSlotOwner(s, c.on, FALSE)
         [] c.cmd = "setownerclear" -> clusterManagerSetSlotOwner(s, c.on, TRUE)
         [] c.cmd = "bump" -> Done(clusterBumpConfigEpochWithoutConsensus(s, c.on))
\* An administrator sends one of these commands directly.
CommandByHand(n, x) ==
    /\ spent.byhand < MaxByHand /\ ~Busy(n) /\ n # x
    /\ cli.status \in {"idle", "end"} /\ cli' = Idle
    /\ \E cmd \in ByHand :
          LET r == Result(Cmd(cmd, n, x))
          IN r.ok /\ r.s.cur <= MaxEpoch /\ st' = [st EXCEPT ![n] = r.s]
    /\ spent' = [spent EXCEPT !.byhand = @ + 1]
    /\ UNCHANGED <<db, mig, late, ask, latest>>
GiveUp == [cli EXCEPT !.plan = <<>>, !.ok = FALSE, !.status = "run", !.batch = {}, !.try = 0]
RunCommand ==
    /\ cli.status = "run" /\ cli.plan # <<>>
    /\ LET c == Head(cli.plan)
       IN \/ /\ c.cmd \notin {"move", "moved", "fail"}
             /\ ~Busy(c.on)
             /\ LET r == Result(c)
                IN /\ r.s.cur <= MaxEpoch
                   /\ st' = [st EXCEPT ![c.on] = r.s]
                   /\ cli' = IF ~r.ok THEN GiveUp
                             ELSE [cli EXCEPT !.plan = Tail(@),
                                     !.own = IF c.cmd \in {"setowner", "setownerclear"} THEN @ \cup {c.on} ELSE IF c.cmd = "del" THEN @ \ {c.on} ELSE @]
          \/ c.cmd = "moved" /\ UNCHANGED st
             /\ cli' = [cli EXCEPT !.plan = Tail(@), !.own = (@ \ {c.on}) \cup {c.to}]
          \/ c.cmd = "fail" /\ UNCHANGED st /\ cli' = GiveUp
    /\ UNCHANGED <<db, mig, late, ask, latest, spent>>

\* CLUSTER GETKEYSINSLOT, and MIGRATE for the keys it returned; with none left the slot is moved.
clusterManagerMigrateKeysInSlot ==
    /\ cli.status = "run" /\ cli.plan # <<>> /\ Head(cli.plan).cmd = "move" /\ cli.try = 0
    /\ ~Busy(Head(cli.plan).on)
    /\ IF KeysAt(Head(cli.plan).on) = {} THEN cli' = [cli EXCEPT !.plan = Tail(@)]
       ELSE \E ks \in kSubset(Min({Pipeline, Cardinality(KeysAt(Head(cli.plan).on))}), KeysAt(Head(cli.plan).on)) :
              cli' = [cli EXCEPT !.batch = ks, !.try = 1, !.replace = FALSE]
    /\ UNCHANGED <<st, db, mig, late, ask, latest, spent>>
clusterManagerMigrateKeysInReply ==
    /\ cli.status = "run" /\ cli.try \in {1, 2} /\ mig = None
    /\ migrateCommand(Head(cli.plan).on, Head(cli.plan).to, cli.batch, cli.replace)
    /\ UNCHANGED <<st, late, ask>>
\* Keys that exist on both nodes with different values.
clusterManagerCompareKeysValues(src, dst) ==
    {k \in cli.batch : db[src][k] # Absent /\ db[dst][k] # Absent /\ db[src][k] # db[dst][k]}
\* Whatever the target has is overwritten.
MigrateFailed_noCompare ==
    /\ cli.status \in {"busy", "refused", "ioerr"}
    /\ LET c == Head(cli.plan)
           unserved == cli.status # "busy" /\ st[c.on].owner = None
       IN IF cli.try = 2 \/ ~(cli.status = "busy" \/ unserved) THEN cli' = GiveUp /\ UNCHANGED st
          ELSE /\ cli' = [cli EXCEPT !.status = "run", !.try = 2, !.replace = cli.status = "busy"]
               /\ st' = IF unserved THEN [st EXCEPT ![c.on] = SetSlotNode(@, c.on, c.to).s] ELSE st
    /\ UNCHANGED <<db, mig, late, ask, latest, spent>>
\* A busy key is replaced when it is the same on both nodes; a slot the source
\* does not know the owner of is given to the target, by fix only.
MigrateFailed ==
    /\ cli.status \in {"busy", "refused", "ioerr"}
    /\ LET c == Head(cli.plan)
           unserved == cli.status # "busy" /\ st[c.on].owner = None
           differ == cli.status = "busy" /\ ~Replace /\ clusterManagerCompareKeysValues(c.on, c.to) # {}
       IN IF cli.try = 2 \/ differ \/ ~(cli.status = "busy" \/ unserved) THEN cli' = GiveUp /\ UNCHANGED st
          ELSE /\ cli' = [cli EXCEPT !.status = "run", !.try = 2, !.replace = cli.status = "busy"]
               /\ st' = IF unserved /\ cli.phase # "reshard" THEN [st EXCEPT ![c.on] = SetSlotNode(@, c.on, c.to).s] ELSE st
    /\ UNCHANGED <<db, mig, late, ask, latest, spent>>
\* redis-cli is stopped; a MIGRATE it sent goes on.
CliStopped ==
    /\ cli.status \in {"run", "busy", "refused", "ioerr"} /\ mig = None
    /\ spent.kills < MaxKills
    /\ spent' = [spent EXCEPT !.kills = @ + 1]
    /\ cli' = Idle
    /\ UNCHANGED <<st, db, mig, late, ask, latest>>

Next ==
    \/ \E c \in Clients, n \in Nodes : Request(c, n)
    \/ \E n, x \in Nodes : clusterProcessPacket(n, x) \/ clusterManagerCommandReshard(n, x) \/ CommandByHand(n, x)
    \/ \E n \in Nodes : verifyClusterConfigWithData(n)
    \/ Restore \/ LateRestore \/ ReadReply \/ ConnectionLost \/ MigrateTimeout
    \/ clusterManagerLoadInfoFromNode \/ clusterManagerCheckCluster \/ RunCommand
    \/ clusterManagerMigrateKeysInSlot \/ clusterManagerMigrateKeysInReply \/ MigrateFailed \/ CliStopped
Spec == Init /\ [][Next]_vars

-----------------------------------------------------------------------------
\* The state of the nodes and of redis-cli keeps its shape.
TypeOK ==
    /\ \A n \in Nodes : st[n].owner \in Nodes \cup {None} /\ st[n].cur \in 0 .. MaxEpoch
    /\ db \in [Nodes -> [Keys -> 0 .. MaxWrites]]
    /\ cli.status \in {"idle", "run", "wait", "busy", "refused", "ioerr", "end"}
    /\ (mig # None) = (cli.status = "wait")

\* Wherever a client is served while the slot moves, with or without an ASK,
\* it works on the version of the key that was last acknowledged: never on a
\* copy left behind or not yet there (getNodeByQuery, migrateCommand).  The
\* exceptions are a key sent again with the value of another, a key a RESTORE
\* REPLACE on a connection that was given up may still reach, and a key of which a
\* MIGRATE that broke may have left both copies: the target's comes back when the
\* source's is deleted or expires, and a command of several keys, sent to the
\* target because another one is there, works on the target's.
ServedIsLatest ==
    \A n \in Nodes, ks \in SUBSET Keys \ {{}}, asking \in BOOLEAN :
       /\ ~Busy(n) /\ Cardinality(ks) <= CommandKeys
       /\ asking => \E c \in Clients : ask[c] = [to |-> n, keys |-> ks]
       /\ getNodeByQuery(n, ks, asking, "client").code = "NONE"
       => \A k \in ks : \/ db[n][k] = latest[k]
                        \/ /\ k \in spent.left
                           /\ latest[k] = Absent \/ k \in spent.asked \/ (asking /\ Cardinality(ks) > 1)
                        \/ k \in spent.mixed \cup spent.overdue

\* No acknowledged write disappears from the cluster, whatever breaks: its
\* version is on some node until a newer one is (the source deletes a key only
\* when the target answered).  Three exceptions.  After a key expired while MIGRATE
\* serialised it, the second attempt over a new connection sends the keys behind
\* it with the values of those before, and deletes them when that is answered.
\* What a client that was sent there writes to the copy a broken MIGRATE left at
\* the target is overwritten by a RESTORE REPLACE decided on before.  And one the
\* target reads late, from a connection that was given up, overwrites anything.
NothingLost ==
    \A k \in Keys :
        latest[k] # Absent => \/ k \in spent.mixed \cup spent.overdue \cup (spent.left \cap spent.asked)
                             \/ \E n \in Nodes : db[n][k] = latest[k]

\* When redis-cli reports that it fixed the slot, the slot is closed, a single
\* node owns it and that node has all the keys (clusterManagerCheckCluster).
FixedIsFixed ==
    cli.status = "end" /\ cli.ok /\ cli.phase = "owners" =>
        /\ ~Open(st)
        /\ \E o \in Nodes : st[o].owner = o /\ \A n \in Nodes \ {o} : st[n].owner # n /\ KeysAt(n) = {}
====
