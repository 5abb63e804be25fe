---------------------------- MODULE Replication ----------------------------
(***************************************************************************)
(* What the P2P replication of p2p.c and of call() in server.c gives the   *)
(* data types once every pair of replicas is connected.  A command of a    *)
(* client is prepared and takes effect at its replica, and is then written *)
(* to the output buffer of every peer, in one turn of the event loop.  A   *)
(* peer executes the effect part only.  Each connection is a TCP stream:   *)
(* in order, without loss or duplication; nothing orders two connections.  *)
(***************************************************************************)
EXTENDS VectorClock, Sequences, Functions, FiniteSetsExt

\* net[p][q]: the commands that p has sent and q has not executed yet.
Network(Message) == [Procs -> [Procs -> Seq(Message)]]

EmptyNetwork == [p \in Procs |-> [q \in Procs |-> << >>]]

\* One copy of the command for every client in server.replicas.
replicationBroadcast(net, p, m) ==
  [net EXCEPT ![p] = [q \in Procs |-> IF q = p THEN net[p][q]
                                               ELSE Append(net[p][q], m)]]

\* The oldest command of p's stream is taken off by q.
Consume(net, p, q) == [net EXCEPT ![p][q] = Tail(net[p][q])]

\* The sum of the values that the commands in S carry.
Total(S) == MapThenSumSet(LAMBDA m : m.v, S)

InFlight(net) == \E p, q \in Procs : net[p][q] # << >>
-----------------------------------------------------------------------------
(***************************************************************************)
(* The reads that the three priority queues make on the Redis sorted set   *)
(* (zset) that shows their elements.  A zset is a function from elements   *)
(* to scores, with none for an element that is not in it.  Redis keeps the *)
(* members ordered by score and, for equal scores, by name; elements are   *)
(* integers here and their order stands for the order of the names.        *)
(***************************************************************************)

Members(z, none) == {e \in DOMAIN z : z[e] # none}

\* zsetScore: the score, or none.
zsetScore(z, e) == z[e]

\* The last member in the order of the zset with its score: a set of one pair,
\* or the empty reply.
zsetLast(z, none) ==
  {<<e, z[e]>> : e \in {x \in Members(z, none) :
     \A y \in Members(z, none) : z[y] < z[x] \/ (z[y] = z[x] /\ y <= x)}}
=============================================================================
