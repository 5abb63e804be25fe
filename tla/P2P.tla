-------------------------------- MODULE P2P --------------------------------
(***************************************************************************)
(* How the replicas come to be connected (p2p.c), and what happens to the  *)
(* commands written to connections that are not up yet, up twice, or lost. *)
(* Replication.tla is the idealisation of this module that the data types  *)
(* are built on: every pair connected once and for ever.                   *)
(*                                                                         *)
(* A connection has an initiator, the server that executed REPLICATE, and  *)
(* an acceptor.  Each end has a client structure; server.replicas lists    *)
(* the ones commands are broadcast to.                                     *)
(***************************************************************************)
EXTENDS VectorClock, Sequences, FiniteSets, Functions

CONSTANTS Automat,     \* TRUE: the AUTOMAT form of REPLICATE is used
          Faults,      \* which faults happen, a subset of {"refuse", "error", "lose"}
          MaxConns,    \* bound: connections ever opened
          MaxCmds      \* bound: client commands accepted

VARIABLES reply,      \* reply[p]: of REPLICATE; p2p_count is set once it is not "none"
          conns,      \* the connections ever started, with their state
          stream,     \* stream[c][p]: what the end at p has written, not yet read
          replicas,   \* replicas[p]: server.replicas, as numbers of connections
          freed,      \* freed[p]: the connections whose client p has freed
          executed,   \* executed[p]: the commands executed, in order
          issued      \* the commands clients sent, with who was connected then

Connection ==
  [from : Procs, to : Procs, state : {"connecting", "connected", "error", "lost"}]

vars == <<reply, conns, stream, replicas, freed, executed, issued>>

\* Commands are numbered from 1.
Handshake == 0

\* Nothing is on its way.
Silent == [p \in Procs |-> << >>]

\* The peers named in p's REPLICATE command by construct_replication.sh: all the
\* servers before it.
ScriptPeers(p) == [i \in 1 .. p |-> i - 1]

\* The AUTOMAT form is given all addresses.  Its loop ends at p2p_id but counts
\* words, two for each address.
AutomatPeers(p) == [i \in 1 .. (p + 1) \div 2 |-> i - 1]

Peers(p) == IF Automat THEN AutomatPeers(p) ELSE ScriptPeers(p)

\* The two servers that connection c joins.
Ends(c) == {conns[c].from, conns[c].to}

Other(c, p) == IF conns[c].from = p THEN conns[c].to ELSE conns[c].from

Init ==
  /\ reply = [p \in Procs |-> "none"]
  /\ conns = << >>
  /\ stream = << >>
  /\ replicas = [p \in Procs |-> << >>]
  /\ freed = [p \in Procs |-> {}]
  /\ executed = [p \in Procs |-> << >>]
  /\ issued = << >>

\* Connecting to the first k peers was started; if these are not all, the next one
\* was refused at once and the command returns with an error.  It is given once,
\* and again after an error.  The script gives server 0 no peers, and then the test
\* for AUTOMAT reads the word after the last one, which is undefined: here it finds
\* some other word.  A server that it ends takes no further step, and connecting to
\* it is refused or fails, as Faults allow.
replicateCommand(p, k) ==
  /\ reply[p] # "ok"
  /\ k = Len(Peers(p)) \/ (k < Len(Peers(p)) /\ "refuse" \in Faults)
  /\ Len(conns) + k <= MaxConns
  /\ reply' = [reply EXCEPT ![p] = IF k = Len(Peers(p)) THEN "ok" ELSE "error"]
  /\ conns' = conns \o [i \in 1 .. k |-> [from |-> p, to |-> Peers(p)[i],
                                          state |-> "connecting"]]
  /\ stream' = stream \o [i \in 1 .. k |-> Silent]
  /\ UNCHANGED <<replicas, freed, executed, issued>>

\* The callback of connConnect.  It runs when the connection is up and also when it
\* failed, which it does not look at.
replicationHandler(c, up) ==
  LET p == conns[c].from
  IN  /\ conns[c].state = "connecting"
      /\ up \/ "error" \in Faults
      /\ conns' = [conns EXCEPT ![c].state = IF up THEN "connected" ELSE "error"]
      /\ stream' = IF up THEN [stream EXCEPT ![c][p] = Append(@, Handshake)] ELSE stream
      /\ replicas' = [replicas EXCEPT ![p] = Append(@, c)]
      /\ UNCHANGED <<reply, freed, executed, issued>>

\* The peers p sends to at this moment.
Reached(p) == {Other(replicas[p][i], p) : i \in 1 .. Len(replicas[p])}

\* How often p lists its end of connection c.
Listings(p, c) == Cardinality({i \in DOMAIN replicas[p] : replicas[p][i] = c})

\* replicationBroadcast: one copy per entry of server.replicas; nothing comes out of
\* a connection that is not up.
Broadcast(p, m) ==
  [c \in DOMAIN stream |->
     IF conns[c].state = "connected"
     THEN [stream[c] EXCEPT ![p] = @ \o [i \in 1 .. Listings(p, c) |-> m]]
     ELSE stream[c]]

\* Variant: the handshake is answered by another one, and the initiator lists its
\* end again.
Handshaken_answered(p, c) ==
  /\ replicas' = [replicas EXCEPT ![p] = Append(@, c)]
  /\ stream' = [stream EXCEPT ![c][Other(c, p)] = Tail(@), ![c][p] = Append(@, Handshake)]
  /\ UNCHANGED executed

\* REPLICATE REPLICA HANDSHAKE: the accepting end is listed too.
Handshaken(p, c) ==
  /\ replicas' = [replicas EXCEPT ![p] = Append(@, c)]
  /\ stream' = [stream EXCEPT ![c][Other(c, p)] = Tail(@)]
  /\ UNCHANGED executed

\* Variant: the client is not seen to be a replica, and the command is passed on.
EffectOnly_forwards(p, c) ==
  /\ executed' = [executed EXCEPT ![p] = Append(@, Head(stream[c][Other(c, p)]))]
  /\ stream' = [Broadcast(p, Head(stream[c][Other(c, p)])) EXCEPT ![c][Other(c, p)] = Tail(@)]
  /\ UNCHANGED replicas

\* A command from a peer: the effect part only, and no broadcast.
EffectOnly(p, c) ==
  /\ executed' = [executed EXCEPT ![p] = Append(@, Head(stream[c][Other(c, p)]))]
  /\ stream' = [stream EXCEPT ![c][Other(c, p)] = Tail(@)]
  /\ UNCHANGED replicas

\* readQueryFromClient at p's end of connection c.
readQuery(p, c) ==
  /\ p \in Ends(c)
  /\ conns[c].state = "connected" /\ c \notin freed[p]
  /\ stream[c][Other(c, p)] # << >>
  /\ \/ Head(stream[c][Other(c, p)]) = Handshake /\ Handshaken(p, c)
     \/ Head(stream[c][Other(c, p)]) # Handshake /\ EffectOnly(p, c)
  /\ UNCHANGED <<reply, conns, freed, issued>>

\* A command of a client in replication mode: the effect here, then the broadcast.
\* Writing to a freed client in server.replicas (NoFreedReplica below) is undefined:
\* behaviours are followed up to that point.
clientCommand(p) ==
  LET m == Len(issued) + 1
  IN  /\ m <= MaxCmds
      /\ replicas[p] # << >> \/ reply[p] # "none"
      /\ Range(replicas[p]) \cap freed[p] = {}
      /\ executed' = [executed EXCEPT ![p] = Append(@, m)]
      /\ issued' = Append(issued, [by |-> p, reached |-> Reached(p)])
      /\ stream' = Broadcast(p, m)
      /\ UNCHANGED <<reply, conns, replicas, freed>>

\* The connection breaks; what was on its way is gone.
connectionLost(c) ==
  /\ "lose" \in Faults
  /\ conns[c].state = "connected"
  /\ conns' = [conns EXCEPT ![c].state = "lost"]
  /\ stream' = [stream EXCEPT ![c] = Silent]
  /\ UNCHANGED <<reply, replicas, freed, executed, issued>>

\* p's end sees the error or the end of the stream. freeClient takes the client off
\* server.slaves and server.monitors, but not off server.replicas.
freeClient(p, c) ==
  /\ p \in Ends(c)
  /\ \/ conns[c].state = "lost"
     \/ conns[c].state = "error" /\ conns[c].from = p
  /\ c \notin freed[p]
  /\ freed' = [freed EXCEPT ![p] = @ \cup {c}]
  /\ UNCHANGED <<reply, conns, stream, replicas, executed, issued>>

Setup ==
  \/ \E p \in Procs, k \in 0 .. N : replicateCommand(p, k)
  \/ \E c \in DOMAIN conns, up \in BOOLEAN : replicationHandler(c, up)

Traffic == \E p \in Procs : clientCommand(p) \/ \E c \in DOMAIN conns : readQuery(p, c)

Failure ==
  \/ \E c \in DOMAIN conns : connectionLost(c)
  \/ \E p \in Procs, c \in DOMAIN conns : freeClient(p, c)

Next == Setup \/ Traffic \/ Failure

Spec == Init /\ [][Next]_vars

\* The event loop runs the callbacks of connections that are up, and reads what
\* arrived; administrators run the script to its end.
Progress ==
  \/ \E p \in Procs, k \in 0 .. N : replicateCommand(p, k)
  \/ \E c \in DOMAIN conns :
       (\E up \in BOOLEAN : replicationHandler(c, up)) \/ (\E p \in Procs : readQuery(p, c))
-----------------------------------------------------------------------------
(***************************************************************************)
(* Correctness.                                                            *)
(***************************************************************************)

\* Connections join two different servers and are listed only by their ends; what
\* is executed and what is on its way are commands that clients issued.
TypeOK ==
  /\ conns \in Seq(Connection)
  /\ \A c \in DOMAIN conns : conns[c].from # conns[c].to
  /\ stream \in Seq([Procs -> Seq(Nat)]) /\ Len(stream) = Len(conns)
  /\ replicas \in [Procs -> Seq(DOMAIN conns)]
  /\ \A p \in Procs : \A c \in Range(replicas[p]) : p \in Ends(c)
  /\ issued \in Seq([by : Procs, reached : SUBSET Procs])
  /\ executed \in [Procs -> Seq(DOMAIN issued)]

\* The connections that were ever started between p and q.
Links(p, q) == {c \in DOMAIN conns : Ends(c) = {p, q}}

OneLink(p, q) == \A c, d \in Links(p, q) : c = d

Increasing(s) == \A i, j \in DOMAIN s : i < j => s[i] < s[j]

\* A server executes the commands of a peer in the order they were issued in, and
\* none of them twice: replaying one would count an increment twice.  REPLICATE
\* given again after an error connects some peers twice, which then do: the order
\* is that of peers with one connection, and of its own commands.
ExactlyOnceInOrder ==
  \A p, q \in Procs : OneLink(p, q) =>
    \A i, j \in DOMAIN executed[p] :
      i < j /\ issued[executed[p][i]].by = q /\ issued[executed[p][j]].by = q
        => executed[p][i] < executed[p][j]

\* A command executed by a peer was broadcast to it: servers execute only their own
\* clients' commands and those of servers that list them, and pass none of them on.
NoForwarding ==
  \A p \in Procs : \A i \in DOMAIN executed[p] :
    LET m == executed[p][i]
    IN  p # issued[m].by => p \in issued[m].reached

\* The places of command m in what p executed.
Executions(m, p) == {i \in DOMAIN executed[p] : executed[p][i] = m}

\* However often peers are connected, no command is executed more often than there
\* are connections from its issuer, and by the issuer once.
CopiesBoundedByConnections ==
  \A p \in Procs, m \in DOMAIN issued :
    Cardinality(Executions(m, p))
      <= IF p = issued[m].by THEN 1 ELSE Cardinality(Links(p, issued[m].by))

\* What Replication.tla takes for granted: the commands of a server reach a peer in
\* order, no more often than the two are connected, and only directly.
FaithfulDelivery == ExactlyOnceInOrder /\ NoForwarding /\ CopiesBoundedByConnections

\* The servers that p named in REPLICATE, and those that named p.
Named(p) == {q \in Procs \ {p} : q \in Range(Peers(p)) \/ p \in Range(Peers(q))}

\* Every server lists those it named or was named by. With the script that is every
\* other one: a command broadcast now reaches them all. With AUTOMAT it is not, as
\* soon as there are three.
AllListed ==
  \A p \in Procs : Reached(p) = Named(p) /\ (~Automat => Named(p) = Procs \ {p})

BroadcastTo(m, p) == m \in DOMAIN issued /\ p \in issued[m].reached
Executed(m, p) == m \in Range(executed[p])

\* Every client in server.replicas still exists when a command is broadcast to it.
NoFreedReplica ==
  \A p \in Procs : \A i \in 1 .. Len(replicas[p]) : replicas[p][i] \notin freed[p]
-----------------------------------------------------------------------------
(***************************************************************************)
(* The inductive invariant behind FaithfulDelivery.                        *)
(***************************************************************************)

\* A client structure is listed once, and not before its connection is up or has
\* failed; nothing is on its way on a connection that is not up.
Listed ==
  /\ \A p \in Procs : IsInjective(replicas[p])
  /\ \A p \in Procs : \A c \in Range(replicas[p]) : conns[c].state # "connecting"
  /\ \A c \in DOMAIN conns : conns[c].state # "connected" => stream[c] = Silent

\* The handshake goes from the initiator to an acceptor that has not seen it.
Greeting ==
  \A c \in DOMAIN conns, p \in Procs :
    Handshake \in Range(stream[c][p]) =>
      p = conns[c].from /\ c \notin Range(replicas[conns[c].to])

\* What a server writes to a connection are its own commands, in order, which its
\* peer was named as a receiver of.
OwnInOrder ==
  \A c \in DOMAIN conns, p \in Procs :
    /\ Increasing(stream[c][p])
    /\ \A m \in Range(stream[c][p]) \ {Handshake} :
         m \in DOMAIN issued /\ issued[m].by = p /\ Other(c, p) \in issued[m].reached

\* What p has executed of the commands of a peer with one connection was written
\* to it before what is still on its way.
Ahead ==
  \A p, q \in Procs : \A c \in Links(p, q) :
    OneLink(p, q) =>
      \A x \in Range(executed[p]), m \in Range(stream[c][q]) \ {Handshake} :
        issued[x].by = q => x < m

\* The connections on which command m is on its way to p.
Carrying(m, p) == {c \in Links(p, issued[m].by) : m \in Range(stream[c][issued[m].by])}

\* Every copy of a command on its way can be executed once more.
CopiesLeft ==
  \A p \in Procs, m \in DOMAIN issued :
    p # issued[m].by =>
      Cardinality(Executions(m, p)) + Cardinality(Carrying(m, p))
        <= Cardinality(Links(p, issued[m].by))

IInv ==
  TypeOK /\ Listed /\ Greeting /\ OwnInOrder /\ Ahead /\ CopiesLeft /\
  ExactlyOnceInOrder /\ NoForwarding
=============================================================================
