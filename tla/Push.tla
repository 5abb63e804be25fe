--------------------------------- MODULE Push ---------------------------------
(***************************************************************************)
(* Messages a server pushes to its clients: Pub/Sub (pubsub.c) and the     *)
(* invalidation messages of client side caching (tracking.c).              *)
(*   cl[c]     a client: protocol, tracking options, subscriptions         *)
(*   table[k]  TrackingTable: ids of the clients that were served key k    *)
(*   bs[p]     PrefixTable: the broadcasting clients of a prefix, and the  *)
(*             keys modified in this cycle of the event loop with the      *)
(*             client that is noted for each                               *)
(*   chans, pats   server.pubsub_channels and pubsub_patterns              *)
(*   copy[c]   ghost: the keys a tracking client may hold a copy of        *)
(*   stale     ghost: the copies that changed and were not invalidated     *)
(*   missed    ghost: the copies a message was due for that nobody got,    *)
(*             because there was nobody to push it to or by NOLOOP         *)
(* Client ids are never used again: a client of the model lives once.      *)
(***************************************************************************)
EXTENDS Integers, Sequences, SequencesExt, FiniteSets

CONSTANTS Clients, Keys, PrefixSet, Channels, None,
          Matches,                  \* Matches[p]: the keys that start with prefix p
          Modes,                    \* subset of normal, optin, optout, bcast
          MaxKeys,                  \* tracking-table-max-keys
          MaxRead                   \* bound on the keys of one command

VARIABLES cl, table, bs, chans, pats, copy, stale, missed
vars == <<cl, table, bs, chans, pats, copy, stale, missed>>

Init ==
    /\ cl \in [Clients -> [alive : {TRUE}, resp : {2, 3}, on : {FALSE}, mode : {"normal"}, noloop : {FALSE},
                           redir : {None}, caching : {FALSE}, prefixes : {{}}, subs : {{}}, psubs : {{}}]]
    /\ table = [k \in Keys |-> {}]
    /\ bs = [p \in PrefixSet |-> [clients |-> {}, keys |-> {}]]
    /\ chans = [h \in Channels |-> <<>>] /\ pats = [h \in Channels |-> <<>>]
    /\ copy = [c \in Clients |-> {}] /\ stale = {} /\ missed = {}

Alive(c) == cl[c].alive
InPubsub(c) == cl[c].subs \cup cl[c].psubs # {}

\* Where an invalidation message for c goes: to c or to the client it names.
\* Nobody gets it when that client is gone, or speaks RESP2 outside Pub/Sub.
sendTrackingMessage(c) ==
    IF cl[c].redir # None
    THEN Alive(cl[c].redir) /\ (cl[cl[c].redir].resp = 3 \/ InPubsub(cl[c].redir))
    ELSE cl[c].resp = 3

\* s = [table, bs, copy, stale, missed]: messages for key k to a set of clients.
State == [table |-> table, bs |-> bs, copy |-> copy, stale |-> stale, missed |-> missed]
Invalidate(s, cs, k) ==
    LET told == {c \in cs : sendTrackingMessage(c)} \X {k}
    IN  [s EXCEPT !.copy = [c \in Clients |-> {j \in @[c] : <<c, j>> \notin told}],
                  !.stale = @ \ told,
                  !.missed = (@ \ told) \cup {<<c, j>> \in (cs \X {k}) \ told : j \in s.copy[c]}]

-----------------------------------------------------------------------------
(* Enabling and disabling *)

\* What c may hold from an earlier tracking is its own business.
Forget(s, c) == [s EXCEPT !.copy[c] = {}, !.stale = {x \in @ : x[1] # c}, !.missed = {x \in @ : x[1] # c}]

\* The ids stay in the table: they are dropped lazily.  The last client of a
\* prefix takes the prefix along.
disableTracking(s, c) ==
    [Forget(s, c) EXCEPT !.bs = [p \in PrefixSet |->
        LET left == s.bs[p].clients \ {c}
        IN  IF p \notin cl[c].prefixes THEN s.bs[p]
            ELSE [clients |-> left, keys |-> IF left = {} THEN {} ELSE s.bs[p].keys]]]

Untracked(r) ==
    [r EXCEPT !.on = FALSE, !.mode = "normal", !.noloop = FALSE, !.caching = FALSE, !.prefixes = {}]

\* CLIENT TRACKING on: BCAST, OPTIN and OPTOUT are not switched while on.
TrackingAllowed(c, mode, redir, ps) ==
    /\ redir # None => Alive(redir)
    /\ (mode = "bcast") = (ps # {})
    /\ cl[c].on => (cl[c].mode = "bcast") = (mode = "bcast")
    /\ {cl[c].mode, mode} # {"optin", "optout"}

\* A client that asks for NOLOOP when its own change waits to be broadcast
\* does not get that message any more.
enableTracking(s, c, noloop, ps) ==
    LET t == [s EXCEPT !.bs = [p \in PrefixSet |->
                IF p \in ps THEN [s.bs[p] EXCEPT !.clients = @ \cup {c}] ELSE s.bs[p]]]
    IN  IF ~cl[c].on THEN Forget(t, c)
        ELSE [t EXCEPT !.missed = @ \cup {x \in {c} \X s.copy[c] :
                                            noloop /\ \E p \in PrefixSet : <<x[2], c>> \in s.bs[p].keys}]

clientCaching(c) ==
    /\ cl[c].on /\ cl[c].mode \in {"optin", "optout"} /\ ~cl[c].caching
    /\ cl' = [cl EXCEPT ![c].caching = TRUE]

-----------------------------------------------------------------------------
(* Reads and writes *)

\* May c keep what it is served: tracked, or covered by a prefix of its own.
Remembers(c) == cl[c].mode = "normal" \/ (cl[c].mode = "optin" /\ cl[c].caching)
                                      \/ (cl[c].mode = "optout" /\ ~cl[c].caching)

trackingRememberKeys(s, c, k) == IF Remembers(c) THEN [s EXCEPT !.table[k] = @ \cup {c}] ELSE s

Covered(c, k) == IF cl[c].mode = "bcast" THEN \E p \in cl[c].prefixes : k \in Matches[p] ELSE Remembers(c)

ReadKey(s, c, k) ==
    LET t == IF cl[c].on /\ cl[c].mode # "bcast" THEN trackingRememberKeys(s, c, k) ELSE s
    IN  IF cl[c].on /\ Covered(c, k)
        THEN [t EXCEPT !.copy[c] = @ \cup {k}, !.stale = @ \ {<<c, k>>}, !.missed = @ \ {<<c, k>>}] ELSE t

\* The client first noted for a key in this cycle stays noted (raxTryInsert).
trackingRememberKeyToBroadcast(b, m, k) ==
    [p \in PrefixSet |->
        IF b[p].clients # {} /\ k \in Matches[p] /\ ~\E x \in b[p].keys : x[1] = k
        THEN [b[p] EXCEPT !.keys = @ \cup {<<k, m>>}] ELSE b[p]]


trackingInvalidateKeyRaw(s, m, k, bcast) ==
    LET told == {c \in s.table[k] : /\ Alive(c) /\ cl[c].on /\ cl[c].mode # "bcast"
                                    /\ ~(cl[c].noloop /\ c = m)}
        t == IF bcast THEN [s EXCEPT !.bs = trackingRememberKeyToBroadcast(@, m, k)] ELSE s
    IN  Invalidate([t EXCEPT !.table[k] = {}], told, k)

\* A key changes by a command of m, or by expiry (m is None).  Its copies are
\* stale; m knows of its own change if it asked not to be told.  A NOLOOP
\* broadcast client that is noted for the key in this cycle is not told of
\* the changes of others either.
WriteKey(s, m, k) ==
    LET own == IF m # None /\ cl[m].noloop THEN {m} ELSE {}
        masked == {c \in Clients \ {m} : /\ cl[c].noloop /\ cl[c].mode = "bcast"
                                         /\ \E p \in cl[c].prefixes : <<k, c>> \in s.bs[p].keys}
        t == [s EXCEPT !.copy = [c \in Clients |-> IF c \in own THEN @[c] \ {k} ELSE @[c]],
                       !.stale = (@ \ {<<c, k>> : c \in own})
                                 \cup {<<c, k>> : c \in {x \in Clients \ own : k \in s.copy[x]}},
                       !.missed = (@ \ {<<c, k>> : c \in own})
                                  \cup {<<c, k>> : c \in {x \in masked : k \in s.copy[x]}}]
    IN  trackingInvalidateKeyRaw(t, m, k, TRUE)

\* FLUSHDB and FLUSHALL tell every tracking client to drop everything; the
\* table is emptied by FLUSHALL only.
trackingInvalidateKeysOnFlush(s, all) ==
    LET cs == {c \in Clients : Alive(c) /\ cl[c].on}
        changed == [s EXCEPT !.stale = @ \cup {<<c, k>> \in cs \X Keys : k \in s.copy[c]}]
        t == FoldSet(LAMBDA k, x : Invalidate(x, cs, k), changed, Keys)
    IN  IF all THEN [t EXCEPT !.table = [k \in Keys |-> {}]] ELSE t

-----------------------------------------------------------------------------
(* Commands *)

Set(s) == table' = s.table /\ bs' = s.bs /\ copy' = s.copy /\ stale' = s.stale /\ missed' = s.missed
NoPubsub == UNCHANGED <<chans, pats>>

\* Before a command the table is cut to its limit, keys taken at random.
Excess == Cardinality({k \in Keys : table[k] # {}}) - MaxKeys
Limited(gone) ==
    IF Excess <= 0 \/ \A c \in Clients : ~cl[c].on THEN gone = {}
    ELSE Cardinality(gone) = Excess /\ \A k \in gone : table[k] # {}
trackingLimitUsedSlots(gone) ==
    FoldSet(LAMBDA k, s : trackingInvalidateKeyRaw(s, None, k, FALSE), State, gone)

Before == {trackingLimitUsedSlots(gone) : gone \in {g \in SUBSET Keys : Limited(g)}}

\* The flag of CLIENT CACHING is gone after the next command, other than CLIENT.
resetClient(c) == [cl EXCEPT ![c].caching = FALSE]

Read(c, ks) ==
    /\ Alive(c) /\ NoPubsub /\ cl' = resetClient(c)
    /\ \E s \in Before : Set(FoldSet(LAMBDA k, t : ReadKey(t, c, k), s, ks))
Write(c, k) == Alive(c) /\ NoPubsub /\ cl' = resetClient(c) /\ \E s \in Before : Set(WriteKey(s, c, k))
Flush(c, all) ==
    Alive(c) /\ NoPubsub /\ cl' = resetClient(c) /\ \E s \in Before : Set(trackingInvalidateKeysOnFlush(s, all))
Expire(k) == NoPubsub /\ Set(WriteKey(State, None, k)) /\ UNCHANGED cl
Tracking(c, mode, noloop, redir, ps) ==
    /\ Alive(c) /\ redir # c /\ TrackingAllowed(c, mode, redir, ps) /\ NoPubsub
    /\ \E s \in Before : Set(enableTracking(s, c, noloop, ps))
    /\ cl' = [cl EXCEPT ![c].on = TRUE, ![c].mode = mode, ![c].noloop = noloop, ![c].redir = redir,
                        ![c].prefixes = @ \cup ps]
TrackingOff(c) ==
    /\ Alive(c) /\ cl[c].on /\ NoPubsub
    /\ \E s \in Before : Set(disableTracking(s, c))
    /\ cl' = [cl EXCEPT ![c] = Untracked(@)]
Caching(c) == Alive(c) /\ clientCaching(c) /\ NoPubsub /\ \E s \in Before : Set(s)

\* The broadcast of a cycle: NOLOOP clients are not told of the keys they are
\* noted for.
trackingBroadcastInvalidationMessages(s) ==
    LET One(t, x) == Invalidate(t, {c \in s.bs[x[1]].clients : ~(cl[c].noloop /\ x[3] = c)}, x[2])
        all == {<<p, x[1], x[2]>> : p \in PrefixSet, x \in UNION {s.bs[q].keys : q \in PrefixSet}}
        due == {y \in all : <<y[2], y[3]>> \in s.bs[y[1]].keys}
        t == FoldLeft(One, s, SetToSeq(due))
    IN  [t EXCEPT !.bs = [p \in PrefixSet |-> [s.bs[p] EXCEPT !.keys = {}]]]
beforeSleep ==
    /\ \E p \in PrefixSet : bs[p].keys # {}
    /\ Set(trackingBroadcastInvalidationMessages(State)) /\ UNCHANGED <<cl, chans, pats>>

-----------------------------------------------------------------------------
(* Pub/Sub *)

Subscribed(c, h, pattern) == IF pattern THEN h \in cl[c].psubs ELSE h \in cl[c].subs

pubsubSubscribe(c, h, pattern) ==
    /\ Alive(c) /\ ~Subscribed(c, h, pattern) /\ \E s \in Before : Set(s)
    /\ IF pattern
       THEN /\ pats' = [pats EXCEPT ![h] = Append(@, c)] /\ UNCHANGED chans
            /\ cl' = [resetClient(c) EXCEPT ![c].psubs = @ \cup {h}]
       ELSE /\ chans' = [chans EXCEPT ![h] = Append(@, c)] /\ UNCHANGED pats
            /\ cl' = [resetClient(c) EXCEPT ![c].subs = @ \cup {h}]

pubsubUnsubscribe(c, h, pattern) ==
    /\ Alive(c) /\ Subscribed(c, h, pattern) /\ \E s \in Before : Set(s)
    /\ IF pattern
       THEN /\ pats' = [pats EXCEPT ![h] = Remove(@, c)] /\ UNCHANGED chans
            /\ cl' = [resetClient(c) EXCEPT ![c].psubs = @ \ {h}]
       ELSE /\ chans' = [chans EXCEPT ![h] = Remove(@, c)] /\ UNCHANGED pats
            /\ cl' = [resetClient(c) EXCEPT ![c].subs = @ \ {h}]

Leave(c) ==
    /\ Alive(c)
    /\ cl' = [cl EXCEPT ![c] = [Untracked(@) EXCEPT !.alive = FALSE, !.subs = {}, !.psubs = {}]]
    /\ chans' = [h \in Channels |-> Remove(chans[h], c)]
    /\ pats' = [h \in Channels |-> Remove(pats[h], c)]

\* freeClient: the subscriptions go, and the tracking state.
freeClient(c) == Leave(c) /\ Set(disableTracking(State, c))

Next ==
    \/ beforeSleep
    \/ \E k \in Keys : Expire(k)
    \/ \E c \in Clients :
        \/ freeClient(c) \/ TrackingOff(c) \/ Caching(c) \/ \E all \in BOOLEAN : Flush(c, all)
        \/ \E k \in Keys : Write(c, k)
        \/ \E ks \in SUBSET Keys : Cardinality(ks) \in 1 .. MaxRead /\ Read(c, ks)
        \/ \E mode \in Modes, noloop \in BOOLEAN, redir \in Clients \cup {None}, ps \in SUBSET PrefixSet :
              Tracking(c, mode, noloop, redir, ps)
        \/ \E h \in Channels, pattern \in BOOLEAN :
              pubsubSubscribe(c, h, pattern) \/ pubsubUnsubscribe(c, h, pattern)

Spec == Init /\ [][Next]_vars

-----------------------------------------------------------------------------
(* Properties *)

\* The message about a broadcast key that is still to be sent to c.
Pending(c, k) ==
    \E p \in cl[c].prefixes, x \in UNION {bs[q].keys : q \in PrefixSet} :
        x \in bs[p].keys /\ x[1] = k /\ ~(cl[c].noloop /\ x[2] = c)


\* No list of the server that is walked to push a message holds a client
\* that was freed, and each list holds a client once.
NoDanglingClient ==
    /\ \A h \in Channels : /\ \A c \in Clients : Cardinality({i \in DOMAIN chans[h] : chans[h][i] = c}) =
                                                  (IF Alive(c) /\ h \in cl[c].subs THEN 1 ELSE 0)
                           /\ \A c \in Clients : Cardinality({i \in DOMAIN pats[h] : pats[h][i] = c}) =
                                                  (IF Alive(c) /\ h \in cl[c].psubs THEN 1 ELSE 0)
    /\ \A p \in PrefixSet : bs[p].clients = {c \in Clients : Alive(c) /\ cl[c].on /\ p \in cl[c].prefixes}

\* The table stays within its limit and the keys one command may add.
TrackingTableBounded == Excess <= MaxRead
===============================================================================
