---- MODULE MCStructures ----
(****************************************************************************
 * Streams, sorted sets and lists with their encodings for TLC. Each
 * behaviour is about one of them, chosen by part; the components share
 * nothing.
 ****************************************************************************)
EXTENDS Integers, Sequences, FiniteSets, TLC

CONSTANTS None, NaN, grpA, conA, conB, rdA, rdB, keyA, keyB, keyC, NoVar   \* NoVar: the value of the variables a part does not have

VARIABLES part,   \* the component this behaviour is about
          stream, replica, blocked, fresh, settled, adds, db, abs
vars == <<part,
          stream, replica, blocked, fresh, settled, adds, db, abs>>

\* Entries added to, trimmed and deleted from the nodes of a stream.
StreamNodes == INSTANCE Streams WITH
    Groups <- {}, Consumers <- {}, Readers <- {}, MaxId <- 5, NodeEntries <- 2,
    NodeBytes <- 3, Maxlens <- {0, 1, 3}, Counts <- {0}, SetIds <- {3},
    Uses <- {"xadd", "xtrim", "xdel", "xsetid", "restart"}, MaxAdds <- 5

\* A consumer group: deliveries, acknowledgements and claims.
StreamGroups == INSTANCE Streams WITH
    MaxId <- 3, NodeBytes <- 3, Groups <- {grpA}, Consumers <- {conA, conB},
    Readers <- {}, NodeEntries <- 1, Maxlens <- {1}, Counts <- {0, 1}, SetIds <- {1},
    Uses <- {"xadd", "xdel", "create", "delconsumer", "xack", "xclaim", "xreadgroup", "setid"},
    MaxAdds <- 2

\* Clients blocked on a stream and on a group.
StreamReaders == INSTANCE Streams WITH
    MaxId <- 3, NodeBytes <- 3, Groups <- {grpA}, Consumers <- {conA},
    Readers <- {rdA, rdB}, NodeEntries <- 2, Maxlens <- {0}, Counts <- {1},
    SetIds <- {1}, Uses <- {"xadd", "create", "setid", "destroy", "xread", "xreadgroup", "del"},
    MaxAdds <- 2

\* A sorted set that becomes a skip list.
ZsetSkiplist == INSTANCE Zsets WITH
    Members <- {1, 2, 3}, Long <- {3}, Scores <- {-9, 1, 9}, Inf <- 9, MaxLevel <- 2,
    MaxZiplist <- 2, Keys <- {keyA}, SetKeys <- {}, Weights <- {1},
    Uses <- {"zadd", "zrem", "zremrange", "zpop"}

\* ZUNIONSTORE and ZINTERSTORE of sorted sets and a set.
ZsetStore == INSTANCE Zsets WITH
    Members <- {1, 2}, Long <- {}, Scores <- {-1, 1, 2}, Inf <- 9, MaxLevel <- 1,
    MaxZiplist <- 1, Keys <- {keyA, keyB, keyC}, SetKeys <- {keyC}, Weights <- {-1, 2},
    Uses <- {"zadd", "zstore"}

\* A quicklist whose nodes split and merge.
ListNodes == INSTANCE Lists WITH
    Keys <- {keyA}, Values <- {1, 2}, Large <- {2}, LargeBytes <- 2, ByCount <- TRUE,
    Fill <- 3, Safety <- 5, Depth <- 0, MinCompress <- 2,
    Uses <- {"push", "pop", "rpoplpush", "linsert", "lset", "ltrim", "lrem", "reload"},
    Indexes <- -6 .. 5, MaxLen <- 5

\* A quicklist whose inner nodes are compressed.
ListCompressed == INSTANCE Lists WITH
    Keys <- {keyA}, Values <- {1, 2}, Large <- {2}, LargeBytes <- 2, ByCount <- TRUE,
    Fill <- 2, Safety <- 9, Depth <- 1, MinCompress <- 1,
    Uses <- {"push", "pop", "rpoplpush", "linsert", "lset", "ltrim", "lrem", "read", "reload"},
    Indexes <- {-1, 0, 1, 2}, MaxLen <- 4

\* The variables that are idle while a component runs.
NoStreams ==
    db = NoVar /\ abs = NoVar
KeepStreams == UNCHANGED <<part,
    db, abs>>
NoZsets ==
    stream = NoVar /\ replica = NoVar /\ blocked = NoVar /\ fresh = NoVar /\ settled = NoVar
    /\ adds = NoVar
KeepZsets == UNCHANGED <<part,
    stream, replica, blocked, fresh, settled, adds>>
NoLists ==
    stream = NoVar /\ replica = NoVar /\ blocked = NoVar /\ fresh = NoVar /\ settled = NoVar
    /\ adds = NoVar
KeepLists == UNCHANGED <<part,
    stream, replica, blocked, fresh, settled, adds>>

Init ==
    \/ part = "StreamNodes" /\ StreamNodes!Init /\ NoStreams
    \/ part = "StreamGroups" /\ StreamGroups!Init /\ NoStreams
    \/ part = "StreamReaders" /\ StreamReaders!Init /\ NoStreams
    \/ part = "ZsetSkiplist" /\ ZsetSkiplist!Init /\ NoZsets
    \/ part = "ZsetStore" /\ ZsetStore!Init /\ NoZsets
    \/ part = "ListNodes" /\ ListNodes!Init /\ NoLists
    \/ part = "ListCompressed" /\ ListCompressed!Init /\ NoLists

Next ==
    \/ part = "StreamNodes" /\ StreamNodes!Next /\ KeepStreams
    \/ part = "StreamGroups" /\ StreamGroups!Next /\ KeepStreams
    \/ part = "StreamReaders" /\ StreamReaders!Next /\ KeepStreams
    \/ part = "ZsetSkiplist" /\ ZsetSkiplist!Next /\ KeepZsets
    \/ part = "ZsetStore" /\ ZsetStore!Next /\ KeepZsets
    \/ part = "ListNodes" /\ ListNodes!Next /\ KeepLists
    \/ part = "ListCompressed" /\ ListCompressed!Next /\ KeepLists

Spec == Init /\ [][Next]_vars

\* Whatever the encoding and however it was converted, resized, split,
\* compressed or reloaded, the structure in memory stands for the value that
\* the commands executed so far define. The one exception is a list whose end
\* node was compressed by a recompress mark that an earlier read had left on it
\* (quicklistRecompressOnly tests the mark, not the place of the node): what is
\* done to that end afterwards takes compressed bytes for a ziplist.
HoldsTheData ==
    /\ part = "StreamNodes" => StreamNodes!RangesAreRight /\ StreamNodes!ImagesRestore
    /\ part = "StreamGroups" => StreamGroups!PendingHasOneOwner /\ StreamGroups!ImagesRestore
    /\ part = "ZsetSkiplist" => ZsetSkiplist!HoldsTheScores
    /\ part = "ZsetStore" => ZsetStore!HoldsTheScores
    /\ part = "ListNodes" => ListNodes!HoldsTheElements
    /\ part = "ListCompressed" => ListCompressed!HoldsTheElements /\ ListCompressed!UsesRawNodes

\* The commands that read through an index of their own (spans of a skip list,
\* nodes walked from either end, offsets from the end) answer what the value
\* they read defines.
ReadsAgree ==
    /\ part = "ZsetSkiplist" => ZsetSkiplist!QueriesAgree
    /\ part = "ListNodes" => ListNodes!ReadsAgree
    /\ part = "ListCompressed" => ListCompressed!ReadsAgree

\* An entry is delivered to a group once as new and then stays pending until it
\* is acknowledged; XGROUP SETID starts the count anew. No client waits on a
\* stream that holds what it waits for, unless XGROUP SETID, which signals nobody,
\* moved its group back while it waited. A replica that applies what is propagated
\* for deliveries, claims and approximate trims has the same stream.
OnceAndNotForgotten ==
    /\ part = "StreamNodes" => StreamNodes!ReplicaAgrees
    /\ part = "StreamGroups" => StreamGroups!OnceAndNotForgotten /\ StreamGroups!ReplicaAgrees
    /\ part = "StreamReaders" => StreamReaders!OnceAndNotForgotten /\ StreamReaders!NobodyWaitsInVain /\ StreamReaders!ReplicaAgrees
====
