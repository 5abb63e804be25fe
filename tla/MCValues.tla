---- MODULE MCValues ----
(****************************************************************************
 * Sets, strings, bitmaps and hashes with their encodings for TLC. Each
 * behaviour is about one of them, chosen by part; the components share
 * nothing.
 ****************************************************************************)
EXTENDS Integers, Sequences, FiniteSets, TLC

CONSTANTS None, NaN, keyA, keyB, keyD, NoVar   \* NoVar: the value of the variables a part does not have

VARIABLES part,   \* the component this behaviour is about
          db, rep, weight, abs
vars == <<part,
          db, rep, weight, abs>>

\* An intset that is upgraded twice and becomes a hash table.
SetIntset == INSTANCE Sets WITH
    MoveMul <- 1, SmallSort <- 2, Int16 <- 2, Int32 <- 5,
    Elements <- {-9, -4, 0, 1, 4, 9}, Text <- {}, MaxIntset <- 4, Keys <- {keyA},
    Lists <- {}, Weights <- {}, Uses <- {"sadd", "srem", "spop", "restart"}

\* The set operations with STORE, and SMOVE.
SetStore == INSTANCE Sets WITH
    MoveMul <- 1, SmallSort <- 2, Int16 <- 2, Int32 <- 5, Elements <- {-1, 1, 2, 3},
    Text <- {3}, MaxIntset <- 2, Keys <- {keyA, keyB}, Lists <- {}, Weights <- {},
    Uses <- {"sadd", "smove", "store", "srem"}

\* SORT of a set, BY weights, with LIMIT and STORE.
SetSort == INSTANCE Sets WITH
    MoveMul <- 1, SmallSort <- 2, Int16 <- 2, Int32 <- 5, Elements <- {1, 2, 3},
    Text <- {3}, MaxIntset <- 2, Keys <- {keyA}, Lists <- {keyD}, Weights <- {1, 2},
    Uses <- {"sadd", "srem", "sort"}

\* Strings that are numbers and numbers that are strings.
StrNumbers == INSTANCE Strings WITH
    W <- 4, SharedInts <- 2, EmbLimit <- 2, RdbInt <- 3, RdbChars <- 3, HashValue <- 2,
    AofItems <- 1, FloatMax <- 2, StrLimit <- 2, FastBytes <- 2, HashEntries <- 2,
    Keys <- {keyA, keyB}, HashKeys <- {}, Args <- {<<2>>, <<3, 0>>}, Fields <- {},
    Incrs <- {-1, 3}, BitTypes <- {}, Offsets <- {},
    Uses <- {"set", "append", "incrby", "incrbyfloat"}

\* Strings as bitmaps and as arrays of integers.
StrBits == INSTANCE Strings WITH
    W <- 4, SharedInts <- 2, EmbLimit <- 2, RdbInt <- 3, RdbChars <- 3, HashValue <- 2,
    AofItems <- 1, FloatMax <- 2, StrLimit <- 3, FastBytes <- 2, HashEntries <- 2,
    Keys <- {keyA}, HashKeys <- {}, Args <- {<<2>>, <<3, 0>>}, Fields <- {},
    Incrs <- {-1, 3}, BitTypes <- {<<TRUE, 2>>, <<FALSE, 3>>}, Offsets <- {0, 3},
    Uses <- {"append", "incrby", "setrange", "setbit", "bitfield", "restart"}

\* BITFIELD with two operations that may overlap.
StrFields == INSTANCE Strings WITH
    W <- 4, SharedInts <- 2, EmbLimit <- 2, RdbInt <- 3, RdbChars <- 3, HashValue <- 2,
    AofItems <- 1, FloatMax <- 2, StrLimit <- 2, FastBytes <- 2, HashEntries <- 2,
    Keys <- {keyA}, HashKeys <- {}, Args <- {<<2>>}, Fields <- {}, Incrs <- {3},
    BitTypes <- {<<TRUE, 2>>}, Offsets <- {0, 1}, Uses <- {"append", "bitfields"}

\* BITOP of strings of different lengths.
StrBitop == INSTANCE Strings WITH
    W <- 4, SharedInts <- 2, EmbLimit <- 2, RdbInt <- 3, RdbChars <- 3, HashValue <- 2,
    AofItems <- 1, FloatMax <- 2, StrLimit <- 2, FastBytes <- 1, HashEntries <- 2,
    Keys <- {keyA, keyB}, HashKeys <- {}, Args <- {<<2>>, <<3>>}, Fields <- {},
    Incrs <- {-1, 3}, BitTypes <- {}, Offsets <- {}, Uses <- {"append", "bitop"}

\* STRALGO LCS of two strings.
StrLcs == INSTANCE Strings WITH
    W <- 4, SharedInts <- 2, EmbLimit <- 2, RdbInt <- 3, RdbChars <- 3, HashValue <- 2,
    AofItems <- 1, FloatMax <- 2, StrLimit <- 3, FastBytes <- 2, HashEntries <- 2,
    Keys <- {keyA, keyB}, HashKeys <- {}, Args <- {<<2>>, <<3>>}, Fields <- {},
    Incrs <- {-1, 3}, BitTypes <- {}, Offsets <- {}, Uses <- {"append"}

\* A hash that becomes a hash table.
Hashes == INSTANCE Strings WITH
    W <- 4, SharedInts <- 2, EmbLimit <- 2, RdbInt <- 3, RdbChars <- 3, HashValue <- 2,
    AofItems <- 1, FloatMax <- 2, StrLimit <- 3, FastBytes <- 2, HashEntries <- 1,
    Keys <- {}, HashKeys <- {keyD}, Args <- {<<3>>, <<3, 0, 2>>},
    Fields <- {<<3>>, <<2>>}, Incrs <- {-1, 3}, BitTypes <- {}, Offsets <- {},
    Uses <- {"hset", "hsetnx", "hincrby", "hincrbyfloat", "infinity", "hdel", "restart"}

\* The variables that are idle while a component runs.
NoSets ==
    TRUE
KeepSets == UNCHANGED <<part>>
NoStrings ==
    weight = NoVar
KeepStrings == UNCHANGED <<part,
    weight>>

Init ==
    \/ part = "SetIntset" /\ SetIntset!Init /\ NoSets
    \/ part = "SetStore" /\ SetStore!Init /\ NoSets
    \/ part = "SetSort" /\ SetSort!Init /\ NoSets
    \/ part = "StrNumbers" /\ StrNumbers!Init /\ NoStrings
    \/ part = "StrBits" /\ StrBits!Init /\ NoStrings
    \/ part = "StrFields" /\ StrFields!Init /\ NoStrings
    \/ part = "StrBitop" /\ StrBitop!Init /\ NoStrings
    \/ part = "StrLcs" /\ StrLcs!Init /\ NoStrings
    \/ part = "Hashes" /\ Hashes!Init /\ NoStrings

Next ==
    \/ part = "SetIntset" /\ SetIntset!Next /\ KeepSets
    \/ part = "SetStore" /\ SetStore!Next /\ KeepSets
    \/ part = "SetSort" /\ SetSort!Next /\ KeepSets
    \/ part = "StrNumbers" /\ StrNumbers!Next /\ KeepStrings
    \/ part = "StrBits" /\ StrBits!Next /\ KeepStrings
    \/ part = "StrFields" /\ StrFields!Next /\ KeepStrings
    \/ part = "StrBitop" /\ StrBitop!Next /\ KeepStrings
    \/ part = "StrLcs" /\ StrLcs!Next /\ KeepStrings
    \/ part = "Hashes" /\ Hashes!Next /\ KeepStrings

Spec == Init /\ [][Next]_vars

\* Whatever the encoding and however it was converted, resized or reloaded, the
\* set, string or hash in memory stands for the value that the commands
\* executed so far define, and a replica that applies what is propagated for
\* them (rewritten where they are random or rounded) has the same value. Two
\* exceptions, each named in its module: the empty hash that an infinite
\* HINCRBYFLOAT of a missing key leaves at the master only, and the order of
\* members with equal BY values in what SORT BY ... ALPHA stores.
HoldsTheValues ==
    /\ part = "SetIntset" => SetIntset!HoldsTheMembers /\ SetIntset!ReplicaAgrees
    /\ part = "SetStore" => SetStore!HoldsTheMembers /\ SetStore!ReplicaAgrees
    /\ part = "SetSort" => SetSort!HoldsTheMembers /\ SetSort!ReplicaAgrees
    /\ part = "StrNumbers" => StrNumbers!HoldsTheValues /\ StrNumbers!ReplicaHoldsTheSame
    /\ part = "StrBits" => StrBits!HoldsTheValues /\ StrBits!ReplicaHoldsTheSame
    /\ part = "StrFields" => StrFields!HoldsTheValues /\ StrFields!ReplicaHoldsTheSame
    /\ part = "StrBitop" => StrBitop!HoldsTheValues /\ StrBitop!ReplicaHoldsTheSame
    /\ part = "Hashes" => Hashes!HoldsTheValues /\ Hashes!ReplicaHoldsTheSame

\* Set algebra by either algorithm, the partial sort of SORT, the LCS table,
\* ranges and bit positions answer what the values they read define.
AnswersAreRight ==
    /\ part = "SetStore" => SetStore!AlgebraAgrees
    /\ part = "SetSort" => SetSort!LimitIsASlice
    /\ part = "StrBits" => StrBits!ReadsAgree
    /\ part = "StrLcs" => StrLcs!LcsIsLongest
====
