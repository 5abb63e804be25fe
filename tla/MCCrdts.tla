---- MODULE MCCrdts ----
(****************************************************************************
 * The Remove-Win queue, with four commands on one element at three
 * replicas, and the Add-Win queue and the two lists for TLC. Each behaviour
 * is about one of them, chosen by part; the components share nothing. The
 * properties of RwRpq are checked as that module states them.
 ****************************************************************************)
EXTENDS RwRpq, TLC

CONSTANTS Uninit, NoVar   \* NoVar: the value of the variables a part does not have

VARIABLES part,   \* the component this behaviour is about
          oze, zset2, net2, seen, rwfle, list, len, cur, rle, ops, done2
others == <<oze, zset2, net2, seen, rwfle, list, len, cur, rle, ops, done2>>
MCvars == <<part, vars, others>>

\* The Add-Win queue at three replicas; increments that cancel out give equal
\* counts with different sums.
AddWin3 == INSTANCE AddWinRpq WITH
    N <- 3, Elements <- {1}, AddValues <- {1}, IncValues <- {10, -10},
    Garbage <- {0, 5}, MaxOps <- 4, zset <- zset2, net <- net2

\* The Add-Win queue at two replicas, where the streams deliver in causal
\* order; the third is out of reach.
AddWin2 == INSTANCE AddWinRpq WITH
    N <- 3, Elements <- {1}, AddValues <- {1, 2}, IncValues <- {10},
    Garbage <- {0, 5}, MaxOps <- 5, zset <- zset2, net <- net2

\* The RWF list: three elements inserted next to each other, no properties.
RwfOrder == INSTANCE RwfList WITH
    N <- 3, Elements <- {1, 2, 3}, NormalTypes <- {}, BitmapTypes <- {}, Values <- {0},
    Rands <- {0}, MaxOps <- 3, BASE <- 4, RDM_STEP <- 2, net <- net2

\* The RWF list: two properties of one element.
RwfProps == INSTANCE RwfList WITH
    N <- 3, Elements <- {1}, NormalTypes <- {"font", "size"}, BitmapTypes <- {},
    Values <- {1}, Rands <- {0}, MaxOps <- 4, BASE <- 4, RDM_STEP <- 2, net <- net2

\* The RWF list at two replicas; the third is out of reach.
RwfTwo == INSTANCE RwfList WITH
    N <- 3, Elements <- {1, 2}, NormalTypes <- {"font"}, BitmapTypes <- {},
    Values <- {0}, Rands <- {0}, MaxOps <- 5, BASE <- 4, RDM_STEP <- 2, net <- net2

\* The Remove-Win list: one element with a property.
RwListOne == INSTANCE RwList WITH
    N <- 3, Elements <- {1}, Types <- {"font"}, Values <- {0}, Rands <- {0},
    MaxOps <- 4, BASE <- 4, RDM_STEP <- 2, net <- net2, done <- done2

\* The Remove-Win list: three elements inserted next to each other.
RwListOrder == INSTANCE RwList WITH
    N <- 3, Elements <- {1, 2, 3}, Types <- {}, Values <- {0}, Rands <- {0},
    MaxOps <- 3, BASE <- 4, RDM_STEP <- 2, net <- net2, done <- done2

\* The variables that are idle while a component runs.
NoAddWinRpq ==
    Init /\ rwfle = NoVar /\ list = NoVar /\ len = NoVar /\ cur = NoVar /\ rle = NoVar /\
    ops = NoVar /\ done2 = NoVar
KeepAddWinRpq == UNCHANGED <<part, vars,
    rwfle, list, len, cur, rle, ops, done2>>
NoRwfList ==
    Init /\ oze = NoVar /\ zset2 = NoVar /\ rle = NoVar /\ ops = NoVar /\ done2 = NoVar
KeepRwfList == UNCHANGED <<part, vars,
    oze, zset2, rle, ops, done2>>
NoRwList ==
    Init /\ oze = NoVar /\ zset2 = NoVar /\ seen = NoVar /\ rwfle = NoVar
KeepRwList == UNCHANGED <<part, vars,
    oze, zset2, seen, rwfle>>
NoOthers ==
    oze = NoVar /\ zset2 = NoVar /\ net2 = NoVar /\ seen = NoVar /\ rwfle = NoVar /\
    list = NoVar /\ len = NoVar /\ cur = NoVar /\ rle = NoVar /\ ops = NoVar /\
    done2 = NoVar

MCInit ==
    \/ part = "RwRpq" /\ Init /\ NoOthers
    \/ part = "AddWin3" /\ AddWin3!Init /\ NoAddWinRpq
    \/ part = "AddWin2" /\ AddWin2!Init /\ NoAddWinRpq
    \/ part = "RwfOrder" /\ RwfOrder!Init /\ NoRwfList
    \/ part = "RwfProps" /\ RwfProps!Init /\ NoRwfList
    \/ part = "RwfTwo" /\ RwfTwo!Init /\ NoRwfList
    \/ part = "RwListOne" /\ RwListOne!Init /\ NoRwList
    \/ part = "RwListOrder" /\ RwListOrder!Init /\ NoRwList

MCNext ==
    \/ part = "RwRpq" /\ Next /\ UNCHANGED <<part, others>>
    \/ part = "AddWin3" /\ AddWin3!Next /\ KeepAddWinRpq
    \/ part = "AddWin2" /\ AddWin2!Next /\ seen'[2] = {} /\ KeepAddWinRpq
    \/ part = "RwfOrder" /\ RwfOrder!Next /\ KeepRwfList
    \/ part = "RwfProps" /\ RwfProps!Next /\ KeepRwfList
    \/ part = "RwfTwo" /\ RwfTwo!Next /\ seen'[2] = {} /\ KeepRwfList
    \/ part = "RwListOne" /\ RwListOne!Next /\ KeepRwList
    \/ part = "RwListOrder" /\ RwListOrder!Next /\ KeepRwList

MCSpec == MCInit /\ [][MCNext]_MCvars

\* What a replica shows is a function of the set of operations it executed: in
\* the Remove-Win list, which applies an operation only after everything its
\* issuer had applied and leaves nothing waiting, a remove beats every add it
\* does not know of, in the Add-Win queue the entries are those of the commands
\* executed, in whatever order, innate and acquired never point to an entry
\* that remove_tag has freed, the metadata is the same everywhere at rest, and
\* (two replicas) an add beats the removes that do not know of it, and in the
\* RWF list replicas with the same commands agree on the header and, once the
\* element is inserted, on its properties, none of which is uninitialised at
\* rest.
ShowsTheHistory ==
    /\ part = "RwListOne" => RwListOne!TypeOK /\ RwListOne!CausalDelivery /\ RwListOne!NothingLeftWaiting /\ RwListOne!RemoveWinMembership
    /\ part = "AddWin3" => AddWin3!TypeOK /\ AddWin3!NoDanglingPointer /\ AddWin3!EntriesFollowHistory /\ AddWin3!MetadataAgreesAtRest
    /\ part = "AddWin2" => AddWin2!NoDanglingPointer /\ AddWin2!EntriesFollowHistory /\ AddWin2!MetadataAgreesAtRest /\ AddWin2!AddWinSemantics
    /\ part = "RwfProps" => RwfProps!ElementConvergence /\ RwfProps!NothingUninitialisedAtRest

\* An element of a list has the same identifier wherever it is known and shares
\* it with no other, the linked list is in the order of the identifiers, so
\* that all replicas show one order, and the length RLLEN answers is the number
\* of elements shown; so is that of RWFLLEN with two replicas, while with three it
\* need not be (the finding of the run rwf_list_three_replicas).
OneTotalOrder ==
    /\ part = "RwfOrder" => RwfOrder!TypeOK /\ RwfOrder!ListSorted /\ RwfOrder!OneTotalOrder
    /\ part = "RwListOrder" => RwListOrder!OneTotalOrder /\ RwListOrder!LengthIsShown
    /\ part = "RwfTwo" => RwfTwo!LengthIsShown

\* A new element of the RWF list ends up right behind the one it was inserted
\* after.
InsertedWhereAsked == [][part = "RwfOrder" => RwfOrder!InsertedWhereAskedStep]_MCvars
====
