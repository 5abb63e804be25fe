---------------------------------- MODULE Rdb ----------------------------------
(***************************************************************************)
(* Snapshots (rdb.c): SAVE, BGSAVE, FLUSHALL, the save points of serverCron,*)
(* the child that writes the dump, shutdown, and loading.                  *)
(*   db       [d, k] -> [v, ex], or None: value and expire (None: none)    *)
(*   srv      server.dirty, dirty_before_bgsave, lastbgsave_status,        *)
(*            rdb_bgsave_scheduled, whether the last try is long enough ago *)
(*   dump     the file rdb_filename: its items, and the count of changes   *)
(*            at the moment of its snapshot (history)                      *)
(*   child    the process of rdb_child_pid: its snapshot and how far it is *)
(*   aof      is another child active (AOF rewrite, module)?               *)
(*   changes  how many changes the data set has had (history)              *)
(* The file is the sequence of opcodes that rdbSaveRio emits; how each is  *)
(* encoded is in Codecs.  Diskless children are in FullSync.               *)
(***************************************************************************)
EXTENDS Integers, Sequences, SequencesExt, FiniteSets, FiniteSetsExt, Functions

CONSTANTS Dbs, Keys, Values, None,
          SavePoint,           \* changes of the only "save" line, or None
          StopWrites,          \* stop-writes-on-bgsave-error
          Expires,             \* the expires a key can be given: a subset of Nat \cup {None}
          MaxNow, MaxChanges, MaxCrashes   \* bounds

VARIABLES db, srv, dump, child, aof, disk, now, changes, crashes
vars == <<db, srv, dump, child, aof, disk, now, changes, crashes>>

Names == Dbs \X Keys
Empty == [nm \in Names |-> None]
Sorted(S) == SetToSortSeq(S, <)

-----------------------------------------------------------------------------
(* The format *)

KeyItems(nm, o) ==
    (IF o.ex = None THEN <<>> ELSE <<[op |-> "expiretime", v |-> o.ex]>>) \o <<[op |-> "key", k |-> nm[2], v |-> o.v]>>

\* A database that is not empty: SELECTDB, RESIZEDB, its keys.
DbItems(s, d) ==
    LET ks == {k \in Keys : s[<<d, k>>] # None}
    IN  IF ks = {} THEN <<>>
        ELSE <<[op |-> "selectdb", d |-> d], [op |-> "resizedb", v |-> Cardinality(ks)]>>
             \o FlattenSeq([i \in 1 .. Cardinality(ks) |-> LET nm == <<d, Sorted(ks)[i]>> IN KeyItems(nm, s[nm])])

rdbSaveRio(s) ==
    <<[op |-> "magic"]>> \o FlattenSeq([i \in 1 .. Cardinality(Dbs) |-> DbItems(s, Sorted(Dbs)[i])]) \o <<[op |-> "eof"]>>

\* One opcode; an expire belongs to the next key.  The master leaves out keys
\* that have expired, unless a log follows.
LoadKey(l, i, master, preamble, t) ==
    IF master /\ ~preamble /\ l.ex # None /\ l.ex < t THEN l
    ELSE [l EXCEPT !.db[<<l.sel, i.k>>] = [v |-> i.v, ex |-> l.ex]]

LoadItem(l, i, master, preamble, t) ==
    CASE i.op = "expiretime" -> [l EXCEPT !.ex = i.v]
      [] i.op = "selectdb" -> [l EXCEPT !.sel = i.d]
      [] i.op = "key" -> [LoadKey(l, i, master, preamble, t) EXCEPT !.ex = None]
      [] OTHER -> l

rdbLoadRio(f, master, preamble, t) ==
    FoldLeft(LAMBDA l, i : LoadItem(l, i, master, preamble, t), [db |-> Empty, sel |-> Min(Dbs), ex |-> None], f).db

-----------------------------------------------------------------------------
(* Saving *)

Init ==
    /\ db = Empty /\ srv = [dirty |-> 0, before |-> 0, status |-> "ok", sched |-> FALSE, rested |-> TRUE]
    /\ dump = [items |-> rdbSaveRio(Empty), at |-> 0] /\ child = None /\ aof = FALSE /\ disk = "ok"
    /\ now = 0 /\ changes = 0 /\ crashes = 0

hasActiveChildProcess == child # None \/ aof
Running == srv.status # "down"

\* rdbSave in the main process: complete and renamed, or nothing.
Saved(s) == [srv |-> [s EXCEPT !.dirty = 0, !.status = "ok"], dump |-> [items |-> rdbSaveRio(db), at |-> changes]]
rdbSave(s) == {Saved(s)} \cup (IF disk = "full" THEN {[srv |-> s, dump |-> dump]} ELSE {})

saveCommand ==
    /\ Running /\ child = None
    /\ \E r \in rdbSave(srv) : srv' = r.srv /\ dump' = r.dump
    /\ UNCHANGED <<db, child, aof, disk, now, changes, crashes>>

\* The fork; a failing fork is an error of the save.
rdbSaveBackground(s) ==
    IF hasActiveChildProcess THEN {[srv |-> s, child |-> child, ok |-> FALSE]}
    ELSE LET t == [s EXCEPT !.before = s.dirty, !.rested = FALSE]
         IN  {[srv |-> t, child |-> [phase |-> "writing", items |-> rdbSaveRio(db), at |-> changes], ok |-> TRUE],
              [srv |-> [t EXCEPT !.status = "err"], child |-> None, ok |-> FALSE]}

bgsaveCommand ==
    /\ Running
    /\ \E schedule \in BOOLEAN :
        \/ child = None /\ aof /\ schedule /\ srv' = [srv EXCEPT !.sched = TRUE] /\ UNCHANGED child
        \/ ~hasActiveChildProcess /\ \E r \in rdbSaveBackground(srv) : srv' = r.srv /\ child' = r.child
    /\ UNCHANGED <<db, dump, aof, disk, now, changes, crashes>>

\* The child: the temp file written and synced, renamed, then the exit is for wait3.
ChildSaves ==
    /\ child # None
    /\ \/ child.phase = "writing" /\ child' = [child EXCEPT !.phase = "synced"] /\ UNCHANGED dump
       \/ child.phase = "synced" /\ child' = [child EXCEPT !.phase = "ok"] /\ dump' = [items |-> child.items, at |-> child.at]
       \/ child.phase \in {"writing", "synced"} /\ disk = "full" /\ child' = [child EXCEPT !.phase = "failed"] /\ UNCHANGED dump
    /\ UNCHANGED <<db, srv, aof, disk, now, changes, crashes>>

\* SIGUSR1 and the temp file unlinked: what has not been renamed will not be.
killRDBChild(c) == IF c # None /\ c.phase \in {"writing", "synced"} THEN [c EXCEPT !.phase = "killed"] ELSE c

\* What was changed after the fork is still dirty; a kill is no error.
backgroundSaveDoneHandler(s, how) ==
    CASE how = "ok" -> [s EXCEPT !.dirty = @ - s.before, !.status = "ok"]
      [] how = "failed" -> [s EXCEPT !.status = "err"]
      [] OTHER -> s

-----------------------------------------------------------------------------
(* serverCron: the children, the save point, the scheduled save *)

SavePointReached(s) == SavePoint # None /\ s.dirty >= SavePoint /\ (s.rested \/ s.status = "ok")

serverCron ==
    /\ Running
    /\ \/ /\ child # None /\ child.phase \in {"ok", "failed", "killed"}
          /\ srv' = backgroundSaveDoneHandler(srv, child.phase) /\ child' = None
       \/ /\ ~hasActiveChildProcess /\ SavePointReached(srv)
          /\ \E r \in rdbSaveBackground(srv) : srv' = r.srv /\ child' = r.child
       \/ /\ ~hasActiveChildProcess /\ srv.sched /\ (srv.rested \/ srv.status = "ok")
          /\ \E r \in rdbSaveBackground(srv) : srv' = [r.srv EXCEPT !.sched = ~r.ok] /\ child' = r.child
    /\ UNCHANGED <<db, dump, aof, disk, now, changes, crashes>>

-----------------------------------------------------------------------------
(* Commands *)

writeCommandsDeniedByDiskError == StopWrites /\ SavePoint # None /\ srv.status = "err"

\* A write of one key, or its deletion.
WriteKey ==
    /\ Running /\ ~writeCommandsDeniedByDiskError /\ changes < MaxChanges
    /\ \E nm \in Names : \E o \in [v : Values, ex : Expires] \cup {None} : db[nm] # o /\ db' = [db EXCEPT ![nm] = o]
    /\ changes' = changes + 1 /\ srv' = [srv EXCEPT !.dirty = @ + 1]
    /\ UNCHANGED <<dump, child, aof, disk, now, crashes>>

\* The save must come after the child that has the old data is gone, and must
\* not lose the count: FLUSHALL itself has to be propagated.
FlushedWith(c) ==
    /\ Running /\ ~writeCommandsDeniedByDiskError /\ changes < MaxChanges
    /\ db' = Empty /\ changes' = changes + 1 /\ child' = c
    /\ LET s == [srv EXCEPT !.dirty = @ + Cardinality({nm \in Names : db[nm] # None})]
           after == [s EXCEPT !.dirty = @ + 1]
           empty == [items |-> rdbSaveRio(Empty), at |-> changes + 1]
       IN  \/ SavePoint # None /\ dump' = empty /\ srv' = [after EXCEPT !.status = "ok"]
           \/ (SavePoint = None \/ disk = "full") /\ dump' = dump /\ srv' = after
    /\ UNCHANGED <<aof, disk, now, crashes>>
flushAllDataAndResetRDB == FlushedWith(killRDBChild(child))

\* SHUTDOWN: the child is killed first; a save that fails is a reason to stay.
prepareForShutdown ==
    /\ Running /\ child' = killRDBChild(child)
    /\ \E flag \in {"save", "nosave", "none"} :
          IF flag = "save" \/ (SavePoint # None /\ flag # "nosave")
          THEN \E r \in rdbSave(srv) :
                  /\ dump' = r.dump
                  /\ srv' = IF r = Saved(srv) THEN [r.srv EXCEPT !.status = "down"] ELSE r.srv
          ELSE dump' = dump /\ srv' = [srv EXCEPT !.status = "down"]
    /\ UNCHANGED <<db, aof, disk, now, changes, crashes>>

\* The process starts again, after a shutdown or a crash.  A child that
\* outlived the crash is gone before: bound.
loadDataFromDisk ==
    /\ crashes < MaxCrashes /\ crashes' = crashes + 1 /\ child' = None /\ aof' = FALSE
    /\ db' = rdbLoadRio(dump.items, TRUE, FALSE, now) /\ changes' = dump.at
    /\ srv' = [dirty |-> 0, before |-> 0, status |-> "ok", sched |-> FALSE, rested |-> TRUE]
    /\ UNCHANGED <<dump, disk, now>>

Environment ==
    /\ UNCHANGED <<db, dump, child, changes, crashes>>
    /\ \/ now < MaxNow /\ now' = now + 1 /\ srv' = [srv EXCEPT !.rested = TRUE] /\ UNCHANGED <<aof, disk>>
       \/ child = None /\ aof' = ~aof /\ UNCHANGED <<now, srv, disk>>
       \/ disk' = (IF disk = "ok" THEN "full" ELSE "ok") /\ UNCHANGED <<now, srv, aof>>

Next ==
    \/ saveCommand \/ bgsaveCommand \/ ChildSaves \/ serverCron \/ WriteKey \/ flushAllDataAndResetRDB
    \/ prepareForShutdown \/ loadDataFromDisk \/ Environment

Spec == Init /\ [][Next]_vars

-----------------------------------------------------------------------------
(* Properties *)

TypeOK ==
    /\ srv.dirty \in Nat /\ srv.before \in Nat /\ srv.status \in {"ok", "err", "down"}
    /\ child # None => child.phase \in {"writing", "synced", "ok", "failed", "killed"}

\* server.dirty never counts fewer changes than the dump lacks: 0 means that
\* the dump is the data set.  BGSAVE, SAVE and FLUSHALL overlap in the count.
DirtyCountsChanges == Running => srv.dirty >= changes - dump.at

\* The dump is never replaced by an older snapshot, such as that of a child
\* that was writing when FLUSHALL or SHUTDOWN saved.
DumpNeverOlderStep == dump'.at >= dump.at
DumpNeverOlder == [][DumpNeverOlderStep]_vars

\* Loading a dump gives back the data set it was made from; a master leaves out
\* exactly the keys that have expired since, a replica and an AOF preamble none.
LoadRestores ==
    \A master, preamble \in BOOLEAN :
        rdbLoadRio(rdbSaveRio(db), master, preamble, now) =
            [nm \in Names |-> IF db[nm] # None /\ master /\ ~preamble /\ db[nm].ex # None /\ db[nm].ex < now THEN None ELSE db[nm]]
=============================================================================
