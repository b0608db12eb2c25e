------------------------------- MODULE Backups -------------------------------
(***************************************************************************)
(* The backups of v2/pkg/backup.  A cycle copies each database into a file *)
(* named for the second the cycle began in, and then removes the sets of   *)
(* files that are too many or too old.  The scheduler runs a cycle at each *)
(* tick, and every POST to /api/backup/now another, in a goroutine of its  *)
(* own: nothing keeps two cycles apart.                                    *)
(*                                                                         *)
(* What a file holds is "empty", "partial" (in the middle of a write, or   *)
(* spoilt by another), or "whole".  How the databases change meanwhile is  *)
(* abstracted away: a plain copy of a database in use may be whole or not. *)
(* A cycle takes less time than backups are retained, so the age of a set  *)
(* is counted from its name.                                               *)
(***************************************************************************)
EXTENDS Naturals, FiniteSets

CONSTANTS
    Db,          \* Config.Databases, numbered in their order
    Cycle,       \* who runs cycles: the scheduler and the requests
    Scheduler,   \* the one of them that has a context that is cancelled
    MaxBackups,  \* Config.MaxBackups
    Retention,   \* Config.RetentionDays, in seconds of the model
    MaxClock,    \* bound: seconds
    MaxFaults,   \* bound: failed statements and file operations
    MaxCrashes   \* bound: signals and ends of the process

ASSUME BackupAssumption ==
    /\ Db \subseteq Nat /\ IsFiniteSet(Db) /\ Db # {} /\ Scheduler \in Cycle
    /\ MaxBackups \in Nat \ {0} /\ Retention \in Nat
    /\ MaxClock \in Nat \ {0} /\ MaxFaults \in Nat /\ MaxCrashes \in Nat

VARIABLES
    clock,
    files,    \* the backup directory
    cycles,   \* where each cycle is
    shared,   \* history: two cycles began in the same second
    restore,  \* where Restore is
    stopping, \* the context of main is cancelled
    faults, crashes  \* counters of the bounds

bounds == <<faults, crashes, stopping>>
vars   == <<clock, files, cycles, shared, restore, bounds>>

(* db: the database a cycle is at; todo: those it has yet to come to;      *)
(* remove: the files it has yet to remove.                                 *)
Idle == [at |-> "idle", stamp |-> 0, db |-> 0, todo |-> {}, remove |-> {}]

(* got: the copies in the target directory; whole (history): the set was   *)
(* complete when Restore listed it.                                        *)
NoRestore == [at |-> "idle", stamp |-> 0, todo |-> {}, got |-> {}, whole |-> FALSE]

Fault == faults < MaxFaults /\ faults' = faults + 1

Init ==
    /\ clock  = 1
    /\ files  = {}
    /\ cycles = [c \in Cycle |-> Idle]
    /\ shared = FALSE
    /\ restore = NoRestore
    /\ faults = 0 /\ crashes = 0 /\ stopping = FALSE

Stamps == {f.stamp : f \in files}

Of(c) == {f \in files : f.stamp = cycles[c].stamp /\ f.db = cycles[c].db}

\* what the file of database db in the set of cycle c holds from now on
Holds(c, db, what) ==
    files' = {f \in files : f.stamp # cycles[c].stamp \/ f.db # db}
                \cup {[stamp |-> cycles[c].stamp, db |-> db, holds |-> what]}

-----------------------------------------------------------------------------
Tick ==
    /\ clock < MaxClock /\ clock' = clock + 1
    /\ \A c \in Cycle : cycles[c] # Idle => clock - cycles[c].stamp < Retention
    /\ UNCHANGED <<files, cycles, shared, restore, bounds>>

Cancelled(c) == stopping /\ c = Scheduler

Begin(c) ==
    /\ cycles[c] = Idle /\ ~Cancelled(c)
    /\ cycles' = [cycles EXCEPT ![c] = [Idle EXCEPT !.at = "loop", !.stamp = clock,
                                                    !.todo = Db]]
    /\ shared' = (shared \/ clock \in Stamps \cup {cycles[d].stamp : d \in Cycle})
    /\ UNCHANGED <<clock, files, restore, bounds>>

GoTo(c, at)    == cycles' = [cycles EXCEPT ![c].at = at]
NextFile(c)    == cycles' = [cycles EXCEPT ![c].at = "loop", ![c].db = 0]

\* the databases are copied in their order
First(c) == {db \in cycles[c].todo : \A d \in cycles[c].todo : db <= d}

\* os.Create: the file is empty, also if there was one
CreateFile(c) ==
    /\ cycles[c].at = "loop" /\ ~Cancelled(c)
    /\ \E db \in First(c) :
        /\ Holds(c, db, "empty")
        /\ cycles' = [cycles EXCEPT ![c].at = "created", ![c].db = db,
                                    ![c].todo = @ \ {db}]
    /\ UNCHANGED <<clock, shared, restore, bounds>>

\* the directory is gone or the disk is full
FailCreate(c) ==
    /\ cycles[c].at = "loop" /\ ~Cancelled(c) /\ Fault
    /\ \E db \in First(c) : cycles' = [cycles EXCEPT ![c].todo = @ \ {db}]
    /\ UNCHANGED <<clock, files, shared, restore, crashes, stopping>>

\* the loop looks at the context before each database, not at the end
LeaveEarly(c) ==
    /\ Cancelled(c) /\ cycles[c].at = "loop" /\ cycles[c].todo # {}
    /\ cycles' = [cycles EXCEPT ![c] = Idle]
    /\ UNCHANGED <<clock, files, shared, restore, bounds>>

\* VACUUM INTO wants an empty file that nobody else is writing
Ready(c) ==
    /\ ~Cancelled(c)
    /\ \A f \in Of(c) : f.holds = "empty"
    /\ \A d \in Cycle : cycles[d].at = "vacuuming" =>
          cycles[d].stamp # cycles[c].stamp \/ cycles[d].db # cycles[c].db

\* without VACUUM INTO
CopyAlways(c) ==
    /\ cycles[c].at = "created"
    /\ GoTo(c, "copying")
    /\ UNCHANGED <<clock, files, shared, restore, bounds>>

Vacuum(c) ==
    /\ cycles[c].at = "created" /\ Ready(c)
    /\ Holds(c, cycles[c].db, "partial")
    /\ GoTo(c, "vacuuming")
    /\ UNCHANGED <<clock, shared, restore, bounds>>

\* another cycle may have truncated or removed the file
FinishVacuum(c) ==
    /\ cycles[c].at = "vacuuming"
    /\ IF Of(c) = {} THEN UNCHANGED files
       ELSE Holds(c, cycles[c].db,
                  IF \E f \in Of(c) : f.holds = "partial" THEN "whole" ELSE "partial")
    /\ NextFile(c)
    /\ UNCHANGED <<clock, shared, restore, bounds>>

FailVacuum(c) ==
    /\ \/ cycles[c].at = "created" /\ ~Ready(c) /\ UNCHANGED faults
       \/ cycles[c].at = "vacuuming" /\ Cancelled(c) /\ UNCHANGED faults
       \/ cycles[c].at \in {"created", "vacuuming"} /\ Fault
    /\ GoTo(c, "copying")
    /\ UNCHANGED <<clock, files, shared, restore, crashes, stopping>>

\* copyFile: the database as it is, without its write-ahead log
CopyFile(c) ==
    /\ cycles[c].at = "copying"
    /\ \E what \in {"partial", "whole"} : Holds(c, cycles[c].db, what)
    /\ NextFile(c)
    /\ UNCHANGED <<clock, shared, restore, bounds>>

\* what there is stays there
FailCopy(c) ==
    /\ cycles[c].at = "copying" /\ Fault
    /\ NextFile(c)
    /\ UNCHANGED <<clock, files, shared, restore, crashes, stopping>>

-----------------------------------------------------------------------------
(* cleanupOldBackups.                                                      *)

Expired(s) == clock - s > Retention
Newer(s)   == {t \in Stamps : t > s}

\* sorts the sets the other way round
ExcessOldestFirst ==
    {s \in Stamps : Cardinality(Stamps \ (Newer(s) \cup {s})) >= MaxBackups
                      \/ Expired(s)}

\* keeps one more
ExcessButOne ==
    {s \in Stamps : Cardinality(Newer(s)) > MaxBackups \/ Expired(s)}

Excess == {s \in Stamps : Cardinality(Newer(s)) >= MaxBackups \/ Expired(s)}

List(c) ==
    /\ cycles[c].at = "loop" /\ cycles[c].todo = {}
    /\ cycles' = [cycles EXCEPT ![c].at = "clean",
                      ![c].remove = {<<f.stamp, f.db>> : f \in {g \in files : g.stamp \in Excess}}]
    /\ UNCHANGED <<clock, files, shared, restore, bounds>>

\* by name, whatever the file holds by now
RemoveFile(c) ==
    /\ cycles[c].at = "clean"
    /\ \E p \in cycles[c].remove :
        /\ \/ files' = {f \in files : <<f.stamp, f.db>> # p} /\ UNCHANGED faults
           \/ Fault /\ UNCHANGED files
        /\ cycles' = [cycles EXCEPT ![c].remove = @ \ {p}]
    /\ UNCHANGED <<clock, shared, restore, crashes, stopping>>

End(c) ==
    /\ cycles[c].at = "clean" /\ cycles[c].remove = {}
    /\ cycles' = [cycles EXCEPT ![c] = Idle]
    /\ UNCHANGED <<clock, files, shared, restore, bounds>>

-----------------------------------------------------------------------------
(* Restore copies the files of a set, as listed, into an empty directory.  *)
(* A cleanup or a cycle may be at the same files.                          *)

Complete(s) == \A db \in Db : [stamp |-> s, db |-> db, holds |-> "whole"] \in files

\* bound: a restore begins before anything has failed
Calm == faults = 0 /\ crashes = 0

BeginRestore ==
    /\ restore.at = "idle" /\ Calm
    /\ \E s \in Stamps :
          restore' = [at |-> "copying", stamp |-> s,
                      todo |-> {f.db : f \in {g \in files : g.stamp = s}},
                      got |-> {}, whole |-> Complete(s)]
    /\ UNCHANGED <<clock, files, cycles, shared, bounds>>

\* the file that comes next, if it is still there
NextDb == {db \in restore.todo : \A d \in restore.todo : db <= d}
Source == {f \in files : f.stamp = restore.stamp /\ f.db \in NextDb}

\* goes on without a file that is gone
RestoreWhatIsThere ==
    /\ restore.todo # {}
    /\ restore' = [restore EXCEPT
                      !.todo = @ \ NextDb,
                      !.got = @ \cup {[db |-> f.db, holds |-> f.holds] : f \in Source}]
    /\ UNCHANGED <<clock, files, cycles, shared, bounds>>

RestoreFile ==
    /\ restore.todo # {} /\ Source # {}
    /\ restore' = [restore EXCEPT
                      !.todo = @ \ NextDb,
                      !.got = @ \cup {[db |-> f.db, holds |-> f.holds] : f \in Source}]
    /\ UNCHANGED <<clock, files, cycles, shared, bounds>>

\* the file is gone or cannot be copied
FailRestore ==
    /\ restore.todo # {}
    /\ \/ Source = {} /\ UNCHANGED faults
       \/ Fault
    /\ restore' = NoRestore
    /\ UNCHANGED <<clock, files, cycles, shared, crashes, stopping>>

EndRestore ==
    /\ restore.at = "copying" /\ restore.todo = {}
    /\ restore' = NoRestore
    /\ UNCHANGED <<clock, files, cycles, shared, bounds>>

RestoreStep == BeginRestore \/ RestoreFile \/ FailRestore \/ EndRestore

-----------------------------------------------------------------------------
(* A signal cancels the context of the scheduler; the cycles of requests   *)
(* have one of their own, and go on till the process ends.                 *)
Cancel ==
    /\ ~stopping /\ stopping' = TRUE
    /\ crashes < MaxCrashes /\ crashes' = crashes + 1
    /\ UNCHANGED <<clock, files, cycles, shared, restore, faults>>

\* after a signal or without one; the next process begins with no cycle
Crash ==
    /\ \/ stopping /\ UNCHANGED crashes
       \/ ~stopping /\ crashes < MaxCrashes /\ crashes' = crashes + 1
    /\ stopping' = FALSE
    /\ cycles' = [c \in Cycle |-> Idle] /\ restore' = NoRestore
    /\ UNCHANGED <<clock, files, shared, faults>>

CycleStep(c) ==
    \/ Begin(c) \/ CreateFile(c) \/ FailCreate(c) \/ LeaveEarly(c)
    \/ Vacuum(c) \/ FinishVacuum(c) \/ FailVacuum(c) \/ CopyFile(c) \/ FailCopy(c)
    \/ List(c) \/ RemoveFile(c) \/ End(c)

Next ==
    \/ \E c \in Cycle : CycleStep(c)
    \/ RestoreStep
    \/ Tick
    \/ Cancel \/ Crash

Spec == Init /\ [][Next]_vars

-----------------------------------------------------------------------------
Time == 1 .. MaxClock

FileType == [stamp : Time, db : Db, holds : {"empty", "partial", "whole"}]

TypeOK ==
    /\ clock \in Time
    /\ files \subseteq FileType
    /\ \A f, g \in files : f.stamp = g.stamp /\ f.db = g.db => f = g
    /\ \A c \in Cycle :
          LET y == cycles[c]
          IN  y = Idle \/
                 /\ y.at \in {"loop", "created", "vacuuming", "copying", "clean"}
                 /\ y.stamp \in Time /\ y.todo \subseteq Db /\ y.remove \subseteq Time \X Db
                 /\ y.db \in IF y.at \in {"loop", "clean"} THEN {0} ELSE Db
    /\ shared \in BOOLEAN
    /\ restore = NoRestore \/ restore \in
          [at : {"copying"}, stamp : Time, todo : SUBSET Db, whole : BOOLEAN,
           got : SUBSET [db : Db, holds : {"empty", "partial", "whole"}]]
    /\ stopping \in BOOLEAN
    /\ faults \in 0 .. MaxFaults /\ crashes \in 0 .. MaxCrashes

\* nobody is making or removing the set
AtRest(s) ==
    \A c \in Cycle : /\ cycles[c].stamp # s
                     /\ \A p \in cycles[c].remove : p[1] # s

(* A set that nobody works on has a whole copy of every database, also if  *)
(* another cycle cleaned up while it was made: unless something failed or  *)
(* two cycles began in the same second.                                    *)
SetsAreComplete ==
    ~shared /\ faults = 0 /\ crashes = 0 =>
        \A s \in Stamps : AtRest(s) => Complete(s)

(* The types, and every set complete that nobody works on.                 *)
Consistent == TypeOK /\ SetsAreComplete

(* A restore that ends without an error of a set that was complete when it *)
(* began has made a whole copy of every database, although a cleanup may   *)
(* have removed files of the set meanwhile: unless two cycles began in the *)
(* same second.                                                            *)
RestoreIsWhole ==
    restore.at = "copying" /\ restore.todo = {} /\ restore.whole /\ ~shared =>
        restore.got = [db : Db, holds : {"whole"}]

(* When the last cycle ends, no more than MaxBackups sets are left,        *)
(* whatever overlapping and interrupted cycles have left behind, unless    *)
(* something failed or the process is on its way out: then the scheduler   *)
(* leaves a newer set, begun after a request has listed what it removes,   *)
(* and cleans nothing up.  The cycles of the next process do.              *)
RetentionHolds ==
    [][\A c \in Cycle :
          /\ End(c) /\ (\A d \in Cycle \ {c} : cycles[d] = Idle)
          /\ faults = 0 /\ ~stopping
          => Cardinality(Stamps) <= MaxBackups]_vars

(* A set goes only if there are MaxBackups newer ones or if it is older    *)
(* than Retention: overlapping cleanups never remove one of the newest.    *)
NewestStay ==
    [][\A s \in Stamps \ {f.stamp : f \in files'} :
          Cardinality(Newer(s)) >= MaxBackups \/ Expired(s)]_vars
=============================================================================
