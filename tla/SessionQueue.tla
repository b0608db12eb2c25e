---------------------------- MODULE SessionQueue ----------------------------
(***************************************************************************)
(* Editing sessions on their way from the session manager, through the     *)
(* directories of the merge queue, into content.db.                        *)
(*                                                                         *)
(* A session is one SQLite file.  The manager (v2/pkg/session) creates it  *)
(* in sessions/, appends rows to its _changes table and sets its status;   *)
(* the merger (v2/pkg/merger) claims files of queue/pending/ by renaming   *)
(* them to queue/processing/, applies their changes to content.db in one   *)
(* transaction and renames them to queue/done/ or queue/failed/; the       *)
(* collector (v2/pkg/gc) deletes files.  All three run in one process: a   *)
(* crash loses the manager's map, every request and the merger's place in  *)
(* its loop, and keeps the files and the databases.                        *)
(*                                                                         *)
(* What a change row says is abstracted away (ContentMerge models it): a   *)
(* row is its number, and a merge may refuse a session for any reason.     *)
(***************************************************************************)
EXTENDS Naturals, FiniteSets

CONSTANTS
    Session,      \* session ids; their order is that of the file names
    NoSession,    \* stands for "no session"
    User,         \* user ids
    Owner,        \* the user a session id is generated for
    MaxInFlight,  \* bound: calls of the API, the bot and the collector in flight
    EnqueueFiles, \* does somebody move submitted files to queue/pending/ ?
    MaxEdits,     \* bound: change rows per session
    MaxCrashes,   \* bound: crashes of the process
    MaxFaults     \* bound: failed renames and failed writes in the merger

ASSUME SessionAssumption ==
    /\ Session \subseteq Nat
    /\ NoSession \notin Session
    /\ Owner \in [Session -> User]
    /\ EnqueueFiles \in BOOLEAN
    /\ MaxInFlight \in Nat /\ MaxEdits \in Nat
    /\ MaxCrashes \in Nat /\ MaxFaults \in Nat

VARIABLES
    file,     \* the directory that holds the session's file
    meta,     \* _session_meta.status, in the file
    logged,   \* number of rows of _changes, in the file
    merged,   \* number of them with merged = 1
    known,    \* Manager.sessions: the status held in memory, or "absent"
    calls,    \* calls in flight that stand between two of their steps
    content,  \* content.db: how often each change row was applied
    applied,  \* history: the sessions whose transaction was committed
    audit,    \* audit.db: rows of merge_log per session
    phase,    \* where the merger is in processSession
    current,  \* the session it works on
    batch,    \* names read from queue/pending/ and not yet processed
    crashes, faults   \* counters of the bounds

manager == <<known, calls>>
merger  == <<phase, current, batch>>
bounds  == <<crashes, faults>>
vars    == <<file, meta, logged, merged, manager, content, applied, audit,
             merger, bounds>>

Place  == {"none", "sessions", "pending", "processing", "done", "failed",
           "removed"}
Status == {"active", "submitted", "abandoned", "merged", "conflict"}
Edit   == 1 .. MaxEdits

(* Where a call is.  "created": the file is written, the map is not;       *)
(* "edit", "submit": the status in memory was found active; "submitted",   *)
(* "abandoned": the file has the new status, the map has not; "remove":    *)
(* the collector found the session inactive.  At most one call per session *)
(* is at each of these points.                                             *)
Point == {"created", "edit", "submit", "submitted", "abandoned", "remove"}
At(point, s) == [at |-> point, on |-> s]

Init ==
    /\ file    = [s \in Session |-> "none"]
    /\ meta    = [s \in Session |-> "active"]
    /\ logged  = [s \in Session |-> 0]
    /\ merged  = [s \in Session |-> 0]
    /\ known   = [s \in Session |-> "absent"]
    /\ calls   = {}
    /\ content = [s \in Session |-> [i \in Edit |-> 0]]
    /\ applied = {}
    /\ audit   = [s \in Session |-> 0]
    /\ phase = "idle" /\ current = NoSession /\ batch = {}
    /\ crashes = 0 /\ faults = 0

-----------------------------------------------------------------------------
(* The session manager.                                                    *)

Running == phase # "down"

Begin(point, s) ==
    /\ Running
    /\ At(point, s) \notin calls /\ Cardinality(calls) < MaxInFlight
    /\ calls' = calls \cup {At(point, s)}

Go(from, to, s) ==
    /\ At(from, s) \in calls /\ At(to, s) \notin calls
    /\ calls' = (calls \ {At(from, s)}) \cup {At(to, s)}

Return(point, s) ==
    /\ At(point, s) \in calls
    /\ calls' = calls \ {At(point, s)}

(* Create, first half: the database file with its _session_meta row.       *)
CreateFile(s) ==
    /\ file[s] = "none"
    /\ Begin("created", s)
    /\ file' = [file EXCEPT ![s] = "sessions"]
    /\ UNCHANGED <<meta, logged, merged, known, content, applied, audit,
                   merger, bounds>>

(* GetOrCreate scans the map under the read lock, and on a miss releases   *)
(* it and calls Create; a hit changes nothing.                             *)
GetOrCreate(s) ==
    /\ ~ \E t \in Session : Owner[t] = Owner[s] /\ known[t] = "active"
    /\ CreateFile(s)

(* Create, second half: the entry of the manager's map.                    *)
Register(s) ==
    /\ Return("created", s)
    /\ known' = [known EXCEPT ![s] = "active"]
    /\ UNCHANGED <<file, meta, logged, merged, content, applied, audit,
                   merger, bounds>>

(* UpdateBlock, InsertBlock and DeleteBlock read the status in memory      *)
(* without the lock, before they touch the file.                           *)
BeginEdit(s) ==
    /\ known[s] = "active"
    /\ Begin("edit", s)
    /\ UNCHANGED <<file, meta, logged, merged, known, content, applied,
                   audit, merger, bounds>>

(* A handle that outlives the rename, as with a WAL session database.      *)
LogEditThroughOldHandle(s) ==
    /\ Return("edit", s)
    /\ logged[s] < MaxEdits
    /\ logged' = [logged EXCEPT ![s] = @ + 1]
    /\ UNCHANGED <<file, meta, merged, known, content, applied, audit,
                   merger, bounds>>

(* ... and then write to DBPath, which names a file of sessions/: SQLite   *)
(* refuses a write to a database file that was moved or removed.           *)
LogEdit(s) ==
    /\ Return("edit", s)
    /\ \/ /\ file[s] = "sessions" /\ logged[s] < MaxEdits
          /\ logged' = [logged EXCEPT ![s] = @ + 1]
       \/ /\ file[s] # "sessions"
          /\ UNCHANGED logged
    /\ UNCHANGED <<file, meta, merged, known, content, applied, audit,
                   merger, bounds>>

(* Submit checks the status in memory, also without the lock.              *)
BeginSubmit(s) ==
    /\ known[s] = "active"
    /\ Begin("submit", s)
    /\ UNCHANGED <<file, meta, logged, merged, known, content, applied,
                   audit, merger, bounds>>

(* A submission that ends when the file has the status.                    *)
SubmitFileOnly(s) ==
    /\ file[s] = "sessions"
    /\ Return("submit", s)
    /\ meta' = [meta EXCEPT ![s] = "submitted"]
    /\ UNCHANGED <<file, logged, merged, known, content, applied, audit,
                   merger, bounds>>

(* It then writes the status to the file ...                               *)
SubmitFile(s) ==
    /\ \/ /\ file[s] = "sessions"
          /\ Go("submit", "submitted", s)
          /\ meta' = [meta EXCEPT ![s] = "submitted"]
       \/ /\ file[s] # "sessions"
          /\ Return("submit", s)
          /\ UNCHANGED meta
    /\ UNCHANGED <<file, logged, merged, known, content, applied, audit,
                   merger, bounds>>

(* Abandon does so in any status; it fails if the file is gone.            *)
AbandonFile(s) ==
    /\ known[s] # "absent" /\ file[s] = "sessions"
    /\ Begin("abandoned", s)
    /\ meta' = [meta EXCEPT ![s] = "abandoned"]
    /\ UNCHANGED <<file, logged, merged, known, content, applied, audit,
                   merger, bounds>>

(* ... and both end with the map, under its lock.                          *)
WriteMemory(s) ==
    \E status \in {"submitted", "abandoned"} :
        /\ Return(status, s)
        /\ known' = [known EXCEPT ![s] = status]
        /\ UNCHANGED <<file, meta, logged, merged, content, applied, audit,
                       merger, bounds>>

-----------------------------------------------------------------------------
(* Nothing in the repository moves a submitted file from sessions/ to      *)
(* queue/pending/; the merger finds it there when somebody did.            *)
Enqueue(s) ==
    /\ EnqueueFiles
    /\ file[s] = "sessions" /\ meta[s] = "submitted"
    /\ file' = [file EXCEPT ![s] = "pending"]
    /\ UNCHANGED <<meta, logged, merged, manager, content, applied, audit,
                   merger, bounds>>

-----------------------------------------------------------------------------
(* The merger: one goroutine, one session at a time.  A step that may fail *)
(* without stopping processSession has a branch that counts a fault.       *)

Fault == faults < MaxFaults /\ faults' = faults + 1

(* A tick of Start: processPending reads the directory, sorted by name.    *)
Poll ==
    /\ phase = "idle" /\ batch = {}
    /\ \E s \in Session : file[s] = "pending"
    /\ batch' = {s \in Session : file[s] = "pending"}
    /\ UNCHANGED <<file, meta, logged, merged, manager, content, applied,
                   audit, phase, current, bounds>>

(* The first rename; a file that cannot be moved waits for the next tick.  *)
Claim ==
    /\ phase = "idle"
    /\ \E s \in batch :
        /\ \A t \in batch : s <= t
        /\ batch' = batch \ {s}
        /\ \/ /\ file' = [file EXCEPT ![s] = "processing"]
              /\ phase' = "claimed" /\ current' = s
              /\ UNCHANGED faults
           \/ /\ Fault
              /\ UNCHANGED <<file, phase, current>>
    /\ UNCHANGED <<meta, logged, merged, manager, content, applied, audit,
                   crashes>>

(* No metadata, a newer schema, a change that does not apply: the session  *)
(* fails.  Conflicts also set the status, an error there being ignored.    *)
Refuse ==
    /\ phase = "claimed"
    /\ phase' = "refused"
    /\ \/ meta' = [meta EXCEPT ![current] = "conflict"]
       \/ UNCHANGED meta
    /\ UNCHANGED <<file, logged, merged, manager, content, applied, audit,
                   current, batch, bounds>>

(* An error path that returns without moving the file.                     *)
RefuseInPlace ==
    /\ phase = "refused"
    /\ phase' = "idle" /\ current' = NoSession
    /\ UNCHANGED <<file, meta, logged, merged, manager, content, applied,
                   audit, batch, bounds>>

(* An error path that moves the file to the wrong directory.               *)
RefuseToDone ==
    /\ phase = "refused"
    /\ file' = [file EXCEPT ![current] = "done"]
    /\ phase' = "idle" /\ current' = NoSession
    /\ UNCHANGED <<meta, logged, merged, manager, content, applied, audit,
                   batch, bounds>>

MoveToFailed ==
    /\ phase = "refused"
    /\ \/ /\ file' = [file EXCEPT ![current] = "failed"]
          /\ UNCHANGED faults
       \/ /\ Fault
          /\ UNCHANGED file
    /\ phase' = "idle" /\ current' = NoSession
    /\ UNCHANGED <<meta, logged, merged, manager, content, applied, audit,
                   batch, crashes>>

(* A validation that finds conflicts and a merge that goes on regardless.  *)
CommitDespiteConflict ==
    /\ phase = "claimed"
    /\ content' = [content EXCEPT ![current] =
          [i \in Edit |-> IF merged[current] < i /\ i <= logged[current]
                          THEN @[i] + 1 ELSE @[i]]]
    /\ applied' = applied \cup {current}
    /\ \/ phase' = "committed" /\ UNCHANGED meta
       \/ phase' = "refused" /\ meta' = [meta EXCEPT ![current] = "conflict"]
    /\ UNCHANGED <<file, logged, merged, manager, audit, current,
                   batch, bounds>>

(* applyChanges up to tx.Commit: the rows with merged = 0.                 *)
Commit ==
    /\ phase = "claimed"
    /\ content' = [content EXCEPT ![current] =
          [i \in Edit |-> IF merged[current] < i /\ i <= logged[current]
                          THEN @[i] + 1 ELSE @[i]]]
    /\ applied' = applied \cup {current}
    /\ phase' = "committed"
    /\ UNCHANGED <<file, meta, logged, merged, manager, audit, current,
                   batch, bounds>>

(* After the commit, outside its transaction, errors ignored.              *)
MarkChanges ==
    /\ phase = "committed"
    /\ \/ /\ merged' = [merged EXCEPT ![current] = logged[current]]
          /\ UNCHANGED faults
       \/ /\ Fault
          /\ UNCHANGED merged
    /\ phase' = "marked"
    /\ UNCHANGED <<file, meta, logged, manager, content, applied, audit,
                   current, batch, crashes>>

(* A status that is not one of the session package's constants.            *)
MarkDone ==
    /\ phase = "marked"
    /\ meta' = [meta EXCEPT ![current] = "done"]
    /\ phase' = "flagged"
    /\ UNCHANGED <<file, logged, merged, manager, content, applied, audit,
                   current, batch, bounds>>

MarkMerged ==
    /\ phase = "marked"
    /\ \/ /\ meta' = [meta EXCEPT ![current] = "merged"]
          /\ UNCHANGED faults
       \/ /\ Fault
          /\ UNCHANGED meta
    /\ phase' = "flagged"
    /\ UNCHANGED <<file, logged, merged, manager, content, applied, audit,
                   current, batch, crashes>>

LogMerge ==
    /\ phase = "flagged"
    /\ \/ /\ audit' = [audit EXCEPT ![current] = @ + 1]
          /\ UNCHANGED faults
       \/ /\ Fault
          /\ UNCHANGED audit
    /\ phase' = "audited"
    /\ UNCHANGED <<file, meta, logged, merged, manager, content, applied,
                   current, batch, crashes>>

MoveToDone ==
    /\ phase = "audited"
    /\ \/ /\ file' = [file EXCEPT ![current] = "done"]
          /\ UNCHANGED faults
       \/ /\ Fault
          /\ UNCHANGED file
    /\ phase' = "idle" /\ current' = NoSession
    /\ UNCHANGED <<meta, logged, merged, manager, content, applied, audit,
                   batch, crashes>>

-----------------------------------------------------------------------------
(* The collector.  cleanAbandonedSessions reads the status, closes the     *)
(* file and removes its path; how old last_activity is, is not modelled.   *)

Inspect(s) ==
    /\ file[s] = "sessions" /\ meta[s] = "active"
    /\ Begin("remove", s)
    /\ UNCHANGED <<file, meta, logged, merged, known, content, applied,
                   audit, merger, bounds>>

Remove(s) ==
    /\ Return("remove", s)
    /\ file' = IF file[s] = "sessions"
               THEN [file EXCEPT ![s] = "removed"] ELSE file
    /\ UNCHANGED <<meta, logged, merged, known, content, applied, audit,
                   merger, bounds>>

(* cleanMergedSessions and archiveFailedSessions.                          *)
CleanQueue(s) ==
    /\ Running
    /\ file[s] \in {"done", "failed"}
    /\ file' = [file EXCEPT ![s] = "removed"]
    /\ UNCHANGED <<meta, logged, merged, manager, content, applied, audit,
                   merger, bounds>>

-----------------------------------------------------------------------------
(* The process.                                                            *)

Crash ==
    /\ Running /\ crashes < MaxCrashes
    /\ crashes' = crashes + 1
    /\ known' = [s \in Session |-> "absent"]
    /\ calls' = {}
    /\ phase' = "down" /\ current' = NoSession /\ batch' = {}
    /\ UNCHANGED <<file, meta, logged, merged, content, applied, audit,
                   faults>>

\* loadExistingSessions
Loaded == [s \in Session |-> IF file[s] = "sessions" THEN meta[s] ELSE "absent"]

(* A recovery that puts what was being processed back into the queue.      *)
RestartRequeues ==
    /\ phase = "down"
    /\ known' = Loaded
    /\ file' = [s \in Session |->
                    IF file[s] = "processing" THEN "pending" ELSE file[s]]
    /\ phase' = "idle"
    /\ UNCHANGED <<meta, logged, merged, calls, content, applied, audit,
                   current, batch, bounds>>

(* The manager loads its map, then recoverProcessing moves what was being  *)
(* processed to failed/; a file that cannot be moved stays.                *)
Restart ==
    /\ phase = "down"
    /\ known' = Loaded
    /\ \/ /\ file' = [s \in Session |->
                        IF file[s] = "processing" THEN "failed" ELSE file[s]]
          /\ UNCHANGED faults
       \/ /\ Fault
          /\ \E s \in Session :
                /\ file[s] = "processing"
                /\ file' = [t \in Session |->
                        IF t # s /\ file[t] = "processing"
                        THEN "failed" ELSE file[t]]
    /\ phase' = "idle"
    /\ UNCHANGED <<meta, logged, merged, calls, content, applied, audit,
                   current, batch, crashes>>

-----------------------------------------------------------------------------
MergerStep ==
    \/ Poll \/ Claim \/ Refuse \/ MoveToFailed \/ Commit
    \/ MarkChanges \/ MarkMerged \/ LogMerge \/ MoveToDone

ManagerStep(s) ==
    \/ CreateFile(s) \/ GetOrCreate(s) \/ Register(s)
    \/ BeginEdit(s) \/ LogEdit(s)
    \/ BeginSubmit(s) \/ SubmitFile(s) \/ AbandonFile(s) \/ WriteMemory(s)

CollectorStep(s) == Inspect(s) \/ Remove(s) \/ CleanQueue(s)

Next ==
    \/ \E s \in Session : ManagerStep(s) \/ Enqueue(s) \/ CollectorStep(s)
    \/ MergerStep
    \/ Crash \/ Restart

(* The merger's goroutine keeps polling and working (Start, 500 ms ticker),*)
(* and whoever runs the process starts it again.  Users and the collector  *)
(* owe nothing.                                                            *)
Fairness == WF_vars(MergerStep) /\ WF_vars(Restart)

Spec     == Init /\ [][Next]_vars
FairSpec == Spec /\ Fairness

-----------------------------------------------------------------------------
TypeOK ==
    /\ file    \in [Session -> Place]
    /\ meta    \in [Session -> Status]
    /\ logged  \in [Session -> 0 .. MaxEdits]
    /\ merged  \in [Session -> 0 .. MaxEdits]
    /\ known   \in [Session -> Status \cup {"absent"}]
    /\ calls   \subseteq [at : Point, on : Session]
    /\ content \in [Session -> [Edit -> Nat]]
    /\ applied \subseteq Session
    /\ audit   \in [Session -> Nat]
    /\ phase   \in {"down", "idle", "claimed", "refused", "committed",
                    "marked", "flagged", "audited"}
    /\ current \in IF phase \in {"down", "idle"} THEN {NoSession} ELSE Session
    /\ batch   \subseteq Session
    /\ crashes \in 0 .. MaxCrashes
    /\ faults  \in 0 .. MaxFaults

(* Every change row of a session is in content.db exactly once if its      *)
(* transaction was committed and not at all otherwise, whatever crashes,   *)
(* failed bookkeeping and requests in flight come between.                 *)
ExactlyOnce ==
    \A s \in Session, i \in Edit :
        content[s][i] = IF s \in applied /\ i <= logged[s] THEN 1 ELSE 0

(* A file in queue/done/ belongs to a session whose changes were committed.*)
DoneIsApplied ==
    \A s \in Session : file[s] = "done" => s \in applied

(* The status in the file never lies about the outcome: "merged" only with *)
(* a committed transaction, "conflict" only without one.                   *)
StatusTellsOutcome ==
    \A s \in Session :
        /\ meta[s] = "merged" => s \in applied
        /\ meta[s] = "conflict" => s \notin applied

(* merge_log has at most one success row per session, and only for         *)
(* sessions whose changes are in content.db.                               *)
AuditBacked ==
    \A s \in Session : audit[s] <= 1 /\ (audit[s] = 1 => s \in applied)

(* A session the manager takes for active still has its file in sessions/, *)
(* unless the collector deleted it or its submission is being recorded.    *)
ActiveHasFile ==
    \A s \in Session : known[s] = "active" =>
        \/ file[s] \in {"sessions", "removed"}
        \/ At("submitted", s) \in calls

(* A file that reached queue/pending/ leaves the queue for done/ or        *)
(* failed/, unless a rename or a write failed on the way.                  *)
Served ==
    \A s \in Session :
        file[s] = "pending" ~>
            file[s] \in {"done", "failed", "removed"} \/ faults > 0

-----------------------------------------------------------------------------
(* The transactional queue this implements.                                *)
Fate(s) ==
    CASE s \in applied -> "applied"
      [] s \notin applied /\ file[s] \in {"none", "sessions"} -> "open"
      [] s \notin applied /\ file[s] \in {"pending", "processing"} -> "queued"
      [] s \notin applied /\ file[s] \in {"done", "failed"} -> "refused"
      [] OTHER -> "gone"

Atomic == INSTANCE AtomicMerge WITH
             fate <- [s \in Session |-> Fate(s)], written <- logged

(* Sessions meet their fates and reach content.db as AtomicMerge says.     *)
ImplementsAtomicMerge == Atomic!Spec

(* Documented: a submitted session.db goes to queue/pending/ and the       *)
(* merger, so its submission is answered by a merge or a refusal.          *)
SubmittedIsServed ==
    \A s \in Session :
        file[s] = "sessions" /\ meta[s] = "submitted"
            ~> file[s] # "sessions" \/ meta[s] # "submitted"
=============================================================================
