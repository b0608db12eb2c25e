------------------------- MODULE SessionQueueProofs -------------------------
(***************************************************************************)
(* Proofs about SessionQueue, for any sets of sessions and users and any   *)
(* bounds.                                                                 *)
(*                                                                         *)
(* The inductive invariant QueueInv ties four things that the code keeps   *)
(* apart: the directory a file is in, the merger's place in its loop, the  *)
(* bookkeeping written after the commit and the content of content.db.     *)
(***************************************************************************)
EXTENDS SessionQueue, TLAPS

(* Where the merger is says what has happened to its session.              *)
Working   == {"claimed", "refused"}
Finishing == {"committed", "marked", "flagged", "audited"}

MergerInv ==
    /\ phase \in Working =>
          current \in Session /\ file[current] = "processing"
                              /\ current \notin applied
    /\ phase \in Finishing =>
          current \in Session /\ file[current] = "processing"
                              /\ current \in applied
    /\ phase = "claimed" => meta[current] # "conflict"
    /\ phase \in {"committed", "marked", "flagged"} => audit[current] = 0
    /\ phase = "down" => batch = {} /\ calls = {}
    /\ \A s \in batch : file[s] = "pending"

(* Where the file is says what may have been done to the session.          *)
FileInv ==
    \A s \in Session :
        /\ s \in applied => file[s] \in {"processing", "done", "failed", "removed"}
        /\ file[s] = "done" => s \in applied
        /\ file[s] \in {"none", "sessions", "pending"} =>
              meta[s] \in {"active", "submitted", "abandoned"}

(* What a session that was not applied has not got.                        *)
UntouchedInv ==
    \A s \in Session : s \notin applied => merged[s] = 0 /\ audit[s] = 0

QueueInv ==
    /\ TypeOK /\ MergerInv /\ FileInv /\ UntouchedInv
    /\ ExactlyOnce /\ StatusTellsOutcome /\ AuditBacked

-----------------------------------------------------------------------------
(* Every variable keeps its type.                                          *)
LEMMA InitTypeOK == Init => TypeOK
  BY SessionAssumption DEF Init, TypeOK, Place, Status, Edit

(* Every step of the system keeps the types.                               *)
LEMMA NextTypeOK == TypeOK /\ [Next]_vars => TypeOK'
  <1> SUFFICES ASSUME TypeOK, [Next]_vars PROVE TypeOK'
    OBVIOUS
  <1> USE SessionAssumption DEF TypeOK, manager, merger, bounds
  <1>1. ASSUME NEW s \in Session, ManagerStep(s) PROVE TypeOK'
    <2>1. CASE CreateFile(s) \/ GetOrCreate(s)
      <3>1. CreateFile(s)
        BY <2>1 DEF GetOrCreate
      <3> QED
        BY <3>1 DEF CreateFile, Begin, At, Point, Place
    <2>2. CASE Register(s)
      BY <2>2 DEF Register, Return, Status
    <2>3. CASE BeginEdit(s) \/ BeginSubmit(s)
      <3>1. CASE BeginEdit(s)
        BY <3>1 DEF BeginEdit, Begin, At, Point
      <3>2. CASE BeginSubmit(s)
        BY <3>2 DEF BeginSubmit, Begin, At, Point
      <3> QED
        BY <2>3, <3>1, <3>2
    <2>4. CASE LogEdit(s)
      BY <2>4 DEF LogEdit, Return
    <2>5. CASE SubmitFile(s)
      BY <2>5 DEF SubmitFile, Go, Return, At, Point, Status
    <2>6. CASE AbandonFile(s)
      BY <2>6 DEF AbandonFile, Begin, At, Point, Status
    <2>7. CASE WriteMemory(s)
      BY <2>7 DEF WriteMemory, Return, Status
    <2> QED
      BY <1>1, <2>1, <2>2, <2>3, <2>4, <2>5, <2>6, <2>7 DEF ManagerStep
  <1>2. ASSUME NEW s \in Session, Enqueue(s) \/ CollectorStep(s) PROVE TypeOK'
    <2>1. CASE Enqueue(s)
      BY <2>1 DEF Enqueue, Place
    <2>2. CASE Inspect(s)
      BY <2>2 DEF Inspect, Begin, At, Point
    <2>3. CASE Remove(s)
      BY <2>3 DEF Remove, Return, Place
    <2>4. CASE CleanQueue(s)
      BY <2>4 DEF CleanQueue, Place
    <2> QED
      BY <1>2, <2>1, <2>2, <2>3, <2>4 DEF CollectorStep
  <1>3. ASSUME MergerStep PROVE TypeOK'
    <2>1. CASE Poll
      BY <2>1 DEF Poll
    <2>2. CASE Claim
      BY <2>2 DEF Claim, Fault, Place
    <2>3. CASE Refuse
      BY <2>3 DEF Refuse, Status
    <2>4. CASE MoveToFailed
      BY <2>4 DEF MoveToFailed, Fault, Place
    <2>5. CASE Commit
      <3>1. current \in Session
        BY <2>5 DEF Commit
      <3> DEFINE row == [i \in Edit |->
               IF merged[current] < i /\ i <= logged[current]
               THEN content[current][i] + 1 ELSE content[current][i]]
      <3>2. row \in [Edit -> Nat]
        BY <3>1
      <3>3. content' = [content EXCEPT ![current] = row]
        BY <2>5 DEF Commit
      <3>4. content' \in [Session -> [Edit -> Nat]]
        BY <3>2, <3>3
      <3> QED
        BY <2>5, <3>1, <3>4 DEF Commit
    <2>6. CASE MarkChanges
      BY <2>6 DEF MarkChanges, Fault
    <2>7. CASE MarkMerged
      BY <2>7 DEF MarkMerged, Fault, Status
    <2>8. CASE LogMerge
      BY <2>8 DEF LogMerge, Fault
    <2>9. CASE MoveToDone
      BY <2>9 DEF MoveToDone, Fault, Place
    <2> QED
      BY <1>3, <2>1, <2>2, <2>3, <2>4, <2>5, <2>6, <2>7, <2>8, <2>9 DEF MergerStep
  <1>4. CASE Crash
    BY <1>4 DEF Crash
  <1>5. CASE Restart
    BY <1>5 DEF Restart, Loaded, Fault, Place, Status
  <1>6. CASE UNCHANGED vars
    BY <1>6 DEF vars
  <1> QED
    BY <1>1, <1>2, <1>3, <1>4, <1>5, <1>6 DEF Next

(* The system's state is well typed: statuses, directories and counters    *)
(* keep to the values the code gives them.                                 *)
THEOREM TypeCorrect == Spec => []TypeOK
  <1>1. Init => TypeOK
    BY InitTypeOK
  <1>2. TypeOK /\ [Next]_vars => TypeOK'
    BY NextTypeOK
  <1> QED
    BY <1>1, <1>2, PTL DEF Spec

-----------------------------------------------------------------------------
(* A call of the manager or of the collector, or the move to pending/,     *)
(* changes one session, whose file the merger has not got yet, and none of *)
(* what the merger writes.                                                 *)
OutsideQueue(s) ==
    /\ phase = "down" => UNCHANGED calls
    /\ UNCHANGED <<merged, content, applied, audit, phase, current, batch>>
    /\ \A t \in Session \ {s} :
          file'[t] = file[t] /\ meta'[t] = meta[t] /\ logged'[t] = logged[t]
    /\ \/ UNCHANGED <<file, meta, logged>>
       \/ /\ file[s] \in {"none", "sessions"}
          /\ file'[s] \in {"sessions", "pending", "removed"}
          /\ meta'[s] \in {"active", "submitted", "abandoned"}

(* The manager and the collector touch only files that are in sessions/.   *)
LEMMA OutsideQueueSteps ==
  ASSUME TypeOK, FileInv, NEW s \in Session,
         phase # "down", ManagerStep(s) \/ Inspect(s) \/ Remove(s)
  PROVE  OutsideQueue(s)
  <1> USE DEF TypeOK, OutsideQueue, manager, merger, bounds
  <1>1. file[s] \in {"none", "sessions"} =>
            meta[s] \in {"active", "submitted", "abandoned"}
    BY DEF FileInv
  <1>2. CASE CreateFile(s) \/ GetOrCreate(s)
    <2>1. CreateFile(s)
      BY <1>2 DEF GetOrCreate
    <2> QED
      BY <1>1, <2>1 DEF CreateFile
  <1>3. CASE Register(s) \/ BeginEdit(s) \/ BeginSubmit(s) \/ WriteMemory(s)
             \/ Inspect(s)
    BY <1>3 DEF Register, BeginEdit, BeginSubmit, WriteMemory, Inspect
  <1>4. CASE LogEdit(s)
    BY <1>1, <1>4 DEF LogEdit
  <1>5. CASE SubmitFile(s)
    BY <1>5 DEF SubmitFile
  <1>6. CASE AbandonFile(s)
    BY <1>6 DEF AbandonFile
  <1>7. CASE Remove(s)
    BY <1>1, <1>7 DEF Remove
  <1> QED
    BY <1>2, <1>3, <1>4, <1>5, <1>6, <1>7 DEF ManagerStep

(* So does the move of a submitted file to queue/pending/.                 *)
LEMMA EnqueueStep ==
  ASSUME TypeOK, FileInv, NEW s \in Session, Enqueue(s)
  PROVE  OutsideQueue(s)
  BY DEF TypeOK, FileInv, OutsideQueue, Enqueue, manager, merger, bounds

(* Such steps keep the invariant: the merger has no file of sessions/.     *)
LEMMA OutsideQueueKeepsInv ==
  ASSUME QueueInv, TypeOK', NEW s \in Session, OutsideQueue(s)
  PROVE  QueueInv'
  <1> USE DEF QueueInv, OutsideQueue
  <1>1. CASE UNCHANGED <<file, meta, logged>>
    BY <1>1 DEF MergerInv, FileInv, UntouchedInv, ExactlyOnce,
                StatusTellsOutcome, AuditBacked
  <1>2. CASE file[s] \in {"none", "sessions"} /\ ~UNCHANGED <<file, meta, logged>>
    <2>1. s \notin applied /\ s \notin batch /\ (phase \in Working \cup Finishing => current # s)
      BY <1>2 DEF FileInv, MergerInv, Working, Finishing
    <2>2. MergerInv'
      BY <1>2, <2>1 DEF MergerInv, TypeOK, Working, Finishing
    <2>3. FileInv'
      BY <1>2, <2>1 DEF FileInv
    <2>4. UntouchedInv' /\ AuditBacked'
      BY DEF UntouchedInv, AuditBacked
    <2>5. ExactlyOnce'
      BY <2>1 DEF ExactlyOnce
    <2>6. StatusTellsOutcome'
      BY <1>2, <2>1 DEF StatusTellsOutcome
    <2> QED
      BY <2>2, <2>3, <2>4, <2>5, <2>6
  <1> QED
    BY <1>1, <1>2

(* While the process is down nothing but its restart happens.              *)
LEMMA CallsNeedTheProcess ==
  ASSUME TypeOK, MergerInv, NEW s \in Session,
         ManagerStep(s) \/ Inspect(s) \/ Remove(s)
  PROVE  phase # "down"
  BY DEF MergerInv, ManagerStep, CreateFile, GetOrCreate, Register, BeginEdit,
         LogEdit, BeginSubmit, SubmitFile, AbandonFile, WriteMemory, Inspect,
         Remove, Begin, Go, Return, Running

(* A claimed session was pending, so it was not applied.                   *)
LEMMA ClaimKeepsInv ==
  ASSUME QueueInv, TypeOK', Claim
  PROVE  QueueInv'
  <1> USE DEF QueueInv, manager, merger, bounds
  <1>1. PICK s \in batch :
           /\ batch' = batch \ {s}
           /\ \/ /\ file' = [file EXCEPT ![s] = "processing"]
                 /\ phase' = "claimed" /\ current' = s
              \/ UNCHANGED <<file, phase, current>>
    BY DEF Claim
  <1>2. s \in Session /\ file[s] = "pending" /\ phase = "idle"
    BY DEF MergerInv, TypeOK, Claim
  <1>3. UNCHANGED <<meta, logged, merged, content, applied, audit, calls>>
    BY DEF Claim
  <1>4. CASE UNCHANGED <<file, phase, current>>
    BY <1>1, <1>3, <1>4 DEF MergerInv, FileInv, UntouchedInv, ExactlyOnce,
                            StatusTellsOutcome, AuditBacked
  <1>5. CASE file' = [file EXCEPT ![s] = "processing"] /\ phase' = "claimed"
             /\ current' = s
    <2>1. s \notin applied /\ meta[s] # "conflict"
      BY <1>2 DEF FileInv
    <2>2. MergerInv'
      BY <1>1, <1>2, <1>3, <1>5, <2>1 DEF MergerInv, TypeOK, Working, Finishing
    <2>3. FileInv'
      BY <1>2, <1>3, <1>5 DEF FileInv, TypeOK
    <2> QED
      BY <1>3, <2>2, <2>3 DEF UntouchedInv, ExactlyOnce, StatusTellsOutcome,
                              AuditBacked
  <1> QED
    BY <1>1, <1>4, <1>5

(* A refused session was not applied; it goes to failed/ unmarked.         *)
LEMMA RefuseKeepsInv ==
  ASSUME QueueInv, TypeOK', Refuse \/ MoveToFailed
  PROVE  QueueInv'
  <1> USE DEF QueueInv, manager, merger, bounds
  <1>1. current \in Session /\ file[current] = "processing"
        /\ current \notin applied
    BY DEF MergerInv, Working, Refuse, MoveToFailed
  <1>2. current \notin batch
    BY <1>1 DEF MergerInv
  <1>3. CASE Refuse
    <2>1. UNCHANGED <<file, logged, merged, content, applied, audit, current,
                      batch, calls>>
          /\ phase' = "refused" /\ meta' \in {meta, [meta EXCEPT ![current] = "conflict"]}
      BY <1>3 DEF Refuse
    <2>2. MergerInv'
      BY <1>1, <2>1 DEF MergerInv, Working, Finishing
    <2>3. FileInv'
      BY <1>1, <2>1 DEF FileInv, TypeOK
    <2>4. StatusTellsOutcome'
      BY <1>1, <2>1 DEF StatusTellsOutcome, TypeOK
    <2> QED
      BY <2>1, <2>2, <2>3, <2>4 DEF UntouchedInv, ExactlyOnce, AuditBacked
  <1>4. CASE MoveToFailed
    <2>1. UNCHANGED <<meta, logged, merged, content, applied, audit, batch, calls>>
          /\ phase' = "idle" /\ file' \in {file, [file EXCEPT ![current] = "failed"]}
      BY <1>4 DEF MoveToFailed
    <2>2. MergerInv'
      BY <1>1, <1>2, <2>1 DEF MergerInv, TypeOK, Working, Finishing
    <2>3. FileInv'
      BY <1>1, <2>1 DEF FileInv, TypeOK
    <2> QED
      BY <2>1, <2>2, <2>3 DEF UntouchedInv, ExactlyOnce, AuditBacked,
                              StatusTellsOutcome
  <1> QED
    BY <1>3, <1>4

(* The transaction applies each row of the claimed session once.           *)
LEMMA CommitKeepsInv ==
  ASSUME QueueInv, TypeOK', Commit
  PROVE  QueueInv'
  <1> USE DEF QueueInv, manager, merger, bounds
  <1>1. /\ current \in Session /\ file[current] = "processing"
        /\ current \notin applied /\ meta[current] # "conflict"
        /\ merged[current] = 0 /\ audit[current] = 0
    BY DEF MergerInv, UntouchedInv, Working, Commit
  <1>2. /\ UNCHANGED <<file, meta, logged, merged, audit, current, batch, calls>>
        /\ applied' = applied \cup {current} /\ phase' = "committed"
    BY DEF Commit
  <1>3. ExactlyOnce'
    <2> SUFFICES ASSUME NEW s \in Session, NEW i \in Edit
                 PROVE  content'[s][i] =
                          IF s \in applied' /\ i <= logged'[s] THEN 1 ELSE 0
      BY DEF ExactlyOnce
    <2>1. CASE s = current
      <3>1. content[s][i] = 0
        BY <1>1, <2>1 DEF ExactlyOnce
      <3>2. content'[s][i] = IF 0 < i /\ i <= logged[s] THEN 1 ELSE 0
        BY <1>1, <2>1, <3>1 DEF Commit, TypeOK
      <3> QED
        BY <1>2, <2>1, <3>2, SessionAssumption DEF Edit
    <2>2. CASE s # current
      <3>1. content'[s][i] = content[s][i]
        BY <1>1, <2>2 DEF Commit, TypeOK
      <3> QED
        BY <1>2, <2>2, <3>1 DEF ExactlyOnce
    <2> QED
      BY <2>1, <2>2
  <1>4. MergerInv'
    BY <1>1, <1>2 DEF MergerInv, Working, Finishing
  <1>5. FileInv' /\ UntouchedInv' /\ StatusTellsOutcome' /\ AuditBacked'
    BY <1>1, <1>2 DEF FileInv, UntouchedInv, StatusTellsOutcome, AuditBacked
  <1> QED
    BY <1>3, <1>4, <1>5

(* After the commit: each step writes one thing, of an applied session.    *)
LEMMA BookkeepingKeepsInv ==
  ASSUME QueueInv, TypeOK', MarkChanges \/ MarkMerged \/ LogMerge \/ MoveToDone
  PROVE  QueueInv'
  <1> USE DEF QueueInv, manager, merger, bounds
  <1>1. current \in Session /\ file[current] = "processing"
        /\ current \in applied /\ current \notin batch
    BY DEF MergerInv, Finishing, MarkChanges, MarkMerged, LogMerge, MoveToDone
  <1>2. CASE MarkChanges
    <2>1. /\ UNCHANGED <<file, meta, logged, content, applied, audit, current, batch, calls>>
          /\ phase = "committed" /\ phase' = "marked"
          /\ merged' \in {merged, [merged EXCEPT ![current] = logged[current]]}
      BY <1>2 DEF MarkChanges
    <2> QED
      BY <1>1, <2>1 DEF MergerInv, FileInv, UntouchedInv, ExactlyOnce,
            StatusTellsOutcome, AuditBacked, TypeOK, Working, Finishing
  <1>3. CASE MarkMerged
    <2>1. /\ UNCHANGED <<file, logged, merged, content, applied, audit, current, batch, calls>>
          /\ phase = "marked" /\ phase' = "flagged"
          /\ meta' \in {meta, [meta EXCEPT ![current] = "merged"]}
      BY <1>3 DEF MarkMerged
    <2>2. FileInv' /\ StatusTellsOutcome'
      BY <1>1, <2>1 DEF FileInv, StatusTellsOutcome, TypeOK
    <2> QED
      BY <1>1, <2>1, <2>2 DEF MergerInv, UntouchedInv, ExactlyOnce, AuditBacked,
                              Working, Finishing
  <1>4. CASE LogMerge
    <2>1. /\ UNCHANGED <<file, meta, logged, merged, content, applied, current, batch, calls>>
          /\ phase = "flagged" /\ phase' = "audited" /\ audit[current] = 0
          /\ audit' \in {audit, [audit EXCEPT ![current] = 1]}
      BY <1>4 DEF LogMerge, MergerInv
    <2>2. UntouchedInv' /\ AuditBacked'
      BY <1>1, <2>1 DEF UntouchedInv, AuditBacked, TypeOK
    <2> QED
      BY <1>1, <2>1, <2>2 DEF MergerInv, FileInv, ExactlyOnce, StatusTellsOutcome,
                              Working, Finishing
  <1>5. CASE MoveToDone
    <2>1. /\ UNCHANGED <<meta, logged, merged, content, applied, audit, batch, calls>>
          /\ phase' = "idle" /\ file' \in {file, [file EXCEPT ![current] = "done"]}
      BY <1>5 DEF MoveToDone
    <2>2. MergerInv'
      BY <1>1, <2>1 DEF MergerInv, TypeOK, Working, Finishing
    <2>3. FileInv'
      BY <1>1, <2>1 DEF FileInv, TypeOK
    <2> QED
      BY <2>1, <2>2, <2>3 DEF UntouchedInv, ExactlyOnce, StatusTellsOutcome,
                              AuditBacked
  <1> QED
    BY <1>2, <1>3, <1>4, <1>5

(* Recovery moves files from processing/ to failed/ and nothing else.      *)
LEMMA RestartMovesToFailed ==
  ASSUME Restart
  PROVE  \A s \in Session : file'[s] = file[s]
                          \/ (file[s] = "processing" /\ file'[s] = "failed")
  <1>1. CASE file' = [s \in Session |->
                    IF file[s] = "processing" THEN "failed" ELSE file[s]]
    BY <1>1
  <1>2. CASE \E s \in Session :
                file' = [t \in Session |->
                    IF t # s /\ file[t] = "processing"
                    THEN "failed" ELSE file[t]]
    BY <1>2
  <1> QED
    BY <1>1, <1>2 DEF Restart, Loaded

(* A crash and a restart keep what was applied and what was not apart.     *)
LEMMA ProcessKeepsInv ==
  ASSUME QueueInv, TypeOK', Crash \/ Restart
  PROVE  QueueInv'
  <1> USE DEF QueueInv, manager, merger, bounds
  <1>1. CASE Crash
    BY <1>1 DEF Crash, MergerInv, FileInv, UntouchedInv, ExactlyOnce,
                StatusTellsOutcome, AuditBacked, Working, Finishing
  <1>2. CASE Restart
    <2>1. UNCHANGED <<meta, logged, merged, content, applied, audit, batch, calls>>
          /\ phase = "down" /\ phase' = "idle"
      BY <1>2 DEF Restart, Loaded
    <2>2. \A s \in Session : file'[s] = file[s]
                          \/ (file[s] = "processing" /\ file'[s] = "failed")
      BY <1>2, RestartMovesToFailed
    <2>3. batch = {}
      BY <2>1 DEF MergerInv
    <2>4. MergerInv'
      BY <2>1, <2>3 DEF MergerInv, Working, Finishing
    <2>5. FileInv'
      BY <2>1, <2>2 DEF FileInv
    <2> QED
      BY <2>1, <2>4, <2>5 DEF UntouchedInv, ExactlyOnce, StatusTellsOutcome,
                              AuditBacked
  <1> QED
    BY <1>1, <1>2

(* The collector removes files of sessions that have their outcome.        *)
LEMMA CleanQueueKeepsInv ==
  ASSUME QueueInv, TypeOK', NEW s \in Session, CleanQueue(s)
  PROVE  QueueInv'
  <1> USE DEF QueueInv, manager, merger, bounds
  <1>1. /\ UNCHANGED <<meta, logged, merged, content, applied, audit, phase,
                       current, batch, calls>>
        /\ file[s] \in {"done", "failed"}
        /\ file' = [file EXCEPT ![s] = "removed"]
    BY DEF CleanQueue
  <1>2. MergerInv'
    BY <1>1 DEF MergerInv, TypeOK, Working, Finishing
  <1>3. FileInv'
    BY <1>1 DEF FileInv, TypeOK
  <1> QED
    BY <1>1, <1>2, <1>3 DEF UntouchedInv, ExactlyOnce, StatusTellsOutcome,
                            AuditBacked

(* A poll only reads the directory.                                        *)
LEMMA PollKeepsInv ==
  ASSUME QueueInv, TypeOK', Poll
  PROVE  QueueInv'
  BY DEF QueueInv, manager, merger, bounds, Poll, MergerInv, FileInv,
         UntouchedInv, ExactlyOnce, StatusTellsOutcome, AuditBacked

(* The empty system satisfies the invariant.                               *)
LEMMA InitQueueInv == Init => QueueInv
  BY InitTypeOK, SessionAssumption
     DEF Init, QueueInv, MergerInv, FileInv, UntouchedInv, ExactlyOnce,
         StatusTellsOutcome, AuditBacked, Working, Finishing, TypeOK, Edit

(* The invariant is inductive.                                             *)
LEMMA NextQueueInv == QueueInv /\ [Next]_vars => QueueInv'
  <1> SUFFICES ASSUME QueueInv, [Next]_vars PROVE QueueInv'
    OBVIOUS
  <1>1. TypeOK'
    BY NextTypeOK DEF QueueInv
  <1>2. ASSUME NEW s \in Session, ManagerStep(s) \/ Inspect(s) \/ Remove(s)
        PROVE  QueueInv'
    <2>1. phase # "down"
      BY <1>2, CallsNeedTheProcess DEF QueueInv
    <2>2. OutsideQueue(s)
      BY <1>2, <2>1, OutsideQueueSteps DEF QueueInv
    <2> QED
      BY <1>1, <2>2, OutsideQueueKeepsInv
  <1>3. ASSUME NEW s \in Session, Enqueue(s)
        PROVE  QueueInv'
    BY <1>1, <1>3, EnqueueStep, OutsideQueueKeepsInv DEF QueueInv
  <1>4. ASSUME NEW s \in Session, CleanQueue(s)
        PROVE  QueueInv'
    BY <1>1, <1>4, CleanQueueKeepsInv
  <1>5. CASE MergerStep
    BY <1>1, <1>5, PollKeepsInv, ClaimKeepsInv, RefuseKeepsInv, CommitKeepsInv,
       BookkeepingKeepsInv DEF MergerStep
  <1>6. CASE Crash \/ Restart
    BY <1>1, <1>6, ProcessKeepsInv
  <1>7. CASE UNCHANGED vars
    BY <1>7, <1>1 DEF vars, manager, merger, bounds, QueueInv, MergerInv, FileInv,
       UntouchedInv, ExactlyOnce, StatusTellsOutcome, AuditBacked
  <1> QED
    BY <1>2, <1>3, <1>4, <1>5, <1>6, <1>7 DEF Next, CollectorStep

(* Where a file is, where the merger is and what the databases say agree   *)
(* in every state, through crashes, late requests and failed bookkeeping.  *)
THEOREM QueueInvariant == Spec => []QueueInv
  <1>1. Init => QueueInv
    BY InitQueueInv
  <1>2. QueueInv /\ [Next]_vars => QueueInv'
    BY NextQueueInv
  <1> QED
    BY <1>1, <1>2, PTL DEF Spec

(* Every change row is in content.db exactly once, or not at all: a crash  *)
(* after the commit and before the row is marked does not apply it twice.  *)
THEOREM AppliedExactlyOnce == Spec => []ExactlyOnce
  <1>1. QueueInv => ExactlyOnce
    BY DEF QueueInv
  <1> QED
    BY <1>1, QueueInvariant, PTL

(* Only the merger's last rename puts files into queue/done/.              *)
THEOREM DoneSessionsAreApplied == Spec => []DoneIsApplied
  <1>1. QueueInv => DoneIsApplied
    BY DEF QueueInv, FileInv, DoneIsApplied
  <1> QED
    BY <1>1, QueueInvariant, PTL

(* Late calls of Submit and Abandon cannot overwrite what the merger wrote.*)
THEOREM StatusIsTruthful == Spec => []StatusTellsOutcome
  <1>1. QueueInv => StatusTellsOutcome
    BY DEF QueueInv
  <1> QED
    BY <1>1, QueueInvariant, PTL

(* merge_log never shows a merge twice, nor one that did not happen.       *)
THEOREM AuditIsBacked == Spec => []AuditBacked
  <1>1. QueueInv => AuditBacked
    BY DEF QueueInv
  <1> QED
    BY <1>1, QueueInvariant, PTL

-----------------------------------------------------------------------------
(* The refinement.  Fates change only where file or applied do.            *)
FateMap == [s \in Session |-> Fate(s)]

(* What leaves files and content.db alone is a stutter of AtomicMerge.     *)
LEMMA FateStutters ==
  ASSUME UNCHANGED <<file, applied, logged, content>>
  PROVE  UNCHANGED Atomic!avars
  BY DEF Atomic!avars, Fate

(* A row of the journal is written to an open session, or not at all.      *)
LEMMA EditIsWrite ==
  ASSUME QueueInv, NEW s \in Session, LogEdit(s)
  PROVE  [Atomic!ANext]_(Atomic!avars)
  <1>1. CASE UNCHANGED logged
    BY <1>1, FateStutters DEF LogEdit
  <1>2. CASE file[s] = "sessions" /\ logged' = [logged EXCEPT ![s] = @ + 1]
    <2>1. Fate(s) = "open"
      BY <1>2 DEF QueueInv, FileInv, Fate
    <2>2. FateMap' = FateMap /\ content' = content
      BY <1>2 DEF LogEdit, FateMap, Fate
    <2>3. Atomic!Write(s)
      BY <1>2, <2>1, <2>2 DEF Atomic!Write, FateMap
    <2> QED
      BY <2>3 DEF Atomic!ANext
  <1> QED
    BY <1>1, <1>2 DEF LogEdit

(* A session is open before and after its file is created.                 *)
LEMMA CreateStutters ==
  ASSUME QueueInv, NEW s \in Session, CreateFile(s)
  PROVE  UNCHANGED Atomic!avars
  BY DEF QueueInv, TypeOK, FileInv, CreateFile, Atomic!avars, Fate

(* The move to queue/pending/ queues the session.                          *)
LEMMA EnqueueIsQueue ==
  ASSUME QueueInv, NEW s \in Session, Enqueue(s)
  PROVE  Atomic!ANext
  <1>1. Fate(s) = "open"
    BY DEF QueueInv, FileInv, Enqueue, Fate
  <1>2. FateMap' = [FateMap EXCEPT ![s] = "queued"]
    BY DEF QueueInv, TypeOK, FileInv, Enqueue, FateMap, Fate
  <1>3. Atomic!Queue(s)
    BY <1>1, <1>2 DEF Atomic!Queue, Enqueue, FateMap
  <1> QED
    BY <1>3 DEF Atomic!ANext

(* The collector discards sessions, or forgets those that were applied.    *)
LEMMA RemovalIsDiscard ==
  ASSUME QueueInv, NEW s \in Session, Remove(s) \/ CleanQueue(s)
  PROVE  [Atomic!ANext]_(Atomic!avars)
  <1>1. UNCHANGED <<applied, logged, content>>
    BY DEF Remove, CleanQueue
  <1>2. CASE UNCHANGED file
    BY <1>1, <1>2, FateStutters
  <1>3. CASE file[s] \in {"sessions", "done", "failed"}
             /\ file' = [file EXCEPT ![s] = "removed"]
    <2>1. CASE s \in applied
      BY <1>1, <1>3, <2>1 DEF QueueInv, TypeOK, Atomic!avars, Fate
    <2>2. CASE s \notin applied
      <3>1. Fate(s) \in {"open", "refused"}
        BY <1>3, <2>2 DEF Fate
      <3>2. FateMap' = [FateMap EXCEPT ![s] = "gone"]
        BY <1>1, <1>3, <2>2 DEF QueueInv, TypeOK, FateMap, Fate
      <3>3. Atomic!Discard(s)
        BY <1>1, <3>1, <3>2 DEF Atomic!Discard, FateMap
      <3> QED
        BY <3>3 DEF Atomic!ANext
    <2> QED
      BY <2>1, <2>2
  <1> QED
    BY <1>2, <1>3 DEF Remove, CleanQueue

(* The commit of the merger's transaction applies the session.             *)
LEMMA CommitIsApply ==
  ASSUME QueueInv, Commit
  PROVE  Atomic!ANext
  <1>1. /\ current \in Session /\ file[current] = "processing"
        /\ current \notin applied /\ merged[current] = 0
    BY DEF QueueInv, MergerInv, UntouchedInv, Working, Commit
  <1>2. Fate(current) = "queued"
    BY <1>1 DEF Fate
  <1>3. FateMap' = [FateMap EXCEPT ![current] = "applied"]
    BY <1>1 DEF Commit, FateMap, Fate
  <1>4. \A i \in Edit : content[current][i] = 0
    BY <1>1 DEF QueueInv, ExactlyOnce
  <1>5. content' = [content EXCEPT ![current] = Atomic!AAll(current)]
    <2>1. content[current] \in [Edit -> Nat]
      BY <1>1 DEF QueueInv, TypeOK
    <2>2. [i \in Edit |-> IF merged[current] < i /\ i <= logged[current]
                          THEN content[current][i] + 1 ELSE content[current][i]]
          = Atomic!AAll(current)
      BY <1>1, <1>4, <2>1, SessionAssumption DEF Atomic!AAll, Edit
    <2> QED
      BY <1>1, <2>2 DEF Commit, QueueInv, TypeOK
  <1>6. Atomic!Apply(current)
    BY <1>1, <1>2, <1>3, <1>5 DEF Commit, Atomic!Apply, FateMap
  <1> QED
    BY <1>1, <1>6 DEF Atomic!ANext

(* The ways into queue/failed/ refuse sessions, or keep them applied.      *)
LEMMA FailureIsRefuse ==
  ASSUME QueueInv, NEW S \in SUBSET Session,
         \A s \in S : file[s] = "processing" /\ file'[s] = "failed",
         \A s \in Session \ S : file'[s] = file[s],
         UNCHANGED <<applied, logged, content>>
  PROVE  Atomic!ANext
  <1> DEFINE R == S \ applied
  <1>1. \A s \in R : Fate(s) = "queued"
    BY DEF Fate
  <1>2. FateMap' = [s \in Session |-> IF s \in R THEN "refused" ELSE FateMap[s]]
    <2> SUFFICES ASSUME NEW s \in Session
                 PROVE  Fate(s)' = IF s \in R THEN "refused" ELSE Fate(s)
      BY DEF FateMap
    <2>1. CASE s \in R
      BY <2>1 DEF Fate
    <2>2. CASE s \in applied
      BY <2>2 DEF Fate
    <2>3. CASE s \notin S
      BY <2>3 DEF Fate
    <2> QED
      BY <2>1, <2>2, <2>3
  <1>3. Atomic!Refuse(R)
    BY <1>1, <1>2 DEF Atomic!Refuse, FateMap
  <1>4. R \in SUBSET Session
    OBVIOUS
  <1> QED
    BY <1>3, <1>4 DEF Atomic!ANext

(* Every step of the queue is a step of AtomicMerge or a stutter.          *)
LEMMA StepImplementsAtomic ==
  ASSUME QueueInv, [Next]_vars
  PROVE  [Atomic!ANext]_(Atomic!avars)
  <1> USE DEF manager, merger, bounds
  <1>1. ASSUME NEW s \in Session, ManagerStep(s)
        PROVE  [Atomic!ANext]_(Atomic!avars)
    <2>1. CASE CreateFile(s) \/ GetOrCreate(s)
      BY <2>1, CreateStutters DEF GetOrCreate
    <2>2. CASE LogEdit(s)
      BY <2>2, EditIsWrite
    <2>3. CASE Register(s) \/ BeginEdit(s) \/ BeginSubmit(s) \/ SubmitFile(s)
               \/ AbandonFile(s) \/ WriteMemory(s)
      BY <2>3, FateStutters DEF Register, BeginEdit, BeginSubmit, SubmitFile,
                                AbandonFile, WriteMemory
    <2> QED
      BY <1>1, <2>1, <2>2, <2>3 DEF ManagerStep
  <1>2. ASSUME NEW s \in Session, Enqueue(s) \/ CollectorStep(s)
        PROVE  [Atomic!ANext]_(Atomic!avars)
    <2>1. CASE Enqueue(s)
      BY <2>1, EnqueueIsQueue
    <2>2. CASE Inspect(s)
      BY <2>2, FateStutters DEF Inspect
    <2>3. CASE Remove(s) \/ CleanQueue(s)
      BY <2>3, RemovalIsDiscard
    <2> QED
      BY <1>2, <2>1, <2>2, <2>3 DEF CollectorStep
  <1>3. CASE Poll \/ Refuse \/ MarkChanges \/ MarkMerged \/ LogMerge
    BY <1>3, FateStutters DEF Poll, Refuse, MarkChanges, MarkMerged, LogMerge
  <1>4. CASE Claim
    <2>1. PICK s \in batch :
             file' = [file EXCEPT ![s] = "processing"] \/ UNCHANGED file
      BY <1>4 DEF Claim
    <2>2. s \in Session /\ file[s] = "pending" /\ s \notin applied
      BY <2>1 DEF QueueInv, TypeOK, MergerInv, FileInv
    <2>3. UNCHANGED <<applied, logged, content>>
      BY <1>4 DEF Claim
    <2> QED
      BY <2>1, <2>2, <2>3 DEF QueueInv, TypeOK, Atomic!avars, Fate
  <1>5. CASE MoveToFailed
    <2>1. current \in Session /\ file[current] = "processing"
      BY <1>5 DEF QueueInv, MergerInv, Working, MoveToFailed
    <2>2. CASE UNCHANGED file
      BY <1>5, <2>2, FateStutters DEF MoveToFailed
    <2>3. CASE file' = [file EXCEPT ![current] = "failed"]
      <3>1. \A s \in {current} : file[s] = "processing" /\ file'[s] = "failed"
        BY <2>1, <2>3 DEF QueueInv, TypeOK
      <3>2. \A s \in Session \ {current} : file'[s] = file[s]
        BY <2>1, <2>3 DEF QueueInv, TypeOK
      <3> QED
        BY <1>5, <2>1, <3>1, <3>2, FailureIsRefuse DEF MoveToFailed
    <2> QED
      BY <1>5, <2>2, <2>3 DEF MoveToFailed
  <1>6. CASE Commit
    BY <1>6, CommitIsApply
  <1>7. CASE MoveToDone
    <2>1. /\ current \in Session /\ current \in applied
          /\ UNCHANGED <<applied, logged, content>>
          /\ file' \in {file, [file EXCEPT ![current] = "done"]}
      BY <1>7 DEF QueueInv, MergerInv, Finishing, MoveToDone
    <2> QED
      BY <2>1 DEF QueueInv, TypeOK, Atomic!avars, Fate
  <1>8. CASE Crash
    BY <1>8, FateStutters DEF Crash
  <1>9. CASE Restart
    <2>1. PICK S \in SUBSET Session :
             file' = [t \in Session |-> IF t \in S THEN "failed" ELSE file[t]]
             /\ \A t \in S : file[t] = "processing"
      <3>1. CASE file' = [s \in Session |->
                        IF file[s] = "processing" THEN "failed" ELSE file[s]]
        <4> WITNESS {s \in Session : file[s] = "processing"} \in SUBSET Session
        <4> QED
          BY <3>1
      <3>2. ASSUME NEW u \in Session,
                   file' = [t \in Session |->
                        IF t # u /\ file[t] = "processing"
                        THEN "failed" ELSE file[t]]
            PROVE  \E S \in SUBSET Session :
                      file' = [t \in Session |-> IF t \in S THEN "failed" ELSE file[t]]
                      /\ \A t \in S : file[t] = "processing"
        <4> WITNESS {s \in Session : s # u /\ file[s] = "processing"}
                    \in SUBSET Session
        <4> QED
          BY <3>2
      <3> QED
        BY <1>9, <3>1, <3>2 DEF Restart, Loaded
    <2>2. UNCHANGED <<applied, logged, content>>
      BY <1>9 DEF Restart, Loaded
    <2>3. \A s \in S : file[s] = "processing" /\ file'[s] = "failed"
      BY <2>1
    <2>4. \A s \in Session \ S : file'[s] = file[s]
      BY <2>1
    <2> QED
      BY <2>2, <2>3, <2>4, FailureIsRefuse
  <1>10. CASE UNCHANGED vars
    BY <1>10, FateStutters DEF vars
  <1> QED
    BY <1>1, <1>2, <1>3, <1>4, <1>5, <1>6, <1>7, <1>8, <1>9, <1>10
       DEF Next, MergerStep

(* The queue of files implements the transactional queue AtomicMerge.      *)
THEOREM QueueIsAtomic == Spec => ImplementsAtomicMerge
  <1>1. Init => Atomic!AInit
    BY DEF Init, Atomic!AInit, Atomic!ANone, Fate, Edit
  <1>2. QueueInv /\ [Next]_vars => [Atomic!ANext]_(Atomic!avars)
    BY StepImplementsAtomic
  <1> QED
    BY <1>1, <1>2, QueueInvariant, PTL DEF Spec, ImplementsAtomicMerge, Atomic!Spec

-----------------------------------------------------------------------------
(* Memory and files.  A call in flight knows its session, and a session    *)
(* that memory holds active is one the merger has not been given, except   *)
(* while the submission that made it available has yet to write to memory. *)
Editing == {"edit", "submit", "submitted", "abandoned"}

MemoryInv ==
    \A s \in Session :
        /\ file[s] = "none" =>
              meta[s] = "active" /\ known[s] = "absent"
              /\ \A p \in Point : At(p, s) \notin calls
        /\ At("created", s) \in calls =>
              known[s] = "absent" /\ meta[s] = "active"
              /\ file[s] \in {"sessions", "removed"}
        /\ \A p \in Editing : At(p, s) \in calls => known[s] # "absent"
        /\ known[s] = "active" =>
              \/ At("submitted", s) \in calls
              \/ file[s] \in {"sessions", "removed"}
                 /\ meta[s] \in {"active", "abandoned"}

(* Calls at different points, or on different sessions, are different.     *)
LEMMA CallsDiffer ==
  \A p, q, s, t : At(p, s) = At(q, t) <=> p = q /\ s = t
  BY DEF At

(* The manager's and the collector's steps keep MemoryInv.                 *)
LEMMA ManagerKeepsMemory ==
  ASSUME TypeOK, MemoryInv, NEW s \in Session,
         ManagerStep(s) \/ Enqueue(s) \/ Inspect(s) \/ Remove(s)
  PROVE  MemoryInv'
  <1> SUFFICES ASSUME NEW t \in Session
               PROVE  /\ file'[t] = "none" =>
                           meta'[t] = "active" /\ known'[t] = "absent"
                           /\ \A p \in Point : At(p, t) \notin calls'
                      /\ At("created", t) \in calls' =>
                           known'[t] = "absent" /\ meta'[t] = "active"
                           /\ file'[t] \in {"sessions", "removed"}
                      /\ \A p \in Editing : At(p, t) \in calls' => known'[t] # "absent"
                      /\ known'[t] = "active" =>
                           \/ At("submitted", t) \in calls'
                           \/ file'[t] \in {"sessions", "removed"}
                              /\ meta'[t] \in {"active", "abandoned"}
    BY DEF MemoryInv, At
  <1> USE CallsDiffer DEF MemoryInv, TypeOK, manager, merger, bounds, Point, Editing
  <1>1. CASE CreateFile(s) \/ GetOrCreate(s)
    <2>1. CreateFile(s)
      BY <1>1 DEF GetOrCreate
    <2> QED
      BY <2>1 DEF CreateFile, Begin
  <1>2. CASE Register(s)
    BY <1>2 DEF Register, Return
  <1>3. CASE BeginEdit(s)
    BY <1>3 DEF BeginEdit, Begin
  <1>4. CASE LogEdit(s)
    BY <1>4 DEF LogEdit, Return
  <1>5. CASE BeginSubmit(s)
    BY <1>5 DEF BeginSubmit, Begin
  <1>6. CASE SubmitFile(s)
    BY <1>6 DEF SubmitFile, Go, Return
  <1>7. CASE AbandonFile(s)
    BY <1>7 DEF AbandonFile, Begin
  <1>8. CASE WriteMemory(s)
    BY <1>8 DEF WriteMemory, Return
  <1>9. CASE Enqueue(s)
    BY <1>9 DEF Enqueue
  <1>10. CASE Inspect(s)
    BY <1>10 DEF Inspect, Begin
  <1>11. CASE Remove(s)
    BY <1>11 DEF Remove, Return
  <1> QED
    BY <1>1, <1>2, <1>3, <1>4, <1>5, <1>6, <1>7, <1>8, <1>9, <1>10, <1>11
       DEF ManagerStep

(* The merger and the queue's collection write files of the queue only.    *)
LEMMA QueueKeepsMemory ==
  ASSUME QueueInv, MemoryInv,
         MergerStep \/ \E s \in Session : CleanQueue(s)
  PROVE  MemoryInv'
  <1> USE DEF manager, merger, bounds
  <1>1. PICK s \in Session :
           /\ file[s] \in {"pending", "processing", "done", "failed"} \/ UNCHANGED <<file, meta>>
           /\ file'[s] # "none" \/ UNCHANGED <<file, meta>>
           /\ \A t \in Session \ {s} : file'[t] = file[t] /\ meta'[t] = meta[t]
           /\ UNCHANGED <<known, calls>>
    <2>1. CASE Poll
      BY <2>1 DEF Poll
    <2>2. CASE Claim
      <3>1. PICK s \in batch :
               file' = [file EXCEPT ![s] = "processing"] \/ UNCHANGED file
        BY <2>2 DEF Claim
      <3>2. s \in Session /\ file[s] = "pending"
        BY DEF QueueInv, TypeOK, MergerInv
      <3> QED
        BY <2>2, <3>1, <3>2 DEF Claim, QueueInv, TypeOK
    <2>3. CASE MergerStep /\ ~Poll /\ ~Claim
      <3>1. current \in Session /\ file[current] = "processing"
        BY <2>3 DEF QueueInv, MergerInv, Working, Finishing, MergerStep, Refuse,
             MoveToFailed, Commit, MarkChanges, MarkMerged, LogMerge, MoveToDone
      <3>2. /\ file' \in {file, [file EXCEPT ![current] = "done"],
                                [file EXCEPT ![current] = "failed"]}
            /\ meta' \in {meta, [meta EXCEPT ![current] = "conflict"],
                                [meta EXCEPT ![current] = "merged"]}
            /\ UNCHANGED <<known, calls>>
        BY <2>3 DEF MergerStep, Refuse, MoveToFailed, Commit, MarkChanges,
                    MarkMerged, LogMerge, MoveToDone
      <3> QED
        BY <3>1, <3>2 DEF QueueInv, TypeOK
    <2>4. ASSUME NEW s \in Session, CleanQueue(s)
          PROVE  /\ file[s] \in {"done", "failed"} /\ UNCHANGED <<meta, known, calls>>
                 /\ file' = [file EXCEPT ![s] = "removed"]
      BY <2>4 DEF CleanQueue
    <2> QED
      BY <2>1, <2>2, <2>3, <2>4 DEF QueueInv, TypeOK
  <1> QED
    BY <1>1 DEF MemoryInv, At

(* So do a crash and the manager's reload of sessions/.                    *)
LEMMA ProcessKeepsMemory ==
  ASSUME QueueInv, MemoryInv, Crash \/ Restart
  PROVE  MemoryInv'
  <1> USE DEF manager, merger, bounds
  <1>1. CASE Crash
    BY <1>1 DEF Crash, MemoryInv, Editing, At
  <1>2. CASE Restart
    <2>1. /\ known' = [s \in Session |->
                    IF file[s] = "sessions" THEN meta[s] ELSE "absent"]
          /\ calls = {} /\ UNCHANGED <<calls, meta>>
      BY <1>2 DEF Restart, Loaded, QueueInv, MergerInv
    <2>2. \A s \in Session : file'[s] = file[s]
                          \/ (file[s] = "processing" /\ file'[s] = "failed")
      BY <1>2, RestartMovesToFailed
    <2> QED
      BY <2>1, <2>2 DEF MemoryInv, Editing, At
  <1> QED
    BY <1>1, <1>2

(* MemoryInv is inductive, given the invariant of the queue.               *)
LEMMA NextMemoryInv == QueueInv /\ MemoryInv /\ [Next]_vars => MemoryInv'
  <1>1. ASSUME QueueInv, MemoryInv, UNCHANGED vars PROVE MemoryInv'
    BY <1>1 DEF MemoryInv, vars, manager, At
  <1> QED
    BY <1>1, ManagerKeepsMemory, QueueKeepsMemory, ProcessKeepsMemory
       DEF Next, CollectorStep, QueueInv

(* A session held active in memory is one whose file can still be edited,  *)
(* whatever Submit, Abandon and the restart of the process do to it.       *)
THEOREM ActiveSessionsHaveFiles == Spec => []ActiveHasFile
  <1>1. Init => MemoryInv
    BY DEF Init, MemoryInv, Editing, Point, At
  <1>2. QueueInv /\ MemoryInv /\ [Next]_vars => MemoryInv'
    BY NextMemoryInv
  <1>3. MemoryInv => ActiveHasFile
    BY DEF MemoryInv, ActiveHasFile
  <1> QED
    BY <1>1, <1>2, <1>3, QueueInvariant, PTL DEF Spec
=============================================================================
