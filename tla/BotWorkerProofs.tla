--------------------------- MODULE BotWorkerProofs ---------------------------
(***************************************************************************)
(* Proofs about BotWorker, for any requests and any bounds.                *)
(*                                                                         *)
(* A request that somebody made pending is a right to one answer.  The     *)
(* worker holds it from the poll on, and a user who makes the request      *)
(* pending again meanwhile gives another one: Rights counts them.          *)
(***************************************************************************)
EXTENDS BotWorker, TLAPS

(* The answer to the current request is still to be submitted.             *)
Owing == {"taken", "generating", "answering", "inserted"}

(* The request has been marked, so that a pending status is a new one.     *)
Marked == {"generating", "answering", "inserted"}

Rights ==
    \A r \in Request :
        /\ answers[r] <= asks[r]
        /\ status[r] = "pending" \/ r \in batch => answers[r] < asks[r]
        /\ r = current /\ at \in Owing => answers[r] < asks[r]
        /\ r = current /\ at \in Marked /\ status[r] = "pending"
              => answers[r] + 1 < asks[r]
        /\ status[r] = "completed" => answers[r] > 0

Place ==
    /\ current \notin batch
    /\ at = "submitted" => answers[current] > 0

BotInv == TypeOK /\ Rights /\ Place

-----------------------------------------------------------------------------
(* The worker that has not started satisfies the invariant.                *)
LEMMA InitBotInv == Init => BotInv
  BY BotAssumption DEF Init, BotInv, TypeOK, Rights, Place, Status, Owing, Marked

(* A failed statement counts up to the bound.                              *)
LEMMA FaultTypes == TypeOK /\ (Fault \/ UNCHANGED faults) => faults' \in 0 .. MaxFaults
  BY BotAssumption DEF TypeOK, Fault

(* A step within a request keeps the worker's place well typed.            *)
LEMMA PlaceTypes ==
  ASSUME TypeOK, at # "idle", UNCHANGED <<batch, current>>,
         at' \in {"generating", "answering", "inserted", "submitted", "failing"}
  PROVE  /\ current \in Request /\ batch' \subseteq Request
         /\ at' \in {"idle", "taken", "generating", "answering", "inserted",
                     "submitted", "failing"}
         /\ current' \in IF at' = "idle" THEN {NoRequest} ELSE Request
  BY DEF TypeOK

(* What the worker does keeps the types.                                   *)
LEMMA NextTypeOK == TypeOK /\ [Next]_vars => TypeOK'
  <1> SUFFICES ASSUME TypeOK, [Next]_vars PROVE TypeOK'
    OBVIOUS
  <1> USE BotAssumption DEF Status, users, place, bounds, Write, Done
  <1>1. ASSUME NEW r \in Request, PageStep(r) PROVE TypeOK'
    <2>1. CASE Ask(r)
      BY <2>1 DEF Ask, TypeOK
    <2>2. CASE Withdraw(r)
      BY <2>2 DEF Withdraw, TypeOK
    <2>3. CASE DeleteRequest(r)
      BY <2>3 DEF DeleteRequest, TypeOK
    <2> QED
      BY <1>1, <2>1, <2>2, <2>3 DEF PageStep
  <1>2. CASE Poll
    BY <1>2 DEF Poll, Oldest, Pending, TypeOK
  <1>3. CASE Take
    BY <1>3 DEF Take, TypeOK
  <1>4. CASE MarkProcessing \/ Generate \/ InsertResponse \/ Submit
    <2>1. /\ at # "idle" /\ UNCHANGED <<batch, current>>
          /\ at' \in {"generating", "answering", "inserted", "submitted",
                      "failing"}
          /\ Fault \/ UNCHANGED faults
          /\ UNCHANGED <<deleted, asks, crashes>>
      BY <1>4 DEF MarkProcessing, Generate, InsertResponse, Submit, GoOn, Fail
    <2>2. status' \in {status, [status EXCEPT ![current] = "processing"]}
      BY <1>4 DEF MarkProcessing, Generate, InsertResponse, Submit
    <2>3. answers' \in {answers, [answers EXCEPT ![current] = @ + 1]}
      BY <1>4 DEF MarkProcessing, Generate, InsertResponse, Submit
    <2> QED
      BY <2>1, <2>2, <2>3, FaultTypes, PlaceTypes DEF TypeOK
  <1>5. CASE MarkCompleted \/ MarkFailed
    <2>1. /\ Fault \/ UNCHANGED faults
          /\ UNCHANGED <<batch, deleted, asks, answers, crashes>>
          /\ \/ at' = "idle" /\ current' = NoRequest
             \/ at' = "failing" /\ current' = current /\ at # "idle"
      BY <1>5 DEF MarkCompleted, MarkFailed, GoOn, Fail
    <2>2. status' \in {status, [status EXCEPT ![current] = "completed"],
                       [status EXCEPT ![current] = "failed"]}
      BY <1>5 DEF MarkCompleted, MarkFailed
    <2> QED
      BY <2>1, <2>2, FaultTypes DEF TypeOK
  <1>6. CASE Crash
    BY <1>6 DEF Crash, TypeOK
  <1>7. CASE UNCHANGED vars
    BY <1>7 DEF vars, TypeOK
  <1> QED
    BY <1>1, <1>2, <1>3, <1>4, <1>5, <1>6, <1>7 DEF Next, WorkerStep

(* Pages give rights and take none that the worker counts on.              *)
LEMMA PagesKeepRights ==
  ASSUME BotInv, NEW r \in Request, PageStep(r)
  PROVE  Rights' /\ Place'
  <1> USE BotAssumption DEF BotInv, TypeOK, Rights, Place, Owing, Marked, users,
                            place, bounds
  <1>1. CASE Ask(r)
    BY <1>1 DEF Ask
  <1>2. CASE Withdraw(r)
    BY <1>2 DEF Withdraw
  <1>3. CASE DeleteRequest(r)
    BY <1>3 DEF DeleteRequest
  <1> QED
    BY <1>1, <1>2, <1>3 DEF PageStep

(* The worker uses a right when it submits an answer, and no other.        *)
LEMMA WorkerKeepsRights ==
  ASSUME BotInv, WorkerStep
  PROVE  Rights' /\ Place'
  <1> USE BotAssumption DEF BotInv, TypeOK, Rights, Place, Owing, Marked, users,
                            place, bounds, GoOn, Fail, Fault, Write, Done
  <1>1. CASE Poll
    BY <1>1 DEF Poll, Oldest, Pending
  <1>2. CASE Take
    BY <1>2 DEF Take
  <1>3. CASE MarkProcessing
    BY <1>3 DEF MarkProcessing
  <1>4. CASE Generate
    BY <1>4 DEF Generate
  <1>5. CASE InsertResponse
    BY <1>5 DEF InsertResponse
  <1>6. CASE Submit
    <2>1. current \in Request
      BY <1>6 DEF Submit
    <2>2. CASE Fail("inserted") /\ UNCHANGED <<status, answers>>
      BY <1>6, <2>2 DEF Submit
    <2>3. CASE GoOn("inserted", "submitted") /\ UNCHANGED status
               /\ answers' = [answers EXCEPT ![current] = @ + 1]
      <3>1. answers'[current] = answers[current] + 1
        BY <2>1, <2>3
      <3>2. \A r \in Request \ {current} : answers'[r] = answers[r]
        BY <2>3
      <3> QED
        BY <1>6, <2>1, <2>3, <3>1, <3>2 DEF Submit
    <2> QED
      BY <1>6, <2>2, <2>3 DEF Submit
  <1>7. CASE MarkCompleted
    BY <1>7 DEF MarkCompleted
  <1>8. CASE MarkFailed
    BY <1>8 DEF MarkFailed
  <1> QED
    BY <1>1, <1>2, <1>3, <1>4, <1>5, <1>6, <1>7, <1>8 DEF WorkerStep

(* The invariant is inductive; a crash forgets rights, but makes none.     *)
LEMMA NextBotInv == BotInv /\ [Next]_vars => BotInv'
  <1> SUFFICES ASSUME BotInv, [Next]_vars PROVE Rights' /\ Place'
    BY NextTypeOK DEF BotInv
  <1>1. CASE Crash
    BY <1>1, BotAssumption DEF Crash, BotInv, TypeOK, Rights, Place, Owing,
         Marked, users
  <1>2. CASE UNCHANGED vars
    BY <1>2 DEF vars, users, place, bounds, BotInv, Rights, Place
  <1> QED
    BY <1>1, <1>2, PagesKeepRights, WorkerKeepsRights DEF Next

(* The worker holds no answer it has no right to give, in any state.       *)
THEOREM BotInvariant == Spec => []BotInv
  BY InitBotInv, NextBotInv, PTL DEF Spec

(* The worker holds a request exactly while it is in one, the requests of  *)
(* its poll exist, and no counter leaves its bound.                        *)
THEOREM WorkerTypes == Spec => []TypeOK
  <1>1. BotInv => TypeOK
    BY DEF BotInv
  <1> QED
    BY <1>1, BotInvariant, PTL

(* A request is answered at most as often as somebody made it pending,     *)
(* whatever fails, ends or is overwritten between the answer and its status*)
THEOREM AnswersAreAskedFor == Spec => []AnsweredOnce
  <1>1. BotInv => AnsweredOnce
    BY DEF BotInv, Rights, AnsweredOnce
  <1> QED
    BY <1>1, BotInvariant, PTL

(* A request is marked completed only after a response was submitted.      *)
THEOREM CompletedIsAnswered == Spec => []CompletedHasAnswer
  <1>1. BotInv => CompletedHasAnswer
    BY DEF BotInv, Rights, CompletedHasAnswer
  <1> QED
    BY <1>1, BotInvariant, PTL

(* A request without a worker is in "processing" only after a fault or an  *)
(* end of the process; the worker marks one request at a time.             *)
THEOREM ProcessingIsWorkedOn == Spec => []StuckOnlyByFault
  <1> DEFINE
        Held == /\ crashes \in Nat /\ faults \in Nat
                /\ \A r \in Request :
                     status[r] = "processing" =>
                        \/ crashes > 0 \/ faults > 0
                        \/ r = current /\ at \in {"generating", "answering",
                              "inserted", "submitted", "failing"}
        Inv  == BotInv /\ Held
  <1>1. Init => Held
    BY BotAssumption DEF Init
  <1>2. ASSUME BotInv, Held, [Next]_vars
        PROVE  Held'
    <2> USE <1>2, BotAssumption DEF BotInv, TypeOK, users, place, bounds, GoOn,
            Fail, Fault, Write, Done
    <2>1. ASSUME NEW r \in Request, PageStep(r) PROVE Held'
      BY <2>1 DEF PageStep, Ask, Withdraw, DeleteRequest
    <2>2. CASE Poll \/ Take
      BY <2>2 DEF Poll, Take
    <2>3. CASE MarkProcessing
      BY <2>3 DEF MarkProcessing
    <2>4. CASE Generate
      BY <2>4 DEF Generate
    <2>5. CASE InsertResponse
      BY <2>5 DEF InsertResponse
    <2>6. CASE Submit
      BY <2>6 DEF Submit
    <2>7. CASE MarkCompleted
      BY <2>7 DEF MarkCompleted
    <2>8. CASE MarkFailed
      BY <2>8 DEF MarkFailed
    <2>9. CASE Crash
      BY <2>9 DEF Crash
    <2>10. CASE UNCHANGED vars
      BY <2>10 DEF vars
    <2> QED
      BY <2>1, <2>2, <2>3, <2>4, <2>5, <2>6, <2>7, <2>8, <2>9, <2>10
         DEF Next, WorkerStep
  <1>3. BotInv /\ Held => StuckOnlyByFault
    BY DEF StuckOnlyByFault
  <1> QED
    BY <1>1, <1>2, <1>3, BotInvariant, PTL DEF Spec
=============================================================================
