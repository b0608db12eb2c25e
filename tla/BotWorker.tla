------------------------------ MODULE BotWorker ------------------------------
(***************************************************************************)
(* The bot worker of v2/pkg/bot: it polls content.db for bot_request       *)
(* blocks whose attribute "status" is "pending", asks the language model,  *)
(* writes the response into an editing session of its own, submits that    *)
(* session, and notes the outcome in the attribute.                        *)
(*                                                                         *)
(* Each of those is a statement of its own on the database; pages set the  *)
(* attribute and delete blocks at any time in between, and the end of the  *)
(* process, orderly or not, leaves the attribute as it is.  What becomes   *)
(* of a submitted session is the subject of SessionQueue.                  *)
(***************************************************************************)
EXTENDS Naturals, FiniteSets

CONSTANTS
    Request,        \* bot_request blocks; their order is that of created_at
    NoRequest,
    Malformed,      \* requests whose bot_config is not valid JSON
    MaxConcurrent,  \* LIMIT of the poll
    MaxAsks,        \* bound: how often a request is made pending
    MaxFaults,      \* bound: failed statements
    MaxCrashes      \* bound: ends of the process

ASSUME BotAssumption ==
    /\ Request \subseteq Nat /\ NoRequest \notin Request
    /\ Malformed \subseteq Request
    /\ MaxConcurrent \in Nat \ {0}
    /\ MaxAsks \in Nat /\ MaxFaults \in Nat /\ MaxCrashes \in Nat

VARIABLES
    status,   \* attrs.value of "status" of each request
    deleted,  \* requests with a deleted_at
    batch,    \* rows of the poll that are still to be read
    at,       \* where processRequest is
    current,  \* the request it works on
    answers,  \* history: sessions submitted with a response to each request
    asks,     \* how often each request was made pending
    faults, crashes  \* counters of the bounds

users  == <<deleted, asks>>
place  == <<batch, at, current>>
bounds == <<faults, crashes>>
vars   == <<status, users, place, answers, bounds>>

Status == {"none", "pending", "processing", "completed", "failed"}

Init ==
    /\ status  = [r \in Request |-> "none"]
    /\ deleted = {}
    /\ batch = {} /\ at = "idle" /\ current = NoRequest
    /\ answers = [r \in Request |-> 0]
    /\ asks    = [r \in Request |-> 0]
    /\ faults = 0 /\ crashes = 0

-----------------------------------------------------------------------------
(* Pages.                                                                  *)

\* any status may be overwritten, also while the request is processed
Ask(r) ==
    /\ asks[r] < MaxAsks /\ r \notin deleted
    /\ asks' = [asks EXCEPT ![r] = @ + 1]
    /\ status' = [status EXCEPT ![r] = "pending"]
    /\ UNCHANGED <<deleted, place, answers, bounds>>

\* a request may be taken back, also while the worker holds its row
Withdraw(r) ==
    /\ status[r] # "none"
    /\ status' = [status EXCEPT ![r] = "none"]
    /\ UNCHANGED <<users, place, answers, bounds>>

DeleteRequest(r) ==
    /\ r \notin deleted
    /\ deleted' = deleted \cup {r}
    /\ UNCHANGED <<status, asks, place, answers, bounds>>

-----------------------------------------------------------------------------
(* The worker.                                                             *)

Fault == faults < MaxFaults /\ faults' = faults + 1

Pending == {r \in Request : status[r] = "pending" /\ r \notin deleted}

Oldest(R, n) == {r \in R : Cardinality({q \in R : q < r}) < n}

\* a result set that is read while its first requests are processed
Poll ==
    /\ at = "idle" /\ batch = {} /\ Pending # {}
    /\ batch' = Oldest(Pending, MaxConcurrent)
    /\ UNCHANGED <<status, users, at, current, answers, bounds>>

Take ==
    /\ at = "idle"
    /\ \E r \in batch :
        /\ \A q \in batch : r <= q
        /\ batch' = batch \ {r}
        /\ current' = r
        /\ at' = IF r \in Malformed THEN "failing" ELSE "taken"
    /\ UNCHANGED <<status, users, answers, bounds>>

\* the next step if this one succeeds, failing if it does not
GoOn(from, to) == at = from /\ at' = to /\ UNCHANGED <<batch, current>>
Fail(from)     == GoOn(from, "failing") /\ Fault

Write(value) == status' = [status EXCEPT ![current] = value]

MarkProcessing ==
    /\ \/ GoOn("taken", "generating") /\ Write("processing") /\ UNCHANGED faults
       \/ Fail("taken") /\ UNCHANGED status
    /\ UNCHANGED <<users, answers, crashes>>

\* the model may refuse any request, which is no fault
Generate ==
    /\ GoOn("generating", "answering") \/ GoOn("generating", "failing")
    /\ UNCHANGED <<status, users, answers, bounds>>

\* createResponse up to Submit: the session is new, so its file is valid
InsertResponse ==
    /\ \/ GoOn("answering", "inserted") /\ UNCHANGED faults
       \/ Fail("answering")
    /\ UNCHANGED <<status, users, answers, crashes>>

\* an error of Submit that is logged and forgotten
SubmitOrWarn ==
    /\ \/ /\ GoOn("inserted", "submitted")
          /\ answers' = [answers EXCEPT ![current] = @ + 1]
          /\ UNCHANGED faults
       \/ GoOn("inserted", "submitted") /\ Fault /\ UNCHANGED answers
    /\ UNCHANGED <<status, users, crashes>>

Submit ==
    /\ \/ /\ GoOn("inserted", "submitted")
          /\ answers' = [answers EXCEPT ![current] = @ + 1]
          /\ UNCHANGED faults
       \/ Fail("inserted") /\ UNCHANGED answers
    /\ UNCHANGED <<status, users, crashes>>

Done == at' = "idle" /\ current' = NoRequest /\ UNCHANGED batch

MarkCompleted ==
    /\ at = "submitted"
    /\ \/ Done /\ Write("completed") /\ UNCHANGED faults
       \/ Fail("submitted") /\ UNCHANGED status
    /\ UNCHANGED <<users, answers, crashes>>

\* a failure that is only logged
LogFailure ==
    /\ at = "failing" /\ Done
    /\ UNCHANGED <<status, users, answers, bounds>>

\* a status that the schema does not list
MarkError ==
    /\ at = "failing" /\ Done /\ Write("error")
    /\ UNCHANGED <<users, answers, bounds>>

MarkFailed ==
    /\ at = "failing" /\ Done
    /\ \/ Write("failed") /\ UNCHANGED faults
       \/ Fault /\ UNCHANGED status
    /\ UNCHANGED <<users, answers, crashes>>

-----------------------------------------------------------------------------
(* The end of the process and its next start.  A cancelled context fails   *)
(* the statement in progress and markFailed with it, so that an orderly    *)
(* end leaves no more behind than a crash.                                 *)

\* a start that takes up what was being processed
CrashAndRetry ==
    /\ crashes < MaxCrashes /\ crashes' = crashes + 1
    /\ batch' = {} /\ at' = "idle" /\ current' = NoRequest
    /\ status' = [r \in Request |->
                     IF status[r] = "processing" THEN "pending" ELSE status[r]]
    /\ UNCHANGED <<users, answers, faults>>

Crash ==
    /\ crashes < MaxCrashes /\ crashes' = crashes + 1
    /\ batch' = {} /\ at' = "idle" /\ current' = NoRequest
    /\ UNCHANGED <<status, users, answers, faults>>

WorkerStep ==
    \/ Poll \/ Take \/ MarkProcessing \/ Generate \/ InsertResponse \/ Submit
    \/ MarkCompleted \/ MarkFailed

PageStep(r) == Ask(r) \/ Withdraw(r) \/ DeleteRequest(r)

Next ==
    \/ \E r \in Request : PageStep(r)
    \/ WorkerStep
    \/ Crash

(* Start polls at every tick, and the model answers or its context ends.   *)
Fairness == WF_vars(WorkerStep)

Spec     == Init /\ [][Next]_vars
FairSpec == Spec /\ Fairness

-----------------------------------------------------------------------------
TypeOK ==
    /\ status \in [Request -> Status]
    /\ deleted \subseteq Request
    /\ batch \subseteq Request
    /\ at \in {"idle", "taken", "generating", "answering", "inserted",
               "submitted", "failing"}
    /\ current \in IF at = "idle" THEN {NoRequest} ELSE Request
    /\ answers \in [Request -> Nat]
    /\ asks \in [Request -> 0 .. MaxAsks]
    /\ faults \in 0 .. MaxFaults /\ crashes \in 0 .. MaxCrashes

(* A request is answered at most as often as it was made pending, whatever *)
(* crashes and failed statements come between the answer and its status.   *)
AnsweredOnce == \A r \in Request : answers[r] <= asks[r]

(* A request is completed only if a session with a response was submitted. *)
CompletedHasAnswer ==
    \A r \in Request : status[r] = "completed" => answers[r] > 0

(* A request is left in "processing" only by the end of the process or by  *)
(* a statement that failed: no error of the model or of the configuration  *)
(* does so.                                                                *)
StuckOnlyByFault ==
    \A r \in Request :
        status[r] = "processing" /\ current # r => crashes > 0 \/ faults > 0

(* A pending request reaches an outcome, or somebody took it back, or it   *)
(* is left in "processing" as StuckOnlyByFault says; older requests and    *)
(* malformed ones do not hold it up for ever.                              *)
Served ==
    \A r \in Request :
        status[r] = "pending" ~>
            \/ status[r] \in {"completed", "failed", "none"} \/ r \in deleted
            \/ status[r] = "processing" /\ (crashes > 0 \/ faults > 0)
=============================================================================
