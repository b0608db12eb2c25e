-------------------------------- MODULE Pages --------------------------------
(***************************************************************************)
(* Requests for SQL pages: pkg/server (v1) or the SQLPageHandler of        *)
(* cmd/gopage-v2 (v2) over pkg/engine and pkg/db.  A page is a file of     *)
(* blocks of SQL.  A POST runs its blocks on the only writer connection, a *)
(* GET on one of a pool of readers.  v1 puts a POST in a transaction; v2   *)
(* does not, so each of its statements commits by itself.                  *)
(*                                                                         *)
(* SQL functions run inside a statement.  They may panic, and http_get or  *)
(* http_post may ask the same server for another page while the statement, *)
(* and with it the connection, waits for the answer.                       *)
(*                                                                         *)
(* What the statements write is abstracted to who wrote it: <<r, k>> is    *)
(* the effect of block k of request r.  A page may read, write or call.    *)
(***************************************************************************)
EXTENDS Naturals, Sequences, FiniteSets

CONSTANTS
    Request,      \* requests, numbered in the order they are asked
    Job,          \* what may be asked: a method and the blocks of a page
    ReaderCount,  \* db.Config.ReaderCount
    Nobody,       \* no request
    Closer,       \* db.Close
    MaxFaults,    \* bound: failed statements and connections
    MaxPanics     \* bound: panics of SQL functions

ASSUME PagesAssumption ==
    /\ Request \subseteq Nat
    /\ Nobody \notin Request /\ Closer \notin Request /\ Nobody # Closer
    /\ ReaderCount \in Nat \ {0}
    /\ MaxFaults \in Nat /\ MaxPanics \in Nat
    /\ \A j \in Job :
          /\ j.method \in {"GET", "POST"}
          /\ j.blocks \in Seq(Seq({"read", "write", "call"}) \ {<<>>})

VARIABLES
    server,   \* "v1" or "v2"
    process,  \* "up", "stopping", "closing" (db.Close has the writer) or "gone"
    req,      \* where each request is
    there,    \* the requests whose client still waits for the answer
    holder,   \* who holds writerMu
    readers,  \* who holds a reader
    db,       \* what is committed
    inTx,     \* the writer connection is in a transaction
    draft,    \* what the transaction has written
    victims,  \* history: requests refused because of another's transaction
    faults, panics  \* counters of the bounds

tx     == <<inTx, draft>>
conns  == <<holder, readers>>
bounds == <<faults, panics>>
vars   == <<server, process, req, there, conns, db, tx, victims, bounds>>

(* step: the block that comes next; from: who asked, a request or a user.  *)
Unasked == [at |-> "idle", method |-> "GET", blocks |-> <<>>, step |-> 1,
            from |-> Nobody]

Init ==
    /\ server \in {"v1", "v2"} /\ process = "up"
    /\ req = [r \in Request |-> Unasked] /\ there = {}
    /\ holder = Nobody /\ readers = {}
    /\ db = {} /\ inTx = FALSE /\ draft = {}
    /\ victims = 0 /\ faults = 0 /\ panics = 0

-----------------------------------------------------------------------------
At(r, where) == req[r].at = where
Goto(r, where) == req' = [req EXCEPT ![r].at = where]

Post(r) == req[r].method = "POST"
InTx(r) == server = "v1" /\ Post(r)
Fault   == faults < MaxFaults /\ faults' = faults + 1

Over(r) == req[r].at \in {"done", "failed", "lost"}

\* The parser cuts the file into blocks, one per annotation.
Block(r)   == req[r].blocks[req[r].step]
MoreOf(r)  == At(r, "running") /\ req[r].step <= Len(req[r].blocks)
NoMore(r)  == At(r, "running") /\ req[r].step > Len(req[r].blocks)

\* PrepareTransient compiles the first statement of a block; Execute drops
\* the rest.
Runs(block) == Head(block)

GoOn(r) == req' = [req EXCEPT ![r].at = "running", ![r].step = @ + 1]

Rollback == inTx' = FALSE /\ draft' = {}

\* the deferred release
Release(r) ==
    /\ holder' = IF holder = r THEN Nobody ELSE holder
    /\ readers' = readers \ {r}

-----------------------------------------------------------------------------
(* Users.                                                                  *)
\* v2 stops listening first; v1 listens until the process ends.
Accepting == process = "up" \/ (server = "v1" /\ process # "gone")

Asked(j, from) ==
    [at |-> "waiting", method |-> j.method, blocks |-> j.blocks, step |-> 1,
     from |-> from]

IsNext(r) == At(r, "idle") /\ \A q \in Request : q < r => ~At(q, "idle")

Ask(r) ==
    /\ Accepting /\ IsNext(r)
    /\ \E j \in Job : req' = [req EXCEPT ![r] = Asked(j, Nobody)]
    /\ there' = there \cup {r}
    /\ UNCHANGED <<server, process, conns, db, tx, victims, bounds>>

\* A user closes the page: the context of the request is cancelled.  For a
\* POST that changes nothing, as nothing on its way looks at the context.
GoAway(r) ==
    /\ r \in there /\ ~Post(r) /\ req[r].from = Nobody /\ ~Over(r)
    /\ there' = there \ {r}
    /\ UNCHANGED <<server, process, req, conns, db, tx, victims, bounds>>

-----------------------------------------------------------------------------
(* Connections.  Writer ignores the context, Reader does not.              *)
TakeWriter(r) ==
    /\ At(r, "waiting") /\ Post(r) /\ holder = Nobody
    /\ holder' = r
    /\ Goto(r, IF InTx(r) THEN "begin" ELSE "running")
    /\ UNCHANGED <<server, process, there, readers, db, tx, victims, bounds>>

TakeAnyReader(r) ==
    /\ At(r, "waiting") /\ ~Post(r) /\ process # "closing"
    /\ readers' = readers \cup {r}
    /\ Goto(r, "running")
    /\ UNCHANGED <<server, process, there, holder, db, tx, victims, bounds>>

TakeReader(r) ==
    /\ At(r, "waiting") /\ ~Post(r) /\ process # "closing"
    /\ Cardinality(readers) < ReaderCount
    /\ readers' = readers \cup {r}
    /\ Goto(r, "running")
    /\ UNCHANGED <<server, process, there, holder, db, tx, victims, bounds>>

\* The client has gone, the pool is closed, or the functions cannot be
\* registered with a connection.
Unavailable(r) ==
    /\ At(r, "waiting") /\ ~Post(r)
    /\ \/ (r \notin there \/ process = "closing") /\ UNCHANGED faults
       \/ Cardinality(readers) < ReaderCount /\ Fault
    /\ Goto(r, "refusing")
    /\ UNCHANGED <<server, process, there, conns, db, tx, victims, panics>>

-----------------------------------------------------------------------------
(* The transaction of a POST of v1.                                        *)
BeginAnyway(r) ==
    /\ At(r, "begin")
    /\ inTx' = TRUE /\ Goto(r, "running")
    /\ UNCHANGED <<server, process, there, conns, db, draft, victims, bounds>>

Begin(r) ==
    /\ At(r, "begin") /\ ~inTx
    /\ inTx' = TRUE /\ Goto(r, "running")
    /\ UNCHANGED <<server, process, there, conns, db, draft, victims, bounds>>

BeginFailsInTx(r) ==
    /\ At(r, "begin")
    /\ \/ inTx /\ victims' = victims + 1 /\ UNCHANGED faults
       \/ ~inTx /\ Fault /\ UNCHANGED victims
    /\ Goto(r, "refusing")
    /\ UNCHANGED <<server, process, there, conns, db, tx, panics>>

\* BEGIN fails in the transaction a panic has left, which is rolled back.
BeginFails(r) ==
    /\ At(r, "begin")
    /\ \/ inTx /\ victims' = victims + 1 /\ UNCHANGED faults
       \/ ~inTx /\ Fault /\ UNCHANGED victims
    /\ Rollback /\ Goto(r, "refusing")
    /\ UNCHANGED <<server, process, there, conns, db, panics>>

\* BEGIN is not even prepared: nothing is rolled back.
BeginUnprepared(r) ==
    /\ At(r, "begin") /\ Fault
    /\ Goto(r, "refusing")
    /\ UNCHANGED <<server, process, there, conns, db, tx, victims, panics>>

Commit(r) ==
    /\ NoMore(r) /\ InTx(r)
    /\ db' = db \cup draft /\ Rollback
    /\ Goto(r, "rendering")
    /\ UNCHANGED <<server, process, there, conns, victims, bounds>>

CommitFails(r) ==
    /\ NoMore(r) /\ InTx(r)
    /\ Fault /\ Rollback /\ Goto(r, "refusing")
    /\ UNCHANGED <<server, process, there, conns, db, victims, panics>>

-----------------------------------------------------------------------------
(* The statements of a page.                                               *)
Write(r) ==
    IF InTx(r) THEN draft' = draft \cup {<<r, req[r].step>>} /\ UNCHANGED db
               ELSE db' = db \cup {<<r, req[r].step>>} /\ UNCHANGED draft

Statement(r) ==
    /\ MoreOf(r)
    /\ \/ Runs(Block(r)) = "read" /\ UNCHANGED <<db, draft>>
       \/ Runs(Block(r)) = "write" /\ Post(r) /\ Write(r)
    /\ GoOn(r)
    /\ UNCHANGED <<server, process, there, conns, inTx, victims, bounds>>

\* Readers are read-only, and interrupted when the client leaves or the
\* pool closes.
Interrupted(r) == ~Post(r) /\ (r \notin there \/ process = "closing")
Forbidden(r)   == ~Post(r) /\ Runs(Block(r)) = "write"

FailStatement(r) ==
    /\ MoreOf(r)
    /\ \/ (Interrupted(r) \/ Forbidden(r)) /\ UNCHANGED faults
       \/ Fault
    /\ IF InTx(r) THEN Rollback ELSE UNCHANGED tx
    /\ Goto(r, "refusing")
    /\ UNCHANGED <<server, process, there, conns, db, victims, panics>>

\* Recoverer answers; the deferred calls finalize the statement, which may
\* have written, and release the connection.  Nothing ends the transaction.
Panic(r) ==
    /\ MoreOf(r) /\ panics < MaxPanics /\ panics' = panics + 1
    /\ \/ UNCHANGED <<db, draft>>
       \/ Runs(Block(r)) = "write" /\ Post(r) /\ Write(r)
    /\ Release(r) /\ Goto(r, "failed")
    /\ UNCHANGED <<server, process, there, inTx, victims, faults>>

-----------------------------------------------------------------------------
(* A statement that asks this server, or another one, for a page.          *)
Calls(r) == MoreOf(r) /\ Runs(Block(r)) = "call"

Call(r) ==
    /\ Calls(r) /\ Accepting
    /\ \E q \in Request, j \in Job :
          /\ IsNext(q)
          /\ req' = [req EXCEPT ![q] = Asked(j, r), ![r].at = "calling"]
          /\ there' = there \cup {q}
    /\ UNCHANGED <<server, process, conns, db, tx, victims, bounds>>

\* Another server answers, or the call fails: the function returns ''.
CallElsewhere(r) ==
    /\ Calls(r) /\ GoOn(r)
    /\ UNCHANGED <<server, process, there, conns, db, tx, victims, bounds>>

Callee(r) == CHOOSE q \in there : req[q].from = r

Answer(r) ==
    /\ At(r, "calling") /\ Over(Callee(r))
    /\ there' = there \ {Callee(r)} /\ GoOn(r)
    /\ UNCHANGED <<server, process, conns, db, tx, victims, bounds>>

NoTimeOut(r) == Answer(r)

\* The client gives up after 30 seconds; the page it has asked for goes on.
TimeOut(r) ==
    /\ At(r, "calling")
    /\ there' = there \ {Callee(r)} /\ GoOn(r)
    /\ UNCHANGED <<server, process, conns, db, tx, victims, bounds>>

-----------------------------------------------------------------------------
(* The answer: the connection is held until the client has read it.        *)
Finish(r) ==
    /\ NoMore(r) /\ ~InTx(r)
    /\ Goto(r, "rendering")
    /\ UNCHANGED <<server, process, there, conns, db, tx, victims, bounds>>

Render(r) ==
    /\ \/ At(r, "rendering") /\ Goto(r, "done")
       \/ At(r, "refusing") /\ Goto(r, "failed")
    /\ Release(r)
    /\ UNCHANGED <<server, process, there, db, tx, victims, bounds>>

-----------------------------------------------------------------------------
(* The process.                                                            *)
Signal ==
    /\ process = "up" /\ process' = "stopping"
    /\ UNCHANGED <<server, req, there, conns, db, tx, victims, bounds>>

\* db.Close locks the writer and closes its connection ...
CloseWriter ==
    /\ process = "stopping" /\ holder = Nobody
    /\ process' = "closing" /\ holder' = Closer /\ Rollback
    /\ UNCHANGED <<server, req, there, readers, db, victims, bounds>>

End ==
    /\ process' = "gone"
    /\ req' = [r \in Request |->
                  IF Over(r) \/ At(r, "idle") THEN req[r]
                  ELSE [req[r] EXCEPT !.at = "lost"]]
    /\ there' = {} /\ holder' = Nobody /\ readers' = {}
    /\ Rollback
    /\ UNCHANGED <<server, db, victims, bounds>>

\* ... and then waits until every reader is back.
CloseReaders == process = "closing" /\ readers = {} /\ End

Crash == process # "gone" /\ End

-----------------------------------------------------------------------------
(* What a handler does without a user.                                     *)
Handle(r) ==
    \/ TakeWriter(r) \/ TakeReader(r) \/ Unavailable(r)
    \/ Begin(r) \/ BeginFails(r) \/ BeginUnprepared(r)
    \/ Commit(r) \/ CommitFails(r)
    \/ Statement(r) \/ FailStatement(r) \/ Panic(r)
    \/ Call(r) \/ CallElsewhere(r) \/ Answer(r) \/ TimeOut(r)
    \/ Finish(r) \/ Render(r)

Close == CloseWriter \/ CloseReaders

Next ==
    \/ \E r \in Request : Ask(r) \/ GoAway(r) \/ Handle(r)
    \/ Signal \/ Close \/ Crash

Spec == Init /\ [][Next]_vars

(* Handlers go on; calls of the server to itself end after 30 seconds; the *)
(* client of an answer reads it or breaks the connection; main waits for   *)
(* Close.  Requests are finitely many and none goes back, so that fairness *)
(* of the handlers together reaches each of them.  Nobody need ask, leave  *)
(* or end the process.                                                     *)
FairSpec ==
    Spec /\ WF_vars(Close) /\ WF_vars(\E r \in Request : Handle(r))

-----------------------------------------------------------------------------
Where == {"idle", "waiting", "begin", "running", "calling", "rendering",
          "refusing", "done", "failed", "lost"}

TypeOK ==
    /\ server \in {"v1", "v2"}
    /\ process \in {"up", "stopping", "closing", "gone"}
    /\ \A r \in Request :
          /\ req[r].at \in Where
          /\ req[r].step \in 1 .. Len(req[r].blocks) + 1
          /\ req[r].from \in Request \cup {Nobody}
    /\ there \subseteq Request
    /\ holder \in Request \cup {Nobody, Closer}
    /\ readers \subseteq Request /\ Cardinality(readers) <= ReaderCount
    /\ db \subseteq Request \X Nat /\ draft \subseteq Request \X Nat
    /\ draft # {} => inTx
    /\ inTx \in BOOLEAN /\ (inTx => server = "v1")
    /\ faults \in 0 .. MaxFaults /\ panics \in 0 .. MaxPanics

\* the blocks of r that write, and those whose writes are in db
Writing(r) ==
    {k \in DOMAIN req[r].blocks : Post(r) /\ Runs(req[r].blocks[k]) = "write"}
Written(r) == {k \in DOMAIN req[r].blocks : <<r, k>> \in db}

(* What a POST wrote is in the database as a whole or not at all (v1), or  *)
(* up to some block (v2), whatever fails, panics, calls or ends between    *)
(* its statements; and the answer tells which: nothing of a page that is   *)
(* answered with an error stays (v1), everything of one that is rendered.  *)
AllOrNothing ==
    \A r \in Request :
        /\ server = "v1" => Written(r) = {} \/ Written(r) = Writing(r)
        /\ server = "v2" =>
              \E k \in 0 .. Len(req[r].blocks) :
                 Written(r) = {i \in Writing(r) : i <= k}
        /\ At(r, "done") => Written(r) = Writing(r)
        /\ server = "v1" /\ At(r, "failed") => Written(r) = {}

(* A page that panics in its transaction costs at most one other request:  *)
(* the one that finds the transaction open is refused and rolls it back.   *)
OneVictim == victims <= panics

(* Every request is answered, although pages hold their connection while   *)
(* they ask the server for pages that need one; and a signal ends the      *)
(* process, although Close waits for the writer and for every reader: the  *)
(* server comes to rest again and again.                                   *)
AtRest ==
    /\ \A r \in Request : At(r, "idle") \/ Over(r)
    /\ process \in {"up", "gone"}

Progress == []<>AtRest
=============================================================================
