----------------------------- MODULE PagesProofs -----------------------------
(***************************************************************************)
(* Proofs about Pages, for any requests, pages, readers and bounds.        *)
(*                                                                         *)
(* The writer belongs to the POST that holds writerMu.  An open            *)
(* transaction is the holder's, with the writes of the blocks it has run,  *)
(* or was left by a panic; the latter is counted against the panics until  *)
(* a BEGIN fails and rolls it back.                                        *)
(***************************************************************************)
EXTENDS Pages, FiniteSetTheorems, TLAPS

Op == {"read", "write", "call"}

ReqType == [at : Where, method : {"GET", "POST"}, blocks : Seq(Seq(Op) \ {<<>>}),
            step : Nat, from : Request \cup {Nobody}]

Types ==
    /\ server \in {"v1", "v2"}
    /\ req \in [Request -> ReqType]
    /\ \A r \in Request : req[r].step \in 1 .. Len(req[r].blocks) + 1
    /\ there \subseteq Request
    /\ process \in {"up", "stopping", "closing", "gone"}
    /\ db \subseteq Request \X Nat /\ draft \subseteq Request \X Nat
    /\ inTx \in BOOLEAN
    /\ victims \in Nat /\ faults \in 0 .. MaxFaults /\ panics \in 0 .. MaxPanics

(* The readers that are lent out are finitely many and no more than there  *)
(* are.                                                                    *)
Pool ==
    /\ readers \subseteq Request /\ IsFiniteSet(readers)
    /\ Cardinality(readers) <= ReaderCount

(* A POST holds the writer from the time it gets it to its answer.         *)
Holding == {"begin", "running", "calling", "rendering", "refusing"}

Holder ==
    /\ holder \in Request \cup {Nobody, Closer}
    /\ \A r \in Request : holder = r <=> Post(r) /\ req[r].at \in Holding

(* The transaction is that of a page that runs, or nobody's.               *)
InStatements(r) == InTx(r) /\ req[r].at \in {"running", "calling"}

TransactionOf(r) ==
    /\ At(r, "begin") => InTx(r)
    /\ req[r].at \in {"waiting", "begin"} => req[r].step = 1
    /\ At(r, "calling") =>
          req[r].step <= Len(req[r].blocks) /\ Runs(Block(r)) = "call"
    /\ InTx(r) /\ At(r, "rendering") => ~inTx
    /\ InStatements(r) => inTx
    /\ InStatements(r) => \A q \in Request, k \in Nat :
          <<q, k>> \in draft <=> q = r /\ k \in Writing(r) /\ k < req[r].step

Transaction ==
    /\ ~inTx => draft = {}
    /\ inTx => server = "v1"
    /\ \A r \in Request : TransactionOf(r)

(* What each request has written for good.                                 *)
None(r)    == \A k \in Nat : <<r, k>> \notin db
Upto(r, n) == \A k \in Nat : <<r, k>> \in db <=> k \in Writing(r) /\ k < n
All(r)     == \A k \in Nat : <<r, k>> \in db <=> k \in Writing(r)

DatabaseOf(r) ==
    /\ req[r].at \in {"idle", "waiting", "begin"} => None(r)
    /\ req[r].at \in {"rendering", "done"} => All(r)
    /\ server = "v1" =>
          /\ req[r].at \in {"running", "calling", "refusing", "failed"} => None(r)
          /\ At(r, "lost") => None(r) \/ All(r)
    /\ server = "v2" =>
          /\ req[r].at \in {"running", "calling"} => Upto(r, req[r].step)
          /\ req[r].at \in {"refusing", "failed", "lost"} =>
                \E n \in Nat : Upto(r, n)

Database == \A r \in Request : DatabaseOf(r)

(* A transaction that was left behind has not had its victim yet.          *)
LeftOpen == inTx /\ \A r \in Request : ~InStatements(r)

Victims == victims <= panics /\ (LeftOpen => victims < panics)

PagesInv == Types /\ Pool /\ Holder /\ Transaction /\ Database /\ Victims

-----------------------------------------------------------------------------
(* Where a request is changes, and nothing else of it.                     *)
LEMMA Moved ==
  ASSUME Types, NEW r \in Request, NEW w \in Where, Goto(r, w)
  PROVE  /\ req' \in [Request -> ReqType]
         /\ \A q \in Request : q # r => req'[q] = req[q]
         /\ req'[r].at = w
         /\ \A q \in Request : /\ req'[q].method = req[q].method
                               /\ req'[q].blocks = req[q].blocks
                               /\ req'[q].step = req[q].step
                               /\ req'[q].from = req[q].from
  <1> DEFINE s == [req[r] EXCEPT !.at = w]
  <1>1. req' = [req EXCEPT ![r] = s]
    BY DEF Goto
  <1>2. req[r] \in ReqType
    BY DEF Types
  <1>3. /\ s \in ReqType
        /\ s.at = w
        /\ s.method = req[r].method
        /\ s.blocks = req[r].blocks
        /\ s.step = req[r].step
        /\ s.from = req[r].from
    BY <1>2 DEF ReqType
  <1> HIDE DEF s
  <1> QED
    BY <1>1, <1>3 DEF Types

(* The next block comes.                                                   *)
LEMMA WentOn ==
  ASSUME Types, NEW r \in Request, GoOn(r), req[r].step <= Len(req[r].blocks)
  PROVE  /\ req' \in [Request -> ReqType]
         /\ \A q \in Request : q # r => req'[q] = req[q]
         /\ req'[r].at = "running" /\ req'[r].step = req[r].step + 1
         /\ req'[r].step \in 1 .. Len(req[r].blocks) + 1
         /\ \A q \in Request : /\ req'[q].method = req[q].method
                               /\ req'[q].blocks = req[q].blocks
                               /\ req'[q].from = req[q].from
  <1> DEFINE s == [req[r] EXCEPT !.at = "running", !.step = req[r].step + 1]
  <1>1. req' = [req EXCEPT ![r] = s]
    BY DEF GoOn
  <1>2. req[r] \in ReqType /\ req[r].step \in Nat
    BY DEF Types, ReqType
  <1>3. "running" \in Where /\ req[r].step + 1 \in Nat
    BY <1>2 DEF Where
  <1>4. /\ s \in ReqType
        /\ s.at = "running" /\ s.step = req[r].step + 1
        /\ s.method = req[r].method
        /\ s.blocks = req[r].blocks
        /\ s.from = req[r].from
    BY <1>2, <1>3 DEF ReqType
  <1>5. Len(req[r].blocks) \in Nat
    BY <1>2 DEF ReqType
  <1>6. req[r].step + 1 \in 1 .. Len(req[r].blocks) + 1
    BY <1>2, <1>5
  <1> HIDE DEF s
  <1> QED
    BY <1>1, <1>4, <1>6 DEF Types

(* A request that is asked is well formed and waits for its connection.    *)
LEMMA AskedIsRequest ==
  ASSUME NEW j \in Job, NEW f \in Request \cup {Nobody}
  PROVE  /\ Asked(j, f) \in ReqType
         /\ Asked(j, f).at = "waiting"
         /\ Asked(j, f).step \in 1 .. Len(Asked(j, f).blocks) + 1
  <1>1. j.method \in {"GET", "POST"} /\ j.blocks \in Seq(Seq(Op) \ {<<>>})
    BY PagesAssumption DEF Op
  <1>2. Len(j.blocks) \in Nat
    BY <1>1
  <1> QED
    BY <1>1, <1>2 DEF Asked, ReqType, Where

(* Faults and panics are counted up to their bounds.                       *)
LEMMA Counted ==
  ASSUME Types
  PROVE  /\ Fault => faults' \in 0 .. MaxFaults
         /\ panics < MaxPanics /\ panics' = panics + 1 => panics' \in 0 .. MaxPanics
  BY PagesAssumption DEF Types, Fault

(* A request that only moves keeps the types of the requests.              *)
LEMMA MovedTypes ==
  ASSUME Types, NEW r \in Request, NEW w \in Where, Goto(r, w)
  PROVE  /\ req' \in [Request -> ReqType]
         /\ \A q \in Request : req'[q].step \in 1 .. Len(req'[q].blocks) + 1
  BY Moved DEF Types

(* So does one that goes on to its next block.                             *)
LEMMA WentOnTypes ==
  ASSUME Types, NEW r \in Request, GoOn(r), req[r].step <= Len(req[r].blocks)
  PROVE  /\ req' \in [Request -> ReqType]
         /\ \A q \in Request : req'[q].step \in 1 .. Len(req'[q].blocks) + 1
  BY WentOn DEF Types

(* What a statement writes is the block of its request.                    *)
LEMMA WriteTypes ==
  ASSUME Types, NEW r \in Request, Write(r)
  PROVE  db' \subseteq Request \X Nat /\ draft' \subseteq Request \X Nat
  <1>1. req[r].step \in Nat
    BY DEF Types, ReqType
  <1> QED
    BY <1>1 DEF Types, Write

(* Every step of a handler keeps the types.                                *)
LEMMA HandleTypes ==
  ASSUME Types, Transaction, NEW r \in Request, Handle(r)
  PROVE  Types'
  <1> USE DEF Types, conns, tx, bounds
  <1>0. /\ {"running", "begin", "refusing", "failed", "rendering", "done",
            "calling", "waiting"} \subseteq Where
        /\ victims + 1 \in Nat
    BY DEF Where
  <1>1. CASE TakeWriter(r)
    BY <1>0, <1>1, MovedTypes DEF TakeWriter
  <1>2. CASE TakeReader(r)
    BY <1>0, <1>2, MovedTypes DEF TakeReader
  <1>3. CASE Unavailable(r)
    BY <1>0, <1>3, MovedTypes, Counted DEF Unavailable
  <1>4. CASE Begin(r)
    BY <1>0, <1>4, MovedTypes DEF Begin
  <1>5. CASE BeginFails(r)
    BY <1>0, <1>5, MovedTypes, Counted DEF BeginFails, Rollback
  <1>17. CASE BeginUnprepared(r)
    BY <1>0, <1>17, MovedTypes, Counted DEF BeginUnprepared
  <1>6. CASE Commit(r)
    BY <1>0, <1>6, MovedTypes DEF Commit, Rollback
  <1>7. CASE CommitFails(r)
    BY <1>0, <1>7, MovedTypes, Counted DEF CommitFails, Rollback
  <1>8. CASE Statement(r)
    BY <1>8, WentOnTypes, WriteTypes DEF Statement, MoreOf
  <1>9. CASE FailStatement(r)
    BY <1>0, <1>9, MovedTypes, Counted DEF FailStatement, Rollback
  <1>10. CASE Panic(r)
    BY <1>0, <1>10, MovedTypes, WriteTypes, Counted DEF Panic
  <1>11. CASE CallElsewhere(r)
    BY <1>11, WentOnTypes DEF CallElsewhere, Calls, MoreOf
  <1>12. CASE Finish(r)
    BY <1>0, <1>12, MovedTypes DEF Finish
  <1>13. CASE Render(r)
    BY <1>0, <1>13, MovedTypes DEF Render
  <1>14. CASE Call(r)
    <2>1. PICK q \in Request, j \in Job :
             /\ req' = [req EXCEPT ![q] = Asked(j, r), ![r].at = "calling"]
             /\ there' = there \cup {q}
             /\ At(q, "idle") /\ At(r, "running")
      BY <1>14 DEF Call, Calls, MoreOf, IsNext
    <2>2. q # r
      BY <2>1 DEF At
    <2> DEFINE s == [req[r] EXCEPT !.at = "calling"]
    <2>3. req' = [[req EXCEPT ![q] = Asked(j, r)] EXCEPT ![r] = s]
      BY <2>1, <2>2
    <2>4. s \in ReqType /\ s.step = req[r].step /\ s.blocks = req[r].blocks
      BY <1>0 DEF ReqType
    <2>5. req' \in [Request -> ReqType] /\ req'[q] = Asked(j, r) /\ req'[r] = s
          /\ \A p \in Request \ {q, r} : req'[p] = req[p]
      BY <2>2, <2>3, <2>4, AskedIsRequest
    <2> HIDE DEF s
    <2>6. \A p \in Request : req'[p].step \in 1 .. Len(req'[p].blocks) + 1
      BY <2>4, <2>5, AskedIsRequest
    <2> QED
      BY <1>14, <2>1, <2>5, <2>6 DEF Call
  <1>15. CASE Answer(r)
    BY <1>15, WentOnTypes DEF Answer, Transaction, TransactionOf
  <1>16. CASE TimeOut(r)
    BY <1>16, WentOnTypes DEF TimeOut, Transaction, TransactionOf
  <1> QED
    BY <1>1, <1>2, <1>3, <1>4, <1>5, <1>6, <1>7, <1>8, <1>9, <1>10, <1>11, <1>12,
       <1>13, <1>14, <1>15, <1>16, <1>17 DEF Handle

(* Users and the process keep the types.                                   *)
LEMMA OtherTypes ==
  ASSUME Types,
         \/ \E r \in Request : Ask(r) \/ GoAway(r)
         \/ Signal \/ Close \/ Crash
         \/ UNCHANGED vars
  PROVE  Types'
  <1> USE DEF Types, conns, tx, bounds
  <1>1. ASSUME NEW r \in Request, Ask(r) PROVE Types'
    <2>1. PICK j \in Job : req' = [req EXCEPT ![r] = Asked(j, Nobody)]
      BY <1>1 DEF Ask
    <2>2. /\ req' \in [Request -> ReqType]
          /\ \A q \in Request : req'[q].step \in 1 .. Len(req'[q].blocks) + 1
      BY <2>1, AskedIsRequest
    <2> QED
      BY <1>1, <2>2 DEF Ask
  <1>2. ASSUME NEW r \in Request, GoAway(r) PROVE Types'
    BY <1>2 DEF GoAway
  <1>3. CASE Signal \/ CloseWriter
    BY <1>3 DEF Signal, CloseWriter, Rollback
  <1>4. CASE CloseReaders \/ Crash
    <2>1. End
      BY <1>4 DEF CloseReaders, Crash
    <2>2. ASSUME NEW q \in Request PROVE
             /\ req'[q] \in ReqType
             /\ req'[q].step = req[q].step /\ req'[q].blocks = req[q].blocks
      <3>1. req[q] \in ReqType
        OBVIOUS
      <3>2. req'[q] \in {req[q], [req[q] EXCEPT !.at = "lost"]}
        BY <2>1 DEF End
      <3> QED
        BY <3>1, <3>2 DEF ReqType, Where
    <2>3. req' \in [Request -> ReqType]
      BY <2>1, <2>2 DEF End
    <2> QED
      BY <2>1, <2>2, <2>3 DEF End, Rollback
  <1>5. CASE UNCHANGED vars
    BY <1>5 DEF vars
  <1> QED
    BY <1>1, <1>2, <1>3, <1>4, <1>5 DEF Close

(* Every step keeps the types.                                             *)
LEMMA NextTypes == Types /\ Transaction /\ [Next]_vars => Types'
  BY HandleTypes, OtherTypes DEF Next

-----------------------------------------------------------------------------
(* The pool lends no more readers than there are.                          *)
LEMMA NextPool == Pool /\ [Next]_vars => Pool'
  <1> SUFFICES ASSUME Pool, [Next]_vars PROVE Pool'
    OBVIOUS
  <1> USE DEF Pool, conns, bounds
  <1>1. ASSUME NEW r \in Request, TakeReader(r) PROVE Pool'
    <2>1. readers' = readers \cup {r} /\ Cardinality(readers) < ReaderCount
      BY <1>1 DEF TakeReader
    <2>2. Cardinality(readers) \in Nat
      BY FS_CardinalityType
    <2>3. /\ IsFiniteSet(readers \cup {r})
          /\ \/ Cardinality(readers \cup {r}) = Cardinality(readers)
             \/ Cardinality(readers \cup {r}) = Cardinality(readers) + 1
      BY FS_AddElement, Zenon
    <2> QED
      BY <2>1, <2>2, <2>3, PagesAssumption
  <1>2. ASSUME NEW r \in Request, readers' = readers \ {r} PROVE Pool'
    <2>1. IsFiniteSet(readers') /\ Cardinality(readers') <= Cardinality(readers)
      BY <1>2, FS_Subset
    <2> QED
      BY <1>2, <2>1, FS_CardinalityType, PagesAssumption
  <1>3. CASE readers' = {}
    BY <1>3, FS_EmptySet, PagesAssumption
  <1>4. CASE UNCHANGED readers
    BY <1>4
  <1>5. ASSUME NEW r \in Request, Handle(r), ~TakeReader(r)
        PROVE  UNCHANGED readers \/ readers' = readers \ {r}
    BY <1>5 DEF Handle, TakeWriter, Unavailable, Begin, BeginFails, BeginUnprepared,
                Commit, CommitFails, Statement, FailStatement, Panic, Call, CallElsewhere,
                Answer, TimeOut, Finish, Render, Release
  <1>6. ASSUME ~\E r \in Request : Handle(r)
        PROVE  UNCHANGED readers \/ readers' = {}
    BY <1>6 DEF Next, Ask, GoAway, Signal, Close, CloseWriter, CloseReaders, Crash,
                End, vars
  <1> QED
    BY <1>1, <1>2, <1>3, <1>4, <1>5, <1>6

-----------------------------------------------------------------------------
(* What a request is does not change while it is answered.                 *)
KeepsPage(q) ==
    /\ req'[q].blocks = req[q].blocks
    /\ Post(q)' <=> Post(q)
    /\ InTx(q)' <=> InTx(q)
    /\ Writing(q)' = Writing(q)

(* The same method and blocks are the same page.                           *)
LEMMA SamePage ==
  ASSUME NEW q \in Request, UNCHANGED server,
         req'[q].method = req[q].method, req'[q].blocks = req[q].blocks
  PROVE  KeepsPage(q)
  BY DEF KeepsPage, Post, InTx, Writing

(* The step of a request that moves to w.                                  *)
Moves(r, w) ==
    /\ req'[r].at = w
    /\ \A q \in Request : q # r => req'[q].at = req[q].at
    /\ \A q \in Request : req'[q].step = req[q].step /\ KeepsPage(q)

(* Going to w is such a step.                                              *)
LEMMA MovesBy ==
  ASSUME Types, NEW r \in Request, NEW w \in Where, Goto(r, w), UNCHANGED server
  PROVE  Moves(r, w)
  BY Moved, SamePage DEF Moves

(* The step of a request to its next block.                                *)
Advances(r) ==
    /\ req'[r].at = "running" /\ req'[r].step = req[r].step + 1
    /\ \A q \in Request : q # r => req'[q].at = req[q].at /\ req'[q].step = req[q].step
    /\ \A q \in Request : KeepsPage(q)

(* Going on is such a step.                                                *)
LEMMA AdvancesBy ==
  ASSUME Types, NEW r \in Request, GoOn(r), UNCHANGED server,
         req[r].step <= Len(req[r].blocks)
  PROVE  Advances(r)
  BY WentOn, SamePage DEF Advances

(* The step in which r asks for q, which did nothing so far.               *)
Joins(q) ==
    /\ At(q, "idle") /\ req'[q].at = "waiting" /\ req'[q].step = 1
    /\ \A p \in Request : p # q => req'[p].step = req[p].step /\ KeepsPage(p)

(* What a user asks joins the requests and moves none of them.             *)
LEMMA AskJoins ==
  ASSUME Types, NEW r \in Request, Ask(r)
  PROVE  Joins(r) /\ \A p \in Request : p # r => req'[p].at = req[p].at
  <1>1. PICK j \in Job : req' = [req EXCEPT ![r] = Asked(j, Nobody)]
    BY DEF Ask
  <1>2. UNCHANGED server /\ At(r, "idle")
    BY DEF Ask, IsNext
  <1>3. req'[r] = Asked(j, Nobody) /\ \A p \in Request : p # r => req'[p] = req[p]
    BY <1>1 DEF Types
  <1> QED
    BY <1>2, <1>3, SamePage DEF Joins, Asked

(* What a page asks joins the requests, and the page waits for it.         *)
LEMMA CallJoins ==
  ASSUME Types, NEW r \in Request, Call(r)
  PROVE  /\ At(r, "running") /\ req'[r].at = "calling"
         /\ \E q \in Request \ {r} :
               Joins(q) /\ \A p \in Request \ {q, r} : req'[p].at = req[p].at
  <1>1. PICK q \in Request, j \in Job :
           /\ req' = [req EXCEPT ![q] = Asked(j, r), ![r].at = "calling"]
           /\ At(q, "idle") /\ At(r, "running") /\ UNCHANGED server
    BY DEF Call, Calls, MoreOf, IsNext
  <1>2. q # r
    BY <1>1 DEF At
  <1> DEFINE s == [req[r] EXCEPT !.at = "calling"]
  <1>3. req' = [[req EXCEPT ![q] = Asked(j, r)] EXCEPT ![r] = s]
    BY <1>1, <1>2
  <1>4. s.at = "calling" /\ s.step = req[r].step /\ s.blocks = req[r].blocks
        /\ s.method = req[r].method
    BY DEF Types, ReqType
  <1> HIDE DEF s
  <1>5. /\ req'[q] = Asked(j, r) /\ req'[r] = s
        /\ \A p \in Request \ {q, r} : req'[p] = req[p]
    BY <1>2, <1>3 DEF Types
  <1>6. \A p \in Request : p # q => req'[p].step = req[p].step /\ KeepsPage(p)
    <2>1. ASSUME NEW p \in Request, p # q
          PROVE  /\ req'[p].step = req[p].step /\ req'[p].method = req[p].method
                 /\ req'[p].blocks = req[p].blocks
      BY <1>4, <1>5, <2>1
    <2> QED
      BY <1>1, <2>1, SamePage
  <1>7. req'[q].at = "waiting" /\ req'[q].step = 1
    BY <1>5 DEF Asked
  <1> QED
    BY <1>1, <1>2, <1>4, <1>5, <1>6, <1>7 DEF Joins

(* The process takes every request with it that is not over.               *)
LEMMA EndLoses ==
  ASSUME Types, NEW q \in Request, End
  PROVE  /\ KeepsPage(q) /\ req'[q].step = req[q].step
         /\ req'[q].at = IF req[q].at \in {"done", "failed", "lost", "idle"}
                         THEN req[q].at ELSE "lost"
  <1>1. req'[q] = IF req[q].at \in {"done", "failed", "lost", "idle"}
                  THEN req[q] ELSE [req[q] EXCEPT !.at = "lost"]
    BY DEF End, Over, At
  <1>2. req[q] \in ReqType /\ UNCHANGED server
    BY DEF Types, End
  <1>3. /\ [req[q] EXCEPT !.at = "lost"].at = "lost"
        /\ [req[q] EXCEPT !.at = "lost"].step = req[q].step
        /\ [req[q] EXCEPT !.at = "lost"].blocks = req[q].blocks
        /\ [req[q] EXCEPT !.at = "lost"].method = req[q].method
    BY <1>2 DEF ReqType
  <1> QED
    BY <1>1, <1>2, <1>3, SamePage

-----------------------------------------------------------------------------
(* The holder of the writer is the POST that is between the two.           *)
LEMMA HolderStays ==
  ASSUME Holder, UNCHANGED holder,
         \A q \in Request : (Post(q) /\ req[q].at \in Holding)'
                              <=> Post(q) /\ req[q].at \in Holding
  PROVE  Holder'
  BY DEF Holder

(* A request that is answered gives the writer back, if it has it.         *)
LEMMA HolderReleases ==
  ASSUME Holder, NEW r \in Request, NEW w \in Where \ Holding, Moves(r, w), Release(r)
  PROVE  Holder'
  BY PagesAssumption DEF Holder, Moves, KeepsPage, Release

(* Every handler keeps the writer that of the POST it is lent to.          *)
LEMMA HandleHolder ==
  ASSUME Types, Transaction, Holder, NEW r \in Request, Handle(r)
  PROVE  Holder'
  <1> USE DEF conns, tx, bounds
  <1>0. /\ {"running", "begin", "refusing", "rendering"} \subseteq Where \cap Holding
        /\ {"done", "failed"} \subseteq Where \ Holding
        /\ "calling" \in Holding
        /\ "waiting" \notin Holding /\ "idle" \notin Holding
    BY DEF Where, Holding
  <1>1. CASE TakeWriter(r)
    <2>1. PICK w \in {"begin", "running"} : Goto(r, w)
      BY <1>1 DEF TakeWriter
    <2>2. Moves(r, w) /\ Post(r) /\ holder = Nobody /\ holder' = r
      BY <1>0, <1>1, <2>1, MovesBy DEF TakeWriter
    <2> QED
      BY <1>0, <2>2, PagesAssumption DEF Holder, Moves, KeepsPage
  <1>2. CASE TakeReader(r) \/ Unavailable(r)
    <2>1. PICK w \in {"running", "refusing"} : Goto(r, w)
      BY <1>2 DEF TakeReader, Unavailable
    <2>2. Moves(r, w) /\ ~Post(r) /\ UNCHANGED holder
      BY <1>0, <1>2, <2>1, MovesBy DEF TakeReader, Unavailable
    <2> QED
      BY <2>2, HolderStays DEF Moves, KeepsPage
  <1>3. CASE Begin(r) \/ BeginFails(r) \/ BeginUnprepared(r) \/ Commit(r)
             \/ CommitFails(r) \/ FailStatement(r) \/ Finish(r)
    <2>1. PICK w \in {"running", "refusing", "rendering"} : Goto(r, w)
      BY <1>3 DEF Begin, BeginFails, BeginUnprepared, Commit, CommitFails, FailStatement,
                     Finish
    <2>2. Moves(r, w)
      BY <1>0, <1>3, <2>1, MovesBy
         DEF Begin, BeginFails, BeginUnprepared, Commit, CommitFails, FailStatement,
                     Finish
    <2>3. req[r].at \in Holding /\ UNCHANGED holder
      BY <1>0, <1>3 DEF Begin, BeginFails, BeginUnprepared, Commit, CommitFails, FailStatement,
                     Finish,
                        At, NoMore, MoreOf
    <2> QED
      BY <1>0, <2>2, <2>3, HolderStays DEF Moves, KeepsPage
  <1>4. CASE Statement(r) \/ CallElsewhere(r) \/ Answer(r) \/ TimeOut(r)
    <2>1. /\ GoOn(r) /\ UNCHANGED server /\ req[r].step <= Len(req[r].blocks)
          /\ req[r].at \in {"running", "calling"} /\ UNCHANGED holder
      BY <1>4 DEF Statement, CallElsewhere, Calls, Answer, TimeOut, MoreOf, At,
                  Transaction, TransactionOf
    <2>2. Advances(r)
      BY <2>1, AdvancesBy
    <2> QED
      BY <1>0, <2>1, <2>2, HolderStays DEF Advances, KeepsPage
  <1>5. CASE Panic(r) \/ Render(r)
    <2>1. PICK w \in {"failed", "done"} : Goto(r, w)
      BY <1>5 DEF Panic, Render
    <2>2. Moves(r, w) /\ Release(r)
      BY <1>0, <1>5, <2>1, MovesBy DEF Panic, Render
    <2> QED
      BY <1>0, <2>2, HolderReleases
  <1>6. CASE Call(r)
    <2>1. UNCHANGED holder
      BY <1>6 DEF Call
    <2>2. PICK q \in Request \ {r} :
             Joins(q) /\ \A p \in Request \ {q, r} : req'[p].at = req[p].at
      BY <1>6, CallJoins
    <2>3. req[r].at = "running" /\ req'[r].at = "calling"
      BY <1>6, CallJoins DEF At
    <2> QED
      BY <1>0, <2>1, <2>2, <2>3, HolderStays DEF Joins, KeepsPage, At
  <1> QED
    BY <1>1, <1>2, <1>3, <1>4, <1>5, <1>6 DEF Handle

(* Users and the process do so too; db.Close takes a free writer only.     *)
LEMMA OtherHolder ==
  ASSUME Types, Holder,
         \/ \E r \in Request : Ask(r) \/ GoAway(r)
         \/ Signal \/ Close \/ Crash
         \/ UNCHANGED vars
  PROVE  Holder'
  <1> USE DEF conns, tx, bounds
  <1>1. ASSUME NEW r \in Request, Ask(r) PROVE Holder'
    <2>1. Joins(r) /\ \A p \in Request : p # r => req'[p].at = req[p].at
      BY <1>1, AskJoins
    <2>2. UNCHANGED holder
      BY <1>1 DEF Ask
    <2>3. "waiting" \notin Holding /\ "idle" \notin Holding
      BY DEF Holding
    <2> QED
      BY <2>1, <2>2, <2>3, HolderStays DEF Joins, KeepsPage, At
  <1>2. CASE CloseWriter
    BY <1>2, PagesAssumption DEF CloseWriter, Holder, Post
  <1>3. CASE CloseReaders \/ Crash
    <2>1. End
      BY <1>3 DEF CloseReaders, Crash
    <2>2. \A q \in Request : req'[q].at \notin Holding
      BY <2>1, EndLoses DEF Holding, Types, ReqType, Where
    <2> QED
      BY <2>1, <2>2, PagesAssumption DEF Holder, End
  <1>4. CASE Signal \/ UNCHANGED vars \/ \E r \in Request : GoAway(r)
    BY <1>4 DEF Signal, vars, GoAway, Holder, Post
  <1> QED
    BY <1>1, <1>2, <1>3, <1>4 DEF Close

-----------------------------------------------------------------------------
(* Only one POST is between the writer and its answer.                     *)
LEMMA Alone ==
  ASSUME Holder, NEW r \in Request, Post(r), req[r].at \in Holding,
         NEW q \in Request, q # r
  PROVE  ~(Post(q) /\ req[q].at \in Holding)
  BY DEF Holder

(* A request that does nothing keeps its part of the invariant, if the     *)
(* transaction stays or is another's.                                      *)
LEMMA TransactionStays ==
  ASSUME NEW q \in Request, TransactionOf(q), UNCHANGED server,
         req'[q].at = req[q].at, req'[q].step = req[q].step, KeepsPage(q),
         UNCHANGED tx \/ ~(Post(q) /\ req[q].at \in Holding)
  PROVE  TransactionOf(q)'
  BY DEF TransactionOf, KeepsPage, InStatements, InTx, At, Block, Holding, tx, Runs

(* What a statement of a POST of v1 adds to the draft.                     *)
LEMMA DraftGrows ==
  ASSUME Types, NEW r \in Request, InStatements(r), TransactionOf(r), inTx' = inTx,
         Advances(r), UNCHANGED server,
         \/ UNCHANGED draft /\ req[r].step \notin Writing(r)
         \/ draft' = draft \cup {<<r, req[r].step>>} /\ req[r].step \in Writing(r)
  PROVE  TransactionOf(r)'
  <1>1. /\ req'[r].at = "running" /\ req'[r].step = req[r].step + 1
        /\ InTx(r)' /\ Writing(r)' = Writing(r) /\ inTx'
    BY DEF Advances, KeepsPage, TransactionOf, InStatements
  <1>2. req[r].step \in Nat /\ Writing(r) \subseteq Nat
    BY DEF Types, ReqType, Writing
  <1>3. ASSUME NEW q \in Request, NEW k \in Nat
        PROVE  <<q, k>> \in draft' <=> q = r /\ k \in Writing(r) /\ k < req[r].step + 1
    <2>1. <<q, k>> \in draft <=> q = r /\ k \in Writing(r) /\ k < req[r].step
      BY <1>3 DEF TransactionOf
    <2>2. k < req[r].step + 1 <=> k < req[r].step \/ k = req[r].step
      BY <1>2
    <2> QED
      BY <2>1, <2>2
  <1> QED
    BY <1>1, <1>3 DEF TransactionOf, At, InStatements

(* A block that reads or calls is none that writes.                        *)
LEMMA NotWriting ==
  ASSUME Types, NEW r \in Request, req[r].step <= Len(req[r].blocks)
  PROVE  req[r].step \in Writing(r) <=> Post(r) /\ Runs(Block(r)) = "write"
  <1>1. req[r].step \in DOMAIN req[r].blocks
    BY DEF Types, ReqType
  <1> QED
    BY <1>1 DEF Writing, Block

(* Every handler keeps the transaction the holder's.                       *)
LEMMA HandleTransaction ==
  ASSUME Types, Holder, Transaction, NEW r \in Request, Handle(r)
  PROVE  Transaction'
  <1> USE DEF conns, bounds
  <1>0. /\ {"running", "begin", "refusing", "rendering"} \subseteq Where \cap Holding
        /\ {"done", "failed"} \subseteq Where
        /\ "calling" \in Holding
    BY DEF Where, Holding
  <1>1. ASSUME UNCHANGED server, UNCHANGED tx \/ (Post(r) /\ req[r].at \in Holding),
               \A q \in Request \ {r} : /\ req'[q].at = req[q].at
                                        /\ req'[q].step = req[q].step /\ KeepsPage(q),
               TransactionOf(r)', ~inTx' => draft' = {}, inTx' => server = "v1"
        PROVE  Transaction'
    <2>1. ASSUME NEW q \in Request \ {r} PROVE TransactionOf(q)'
      <3>1. UNCHANGED tx \/ ~(Post(q) /\ req[q].at \in Holding)
        BY <1>1, Alone
      <3> QED
        BY <1>1, <3>1, TransactionStays DEF Transaction
    <2> QED
      BY <1>1, <2>1 DEF Transaction
  <1>2. CASE TakeWriter(r)
    <2>1. PICK w \in {"begin", "running"} :
             Goto(r, w) /\ (w = "begin" <=> InTx(r))
      BY <1>2 DEF TakeWriter
    <2>2. Moves(r, w) /\ UNCHANGED <<server, tx>>
      BY <1>0, <1>2, <2>1, MovesBy DEF TakeWriter
    <2>3. req[r].step = 1
      BY <1>2 DEF TakeWriter, At, Transaction, TransactionOf
    <2>4. TransactionOf(r)'
      BY <2>1, <2>2, <2>3 DEF TransactionOf, Moves, KeepsPage, At, InStatements
    <2> QED
      BY <1>1, <2>2, <2>4 DEF Moves, Transaction, tx
  <1>3. CASE TakeReader(r) \/ Unavailable(r) \/ Finish(r) \/ Render(r)
             \/ (FailStatement(r) /\ ~InTx(r))
    <2>1. PICK w \in {"running", "refusing", "rendering", "done", "failed"} :
             Goto(r, w) /\ (w \in {"running", "refusing", "rendering"} => ~InTx(r))
      BY <1>3 DEF TakeReader, Unavailable, Finish, Render, FailStatement, InTx
    <2>2. Moves(r, w) /\ UNCHANGED <<server, tx>>
      BY <1>0, <1>3, <2>1, MovesBy
         DEF TakeReader, Unavailable, Finish, Render, FailStatement
    <2>3. TransactionOf(r)'
      BY <2>1, <2>2 DEF TransactionOf, Moves, KeepsPage, At, InStatements
    <2> QED
      BY <1>1, <2>2, <2>3 DEF Moves, Transaction, tx
  <1>4. CASE Begin(r)
    <2>1. Moves(r, "running") /\ UNCHANGED <<server, draft>> /\ inTx'
      BY <1>0, <1>4, MovesBy DEF Begin
    <2>2. InTx(r) /\ req[r].step = 1 /\ ~inTx /\ draft = {} /\ req[r].at \in Holding
      BY <1>0, <1>4 DEF Begin, Transaction, TransactionOf, At
    <2>3. \A k \in Writing(r) : ~(k < 1)
      BY DEF Types, ReqType, Writing
    <2>4. TransactionOf(r)'
      BY <2>1, <2>2, <2>3 DEF TransactionOf, Moves, KeepsPage, At
    <2> QED
      BY <1>1, <2>1, <2>2, <2>4 DEF Moves, InTx
  <1>5. CASE BeginFails(r) \/ Commit(r) \/ CommitFails(r) \/ (FailStatement(r) /\ InTx(r))
    <2>1. PICK w \in {"refusing", "rendering"} : Goto(r, w)
      BY <1>5 DEF BeginFails, Commit, CommitFails, FailStatement
    <2>2. Moves(r, w) /\ UNCHANGED server /\ Rollback
      BY <1>0, <1>5, <2>1, MovesBy DEF BeginFails, Commit, CommitFails, FailStatement
    <2>3. Post(r) /\ req[r].at \in Holding
      BY <1>0, <1>5 DEF BeginFails, Commit, CommitFails, FailStatement, NoMore, MoreOf,
                        At, InTx, Transaction, TransactionOf
    <2>4. TransactionOf(r)'
      BY <2>1, <2>2 DEF TransactionOf, Moves, At, InStatements, Rollback
    <2> QED
      BY <1>1, <2>2, <2>3, <2>4 DEF Moves, Rollback
  <1>17. CASE BeginUnprepared(r)
    <2>1. Moves(r, "refusing") /\ UNCHANGED <<server, tx>>
      BY <1>0, <1>17, MovesBy DEF BeginUnprepared
    <2>2. TransactionOf(r)'
      BY <2>1 DEF TransactionOf, Moves, KeepsPage, At, InStatements
    <2> QED
      BY <1>1, <2>1, <2>2 DEF Moves, Transaction, tx
  <1>6. CASE Statement(r) \/ CallElsewhere(r) \/ Answer(r) \/ TimeOut(r)
    <2>1. /\ GoOn(r) /\ UNCHANGED <<server, inTx>> /\ req[r].step <= Len(req[r].blocks)
          /\ req[r].at \in {"running", "calling"}
      BY <1>6 DEF Statement, CallElsewhere, Calls, Answer, TimeOut, MoreOf, At,
                  Transaction, TransactionOf, tx
    <2>2. Advances(r)
      BY <2>1, AdvancesBy
    <2>3. \/ UNCHANGED draft /\ ~(Post(r) /\ Runs(Block(r)) = "write")
          \/ ~InTx(r) /\ UNCHANGED draft
          \/ /\ InTx(r) /\ draft' = draft \cup {<<r, req[r].step>>}
             /\ Post(r) /\ Runs(Block(r)) = "write"
      BY <1>6 DEF Statement, CallElsewhere, Calls, Answer, TimeOut, At, Transaction,
                  TransactionOf, tx, Write
    <2>4. CASE InTx(r)
      <3>1. InStatements(r) /\ inTx /\ Post(r) /\ req[r].at \in Holding
        BY <1>0, <2>1, <2>4 DEF InStatements, Transaction, TransactionOf, InTx
      <3>2. TransactionOf(r)'
        BY <2>1, <2>2, <2>3, <2>4, <3>1, DraftGrows, NotWriting DEF Transaction
      <3> QED
        BY <1>1, <2>1, <2>2, <3>1, <3>2 DEF Advances, Transaction
    <2>5. CASE ~InTx(r)
      <3>1. UNCHANGED tx
        BY <2>1, <2>3, <2>5 DEF tx
      <3>2. TransactionOf(r)'
        BY <2>2, <2>5 DEF TransactionOf, Advances, KeepsPage, At, InStatements
      <3> QED
        BY <1>1, <2>1, <2>2, <3>1, <3>2 DEF Advances, Transaction, tx
    <2> QED
      BY <2>4, <2>5
  <1>7. CASE Panic(r)
    <2>1. Moves(r, "failed") /\ UNCHANGED <<server, inTx>> /\ req[r].at = "running"
      BY <1>0, <1>7, MovesBy DEF Panic, MoreOf, At
    <2>2. UNCHANGED draft \/ InTx(r)
      BY <1>7 DEF Panic, Write
    <2>3. TransactionOf(r)'
      BY <2>1 DEF TransactionOf, Moves, At, InStatements
    <2>4. InTx(r) => inTx /\ Post(r) /\ req[r].at \in Holding
      BY <1>0, <2>1 DEF Transaction, TransactionOf, InStatements, InTx
    <2> QED
      BY <1>1, <2>1, <2>2, <2>3, <2>4 DEF Moves, Transaction, tx
  <1>8. CASE Call(r)
    <2>1. UNCHANGED <<server, tx>> /\ req[r].step <= Len(req[r].blocks)
          /\ Runs(Block(r)) = "call"
      BY <1>8 DEF Call, Calls, MoreOf
    <2>2. PICK q \in Request \ {r} :
             Joins(q) /\ \A p \in Request \ {q, r} : req'[p].at = req[p].at
      BY <1>8, CallJoins
    <2>3. req[r].at = "running" /\ req'[r].at = "calling"
      BY <1>8, CallJoins DEF At
    <2>4. TransactionOf(r)'
      <3>1. req'[r].step = req[r].step /\ KeepsPage(r) /\ TransactionOf(r)
        BY <2>2 DEF Joins, Transaction
      <3> QED
        BY <2>1, <2>3, <3>1 DEF TransactionOf, KeepsPage, At, InStatements, Block, Runs, tx
    <2>5. TransactionOf(q)'
      BY <2>2 DEF Joins, TransactionOf, At, InStatements
    <2>6. \A p \in Request \ {q, r} : TransactionOf(p)'
      BY <2>1, <2>2, TransactionStays DEF Joins, Transaction
    <2> QED
      BY <2>1, <2>4, <2>5, <2>6 DEF Transaction, tx
  <1> QED
    BY <1>2, <1>3, <1>4, <1>5, <1>6, <1>7, <1>8, <1>17 DEF Handle

(* Users and the process keep the transaction the holder's.                *)
LEMMA OtherTransaction ==
  ASSUME Types, Holder, Transaction,
         \/ \E r \in Request : Ask(r) \/ GoAway(r)
         \/ Signal \/ Close \/ Crash
         \/ UNCHANGED vars
  PROVE  Transaction'
  <1> USE DEF conns, bounds
  <1>1. ASSUME NEW r \in Request, Ask(r) PROVE Transaction'
    <2>1. Joins(r) /\ \A p \in Request : p # r => req'[p].at = req[p].at
      BY <1>1, AskJoins
    <2>2. UNCHANGED <<server, tx>>
      BY <1>1 DEF Ask
    <2>3. TransactionOf(r)'
      BY <2>1 DEF Joins, TransactionOf, At, InStatements
    <2>4. \A p \in Request \ {r} : TransactionOf(p)'
      BY <2>1, <2>2, TransactionStays DEF Joins, Transaction
    <2> QED
      BY <2>2, <2>3, <2>4 DEF Transaction, tx
  <1>2. CASE CloseWriter
    <2>1. /\ UNCHANGED <<server, req>> /\ Rollback
          /\ \A q \in Request : ~(Post(q) /\ req[q].at \in Holding)
      BY <1>2, PagesAssumption DEF CloseWriter, Holder
    <2>2. ASSUME NEW q \in Request PROVE TransactionOf(q)'
      <3>1. KeepsPage(q)
        BY <2>1, SamePage
      <3> QED
        BY <2>1, <3>1, TransactionStays DEF Transaction
    <2> QED
      BY <2>1, <2>2 DEF Transaction, Rollback
  <1>3. CASE CloseReaders \/ Crash
    <2>1. End
      BY <1>3 DEF CloseReaders, Crash
    <2>2. \A q \in Request : req'[q].at \in {"done", "failed", "lost", "idle"}
      BY <2>1, EndLoses
    <2>3. \A q \in Request : TransactionOf(q)'
      BY <2>2 DEF TransactionOf, At, InStatements
    <2> QED
      BY <2>1, <2>3 DEF Transaction, End, Rollback
  <1>4. CASE Signal \/ UNCHANGED vars \/ \E r \in Request : GoAway(r)
    <2>1. UNCHANGED <<server, req, tx>>
      BY <1>4 DEF Signal, vars, GoAway
    <2>2. ASSUME NEW q \in Request PROVE TransactionOf(q)'
      <3>1. KeepsPage(q)
        BY <2>1, SamePage
      <3> QED
        BY <2>1, <3>1, TransactionStays DEF Transaction
    <2> QED
      BY <2>1, <2>2 DEF Transaction, tx
  <1> QED
    BY <1>1, <1>2, <1>3, <1>4 DEF Close

-----------------------------------------------------------------------------
(* The blocks that write are numbered from 1 to the last block.            *)
LEMMA WritingBlocks ==
  ASSUME Types, NEW r \in Request
  PROVE  /\ DOMAIN req[r].blocks = 1 .. Len(req[r].blocks)
         /\ Writing(r) \subseteq 1 .. Len(req[r].blocks)
         /\ Len(req[r].blocks) \in Nat
  <1>1. req[r] \in ReqType
    BY DEF Types
  <1>2. req[r].blocks \in Seq(Seq(Op) \ {<<>>})
    BY <1>1 DEF ReqType
  <1>3. /\ DOMAIN req[r].blocks = 1 .. Len(req[r].blocks)
        /\ Len(req[r].blocks) \in Nat
    BY <1>2
  <1> QED
    BY <1>3 DEF Writing

(* Nothing is written up to the first block, and everything up to the end. *)
LEMMA Limits ==
  ASSUME Types, NEW r \in Request
  PROVE  /\ None(r) => Upto(r, 1)
         /\ \A n \in Nat : Upto(r, n) /\ n > Len(req[r].blocks) => All(r)
         /\ All(r) => Upto(r, Len(req[r].blocks) + 1)
         /\ None(r) /\ ~Post(r) => All(r)
  <1>1. \A k \in Writing(r) : k \in Nat /\ k >= 1 /\ k <= Len(req[r].blocks)
    BY WritingBlocks
  <1>2. Len(req[r].blocks) \in Nat
    BY WritingBlocks
  <1>3. ~Post(r) => Writing(r) = {}
    BY DEF Writing
  <1>4. None(r) => Upto(r, 1)
    BY <1>1 DEF None, Upto
  <1>5. ASSUME NEW n \in Nat, Upto(r, n), n > Len(req[r].blocks) PROVE All(r)
    BY <1>1, <1>2, <1>5 DEF Upto, All
  <1>6. All(r) => Upto(r, Len(req[r].blocks) + 1)
    BY <1>1, <1>2 DEF Upto, All
  <1>7. None(r) /\ ~Post(r) => All(r)
    BY <1>3 DEF None, All
  <1> QED
    BY <1>4, <1>5, <1>6, <1>7

(* What has been written of a request that does nothing stays.             *)
LEMMA DatabaseStays ==
  ASSUME NEW q \in Request, DatabaseOf(q), UNCHANGED server,
         req'[q].at = req[q].at, req'[q].step = req[q].step, KeepsPage(q),
         \A k \in Nat : <<q, k>> \in db' <=> <<q, k>> \in db
  PROVE  DatabaseOf(q)'
  BY DEF DatabaseOf, KeepsPage, At, None, All, Upto

(* What a statement, committed by itself, adds to what its page has        *)
(* written.                                                                *)
LEMMA UptoGrows ==
  ASSUME Types, NEW r \in Request, Upto(r, req[r].step), Writing(r)' = Writing(r),
         \/ UNCHANGED db /\ req[r].step \notin Writing(r)
         \/ db' = db \cup {<<r, req[r].step>>} /\ req[r].step \in Writing(r)
  PROVE  \A k \in Nat :
            <<r, k>> \in db' <=> k \in Writing(r)' /\ k < req[r].step + 1
  <1>1. req[r].step \in Nat
    BY DEF Types, ReqType
  <1> TAKE k \in Nat
  <1>2. <<r, k>> \in db <=> k \in Writing(r) /\ k < req[r].step
    BY DEF Upto
  <1>3. k < req[r].step + 1 <=> k < req[r].step \/ k = req[r].step
    BY <1>1
  <1> QED
    BY <1>2, <1>3

(* Committing adds to the database what the transaction of the page has    *)
(* written, which is all that it writes, and nothing of another page.      *)
LEMMA CommitWritesAll ==
  ASSUME NEW r \in Request, Types, Transaction, DatabaseOf(r), Commit(r)
  PROVE  /\ \A k \in Nat : <<r, k>> \in db' <=> k \in Writing(r)
         /\ \A q \in Request \ {r}, k \in Nat : <<q, k>> \in db' <=> <<q, k>> \in db
  <1>1. /\ InStatements(r) /\ server = "v1" /\ At(r, "running")
        /\ req[r].step > Len(req[r].blocks) /\ db' = db \cup draft
    BY DEF Commit, NoMore, InStatements, At, InTx
  <1>2. \A q \in Request, k \in Nat :
           <<q, k>> \in draft <=> q = r /\ k \in Writing(r) /\ k < req[r].step
    BY <1>1 DEF Transaction, TransactionOf
  <1>3. \A k \in Nat : <<r, k>> \notin db
    BY <1>1 DEF DatabaseOf, None, At
  <1>4. \A k \in Writing(r) : k < req[r].step
    <2>1. /\ \A k \in Writing(r) : k \in Nat /\ k <= Len(req[r].blocks)
          /\ Len(req[r].blocks) \in Nat /\ req[r].step \in Nat
      BY WritingBlocks DEF Types, ReqType
    <2> QED
      BY <1>1, <2>1
  <1> QED
    BY <1>1, <1>2, <1>3, <1>4

(* A handler that writes nothing takes its request from one place to the   *)
(* next without contradicting the database.                                *)
LEMMA MovesOn ==
  ASSUME NEW r \in Request, NEW w \in Where, Types, DatabaseOf(r), Moves(r, w),
         UNCHANGED <<server, db>>,
         \/ req[r].at \in {"waiting", "begin"} /\ req[r].step = 1
               /\ w \in {"begin", "running", "refusing"}
         \/ At(r, "running") /\ w \in {"refusing", "failed"}
         \/ At(r, "running") /\ w = "rendering" /\ req[r].step > Len(req[r].blocks)
               /\ (server = "v1" => ~Post(r))
         \/ At(r, "rendering") /\ w = "done"
         \/ At(r, "refusing") /\ w = "failed"
         \/ At(r, "running") /\ w = "calling"
  PROVE  DatabaseOf(r)'
  <1>1. /\ req'[r].at = w /\ req'[r].step = req[r].step
        /\ Writing(r)' = Writing(r) /\ server' = server /\ db' = db
    BY DEF Moves, KeepsPage
  <1>2. req[r].step \in Nat /\ 1 \in Nat
    BY DEF Types, ReqType
  <1>3. /\ None(r)' <=> None(r)
        /\ All(r)' <=> All(r)
        /\ Upto(r, req[r].step)' <=> Upto(r, req[r].step)
        /\ (\E n \in Nat : Upto(r, n))' <=> \E n \in Nat : Upto(r, n)
    BY <1>1 DEF None, All, Upto
  <1>4. /\ None(r) => Upto(r, 1)
        /\ Upto(r, req[r].step) /\ req[r].step > Len(req[r].blocks) => All(r)
        /\ None(r) /\ ~Post(r) => All(r)
    BY <1>2, Limits
  <1>5. server \in {"v1", "v2"}
    BY DEF Types
  <1>6. CASE req[r].at \in {"waiting", "begin"} /\ req[r].step = 1
                /\ w \in {"begin", "running", "refusing"}
    BY <1>1, <1>2, <1>3, <1>4, <1>6 DEF DatabaseOf, At
  <1>7. CASE At(r, "running") /\ w \in {"refusing", "failed", "calling"}
    BY <1>1, <1>2, <1>3, <1>7 DEF DatabaseOf, At
  <1>8. CASE At(r, "running") /\ w = "rendering" /\ req[r].step > Len(req[r].blocks)
                /\ (server = "v1" => ~Post(r))
    BY <1>1, <1>3, <1>4, <1>5, <1>8 DEF DatabaseOf, At
  <1>9. CASE At(r, "rendering") /\ w = "done"
    BY <1>1, <1>3, <1>9 DEF DatabaseOf, At
  <1>10. CASE At(r, "refusing") /\ w = "failed"
    BY <1>1, <1>3, <1>10 DEF DatabaseOf, At
  <1> QED
    BY <1>6, <1>7, <1>8, <1>9, <1>10

(* Every handler keeps the database as its requests have told.             *)
LEMMA HandleDatabase ==
  ASSUME Types, Transaction, Database, NEW r \in Request, Handle(r)
  PROVE  Database'
  <1> USE DEF conns, bounds
  <1>0. {"running", "begin", "refusing", "rendering", "calling", "done", "failed"}
           \subseteq Where
    BY DEF Where
  <1>1. ASSUME UNCHANGED server, DatabaseOf(r)',
               \A q \in Request \ {r} : /\ req'[q].at = req[q].at
                                        /\ req'[q].step = req[q].step /\ KeepsPage(q)
                                        /\ \A k \in Nat : <<q, k>> \in db' <=> <<q, k>> \in db
        PROVE  Database'
    BY <1>1, DatabaseStays DEF Database
  <1>2. CASE TakeWriter(r) \/ TakeReader(r) \/ Unavailable(r) \/ Begin(r)
             \/ BeginFails(r) \/ BeginUnprepared(r)
    <2>1. PICK w \in {"begin", "running", "refusing"} : Goto(r, w)
      BY <1>2 DEF TakeWriter, TakeReader, Unavailable, Begin, BeginFails, BeginUnprepared
    <2>2. /\ Moves(r, w) /\ UNCHANGED <<server, db>>
          /\ req[r].at \in {"waiting", "begin"} /\ req[r].step = 1
      BY <1>0, <1>2, <2>1, MovesBy
         DEF TakeWriter, TakeReader, Unavailable, Begin, BeginFails, BeginUnprepared, At,
             Transaction, TransactionOf
    <2>3. DatabaseOf(r)'
      BY <1>0, <2>2, MovesOn DEF Database
    <2> QED
      BY <1>1, <2>2, <2>3 DEF Moves
  <1>3. CASE CommitFails(r) \/ FailStatement(r) \/ Finish(r) \/ Render(r)
    <2>1. PICK w \in {"refusing", "rendering", "done", "failed"} :
             /\ Goto(r, w)
             /\ \/ At(r, "running") /\ w = "refusing"
                \/ At(r, "running") /\ w = "rendering" /\ req[r].step > Len(req[r].blocks)
                      /\ (server = "v1" => ~Post(r))
                \/ At(r, "rendering") /\ w = "done"
                \/ At(r, "refusing") /\ w = "failed"
      BY <1>3 DEF CommitFails, FailStatement, Finish, Render, NoMore, MoreOf, InTx
    <2>2. Moves(r, w) /\ UNCHANGED <<server, db>>
      BY <1>0, <1>3, <2>1, MovesBy DEF CommitFails, FailStatement, Finish, Render
    <2>3. DatabaseOf(r)'
      BY <1>0, <2>1, <2>2, MovesOn DEF Database
    <2> QED
      BY <1>1, <2>2, <2>3 DEF Moves
  <1>4. CASE Commit(r)
    <2>1. Moves(r, "rendering") /\ UNCHANGED server
      BY <1>0, <1>4, MovesBy DEF Commit
    <2>2. /\ \A k \in Nat : <<r, k>> \in db' <=> k \in Writing(r)
          /\ \A q \in Request \ {r}, k \in Nat : <<q, k>> \in db' <=> <<q, k>> \in db
      BY <1>4, CommitWritesAll DEF Database
    <2>3. server' = "v1"
      BY <1>4, <2>1 DEF Commit, InTx
    <2>4. DatabaseOf(r)'
      BY <2>1, <2>2, <2>3 DEF DatabaseOf, Moves, KeepsPage, All, At
    <2> QED
      BY <1>1, <2>1, <2>2, <2>4 DEF Moves
  <1>5. CASE Statement(r) \/ CallElsewhere(r) \/ Answer(r) \/ TimeOut(r)
    <2>1. /\ GoOn(r) /\ UNCHANGED server /\ req[r].step <= Len(req[r].blocks)
          /\ req[r].at \in {"running", "calling"}
      BY <1>5 DEF Statement, CallElsewhere, Calls, Answer, TimeOut, MoreOf, At,
                  Transaction, TransactionOf
    <2>2. Advances(r)
      BY <2>1, AdvancesBy
    <2>3. \/ UNCHANGED db /\ InTx(r)
          \/ UNCHANGED db /\ ~(Post(r) /\ Runs(Block(r)) = "write")
          \/ ~InTx(r) /\ Post(r) /\ Runs(Block(r)) = "write"
                /\ db' = db \cup {<<r, req[r].step>>}
      BY <1>5 DEF Statement, CallElsewhere, Calls, Answer, TimeOut, At, Transaction,
                  TransactionOf, Write
    <2>4. \A q \in Request \ {r}, k \in Nat : <<q, k>> \in db' <=> <<q, k>> \in db
      BY <2>3
    <2>5. DatabaseOf(r)'
      <3>1. /\ req'[r].at = "running" /\ req'[r].step = req[r].step + 1
            /\ Writing(r)' = Writing(r)
        BY <2>2 DEF Advances, KeepsPage
      <3>2. CASE server = "v1"
        <4>1. UNCHANGED db /\ None(r)
          BY <2>1, <2>3, <3>2 DEF InTx, Database, DatabaseOf
        <4> QED
          BY <2>1, <3>1, <3>2, <4>1 DEF DatabaseOf, None, At
      <3>3. CASE server = "v2"
        <4>1. Upto(r, req[r].step)
          BY <2>1, <3>3 DEF Database, DatabaseOf
        <4>2. \/ UNCHANGED db /\ req[r].step \notin Writing(r)
              \/ db' = db \cup {<<r, req[r].step>>} /\ req[r].step \in Writing(r)
          BY <2>1, <2>3, <3>3, NotWriting DEF InTx
        <4>3. \A k \in Nat : <<r, k>> \in db' <=> k \in Writing(r)' /\ k < req'[r].step
          BY <3>1, <4>1, <4>2, UptoGrows
        <4> QED
          BY <2>1, <3>1, <3>3, <4>3 DEF DatabaseOf, Upto, At
      <3> QED
        BY <3>2, <3>3 DEF Types
    <2> QED
      BY <1>1, <2>1, <2>2, <2>4, <2>5 DEF Advances
  <1>6. CASE Panic(r)
    <2>1. /\ Moves(r, "failed") /\ UNCHANGED server /\ At(r, "running")
          /\ req[r].step <= Len(req[r].blocks)
      BY <1>0, <1>6, MovesBy DEF Panic, MoreOf
    <2>2. \/ UNCHANGED db
          \/ ~InTx(r) /\ Post(r) /\ Runs(Block(r)) = "write"
                /\ db' = db \cup {<<r, req[r].step>>}
      BY <1>6 DEF Panic, Write
    <2>3. \A q \in Request \ {r}, k \in Nat : <<q, k>> \in db' <=> <<q, k>> \in db
      BY <2>2
    <2>4. DatabaseOf(r)'
      <3>1. CASE UNCHANGED db
        BY <1>0, <2>1, <3>1, MovesOn DEF Database
      <3>2. CASE ~InTx(r) /\ Post(r) /\ Runs(Block(r)) = "write"
                    /\ db' = db \cup {<<r, req[r].step>>}
        <4>1. server = "v2" /\ Upto(r, req[r].step)
          BY <2>1, <3>2 DEF InTx, Types, Database, DatabaseOf, At
        <4>2. Writing(r)' = Writing(r) /\ req'[r].at = "failed"
          BY <2>1 DEF Moves, KeepsPage
        <4>3. \A k \in Nat : <<r, k>> \in db' <=> k \in Writing(r)' /\ k < req[r].step + 1
          BY <2>1, <3>2, <4>1, <4>2, NotWriting, UptoGrows
        <4>4. req[r].step + 1 \in Nat
          BY DEF Types, ReqType
        <4>5. \E n \in Nat : \A k \in Nat : <<r, k>> \in db' <=> k \in Writing(r)' /\ k < n
          BY <4>3, <4>4
        <4>6. server' = "v2"
          BY <2>1, <4>1
        <4> QED
          BY <4>2, <4>5, <4>6 DEF DatabaseOf, Upto, At
      <3> QED
        BY <2>2, <3>1, <3>2
    <2> QED
      BY <1>1, <2>1, <2>3, <2>4 DEF Moves
  <1>7. CASE Call(r)
    <2>1. UNCHANGED <<server, db>>
      BY <1>7 DEF Call, tx
    <2>2. PICK q \in Request \ {r} :
             Joins(q) /\ \A p \in Request \ {q, r} : req'[p].at = req[p].at
      BY <1>7, CallJoins
    <2>3. req[r].at = "running" /\ req'[r].at = "calling"
      BY <1>7, CallJoins DEF At
    <2>4. DatabaseOf(r)'
      <3>1. req'[r].step = req[r].step /\ KeepsPage(r) /\ DatabaseOf(r)
        BY <2>2 DEF Joins, Database
      <3> QED
        BY <2>1, <2>3, <3>1 DEF DatabaseOf, KeepsPage, At, None, Upto
    <2>5. DatabaseOf(q)'
      BY <2>1, <2>2 DEF Joins, Database, DatabaseOf, At, None
    <2>6. \A p \in Request \ {q, r} : DatabaseOf(p)'
      BY <2>1, <2>2, DatabaseStays DEF Joins, Database
    <2> QED
      BY <2>4, <2>5, <2>6 DEF Database
  <1> QED
    BY <1>2, <1>3, <1>4, <1>5, <1>6, <1>7 DEF Handle

(* Users and the process change nothing that is committed.                 *)
LEMMA OtherDatabase ==
  ASSUME Types, Database,
         \/ \E r \in Request : Ask(r) \/ GoAway(r)
         \/ Signal \/ Close \/ Crash
         \/ UNCHANGED vars
  PROVE  Database'
  <1> USE DEF conns, bounds
  <1>1. ASSUME NEW r \in Request, Ask(r) PROVE Database'
    <2>1. Joins(r) /\ \A p \in Request : p # r => req'[p].at = req[p].at
      BY <1>1, AskJoins
    <2>2. UNCHANGED <<server, db>>
      BY <1>1 DEF Ask
    <2>3. DatabaseOf(r)'
      BY <2>1, <2>2 DEF Joins, Database, DatabaseOf, At, None
    <2>4. \A p \in Request \ {r} : DatabaseOf(p)'
      BY <2>1, <2>2, DatabaseStays DEF Joins, Database
    <2> QED
      BY <2>3, <2>4 DEF Database
  <1>2. CASE CloseReaders \/ Crash
    <2>1. End
      BY <1>2 DEF CloseReaders, Crash
    <2>2. UNCHANGED <<server, db>>
      BY <2>1 DEF End
    <2>3. ASSUME NEW q \in Request PROVE DatabaseOf(q)'
      <3>1. /\ KeepsPage(q) /\ req'[q].step = req[q].step
            /\ req'[q].at = IF req[q].at \in {"done", "failed", "lost", "idle"}
                            THEN req[q].at ELSE "lost"
        BY <2>1, EndLoses
      <3>2. DatabaseOf(q)
        BY DEF Database
      <3>3. CASE req[q].at \in {"done", "failed", "lost", "idle"}
        BY <2>2, <3>1, <3>2, <3>3, DatabaseStays
      <3>4. CASE req[q].at \notin {"done", "failed", "lost", "idle"}
        <4>1. req'[q].at = "lost" /\ req[q].at \in Where
              /\ req[q].step \in Nat /\ Len(req[q].blocks) + 1 \in Nat /\ 1 \in Nat
          BY <3>1, <3>4, WritingBlocks DEF Types, ReqType
        <4>2. None(q) => Upto(q, 1)
          BY Limits
        <4>3. All(q) => Upto(q, Len(req[q].blocks) + 1)
          BY Limits
        <4>4. server = "v1" => None(q) \/ All(q)
          BY <3>2, <3>4, <4>1 DEF DatabaseOf, At, Where
        <4>5. server = "v2" => \E n \in Nat : Upto(q, n)
          BY <3>2, <3>4, <4>1, <4>2, <4>3 DEF DatabaseOf, At, Where
        <4> QED
          BY <2>2, <3>1, <4>1, <4>4, <4>5
             DEF DatabaseOf, KeepsPage, None, All, Upto, At
      <3> QED
        BY <3>3, <3>4
    <2> QED
      BY <2>3 DEF Database
  <1>3. CASE Signal \/ CloseWriter \/ UNCHANGED vars \/ \E r \in Request : GoAway(r)
    <2>1. UNCHANGED <<server, req, db>>
      BY <1>3 DEF Signal, CloseWriter, vars, GoAway
    <2>2. ASSUME NEW q \in Request PROVE DatabaseOf(q)'
      <3>1. KeepsPage(q)
        BY <2>1, SamePage
      <3> QED
        BY <2>1, <3>1, DatabaseStays DEF Database
    <2> QED
      BY <2>2 DEF Database
  <1> QED
    BY <1>1, <1>2, <1>3 DEF Close

-----------------------------------------------------------------------------
(* The victims are counted against the panics.                             *)
LEMMA NextVictims ==
  ASSUME Types, Holder, Transaction, Victims, [Next]_vars
  PROVE  Victims'
  <1> USE DEF bounds
  <1>0. victims \in Nat /\ panics \in Nat
    BY DEF Types
  <1>1. ASSUME UNCHANGED <<victims, panics>>,
               inTx' => inTx,
               inTx' => \A q \in Request : InStatements(q) => InStatements(q)'
        PROVE  Victims'
    BY <1>1 DEF Victims, LeftOpen
  <1>2. ASSUME NEW r \in Request, Handle(r) PROVE Victims'
    <2>0. {"running", "begin", "refusing", "rendering", "calling", "done", "failed"}
             \subseteq Where
      BY DEF Where
    <2>1. CASE TakeWriter(r) \/ TakeReader(r) \/ Unavailable(r) \/ BeginUnprepared(r)
               \/ Finish(r) \/ Render(r) \/ (FailStatement(r) /\ ~InTx(r))
      <3>1. PICK w \in Where : Goto(r, w)
        BY <2>0, <2>1 DEF TakeWriter, TakeReader, Unavailable, BeginUnprepared, Finish,
                          Render, FailStatement
      <3>2. Moves(r, w) /\ UNCHANGED <<server, tx, victims, panics>> /\ ~InStatements(r)
        BY <2>1, <3>1, MovesBy DEF TakeWriter, TakeReader, Unavailable, BeginUnprepared,
                                   Finish, Render, FailStatement, InStatements, At, NoMore
      <3> QED
        BY <1>1, <3>2 DEF Moves, KeepsPage, InStatements, tx
    <2>2. CASE Begin(r)
      <3>1. Moves(r, "running") /\ UNCHANGED <<server, victims, panics>> /\ InTx(r)
        BY <2>0, <2>2, MovesBy DEF Begin, Transaction, TransactionOf
      <3>2. InStatements(r)'
        BY <3>1 DEF Moves, KeepsPage, InStatements
      <3> QED
        BY <3>1, <3>2 DEF Victims, LeftOpen
    <2>3. CASE BeginFails(r)
      <3>1. ~inTx' /\ UNCHANGED panics
        BY <2>3 DEF BeginFails, Rollback
      <3>2. CASE inTx
        <4>1. Post(r) /\ req[r].at \in Holding /\ ~InStatements(r)
          BY <2>3 DEF BeginFails, Transaction, TransactionOf, At, InTx, Holding,
                      InStatements
        <4>2. LeftOpen
          BY <3>2, <4>1, Alone DEF LeftOpen, InStatements, InTx, Holding
        <4>3. victims' = victims + 1
          BY <2>3, <3>2 DEF BeginFails
        <4> QED
          BY <1>0, <3>1, <4>2, <4>3 DEF Victims, LeftOpen
      <3>3. CASE ~inTx
        BY <2>3, <3>1, <3>3 DEF BeginFails, Victims, LeftOpen
      <3> QED
        BY <3>2, <3>3
    <2>4. CASE Commit(r) \/ CommitFails(r) \/ (FailStatement(r) /\ InTx(r))
      BY <2>4 DEF Commit, CommitFails, FailStatement, Rollback, Victims, LeftOpen
    <2>5. CASE Statement(r) \/ CallElsewhere(r) \/ Answer(r) \/ TimeOut(r)
      <3>1. /\ GoOn(r) /\ UNCHANGED <<server, inTx, victims, panics>>
            /\ req[r].step <= Len(req[r].blocks)
        BY <2>5 DEF Statement, CallElsewhere, Calls, Answer, TimeOut, MoreOf, At,
                    Transaction, TransactionOf, tx
      <3>2. Advances(r)
        BY <3>1, AdvancesBy
      <3> QED
        BY <1>1, <3>1, <3>2 DEF Advances, KeepsPage, InStatements
    <2>6. CASE Panic(r)
      BY <1>0, <2>6 DEF Panic, Victims
    <2>7. CASE Call(r)
      <3>1. UNCHANGED <<server, tx, victims, panics>>
        BY <2>7 DEF Call
      <3>2. PICK q \in Request \ {r} :
               Joins(q) /\ \A p \in Request \ {q, r} : req'[p].at = req[p].at
        BY <2>7, CallJoins
      <3>3. req'[r].at = "calling" /\ ~InStatements(q)
        BY <2>7, <3>2, CallJoins DEF Joins, InStatements, At
      <3> QED
        BY <1>1, <3>1, <3>2, <3>3 DEF Joins, KeepsPage, InStatements, tx
    <2> QED
      BY <1>2, <2>1, <2>2, <2>3, <2>4, <2>5, <2>6, <2>7 DEF Handle
  <1>3. ASSUME NEW r \in Request, Ask(r) PROVE Victims'
    <2>1. Joins(r) /\ \A p \in Request : p # r => req'[p].at = req[p].at
      BY <1>3, AskJoins
    <2>2. UNCHANGED <<server, tx, victims, panics>>
      BY <1>3 DEF Ask
    <2> QED
      BY <1>1, <2>1, <2>2 DEF Joins, KeepsPage, InStatements, At, tx
  <1>4. CASE Close \/ Crash
    BY <1>4 DEF Close, CloseWriter, CloseReaders, Crash, End, Rollback, Victims, LeftOpen
  <1>5. CASE Signal \/ UNCHANGED vars \/ \E r \in Request : GoAway(r)
    <2>1. UNCHANGED <<server, req, tx, victims, panics>>
      BY <1>5 DEF Signal, vars, GoAway
    <2> QED
      BY <1>1, <2>1 DEF InStatements, InTx, Post, tx
  <1> QED
    BY <1>2, <1>3, <1>4, <1>5 DEF Next

-----------------------------------------------------------------------------
(* At the start nothing has been asked, written or left behind.            *)
LEMMA InitInv == Init => PagesInv
  <1> SUFFICES ASSUME Init PROVE PagesInv
    OBVIOUS
  <1>1. Unasked \in ReqType /\ 1 \in 1 .. Len(Unasked.blocks) + 1
    BY DEF Unasked, ReqType, Where
  <1>2. \A r \in Request : req[r] = Unasked /\ At(r, "idle")
    BY DEF Init, At, Unasked
  <1>3. Types
    <2>1. req \in [Request -> ReqType]
      BY <1>1 DEF Init
    <2>2. \A r \in Request : req[r].step \in 1 .. Len(req[r].blocks) + 1
      <3>1. Unasked.step = 1
        BY DEF Unasked
      <3> QED
        BY <1>1, <1>2, <3>1
    <2>3. 0 \in 0 .. MaxFaults /\ 0 \in 0 .. MaxPanics
      BY PagesAssumption
    <2> QED
      BY <2>1, <2>2, <2>3 DEF Init, Types
  <1>4. Pool
    BY FS_EmptySet, PagesAssumption DEF Init, Pool
  <1>5. Holder
    BY <1>2, PagesAssumption DEF Init, Holder, Holding, At
  <1>6. Transaction
    BY <1>2 DEF Init, Transaction, TransactionOf, InStatements, At
  <1>7. Database
    BY <1>2 DEF Init, Database, DatabaseOf, None, At
  <1>8. Victims
    BY DEF Init, Victims, LeftOpen
  <1> QED
    BY <1>3, <1>4, <1>5, <1>6, <1>7, <1>8 DEF PagesInv

(* Every step keeps the invariant.                                         *)
LEMMA StepInv == PagesInv /\ [Next]_vars => PagesInv'
  <1> SUFFICES ASSUME PagesInv, [Next]_vars PROVE PagesInv'
    OBVIOUS
  <1> USE DEF PagesInv
  <1>1. CASE \E r \in Request : Handle(r)
    BY <1>1, NextTypes, NextPool, HandleHolder, HandleTransaction, HandleDatabase,
       NextVictims
  <1>2. CASE \/ \E r \in Request : Ask(r) \/ GoAway(r)
             \/ Signal \/ Close \/ Crash
             \/ UNCHANGED vars
    BY <1>2, NextTypes, NextPool, OtherHolder, OtherTransaction, OtherDatabase,
       NextVictims
  <1> QED
    BY <1>1, <1>2 DEF Next

(* The writer, the transaction, the database and the victims agree with    *)
(* where the requests are, in every state of pkg/server and gopage-v2.     *)
THEOREM PagesInvariant == Spec => []PagesInv
  <1> QED
    BY InitInv, StepInv, PTL DEF Spec

(* The variables keep their types; no more readers are lent out than there *)
(* are, and nothing is drafted outside a transaction.                      *)
THEOREM PageTypes == Spec => []TypeOK
  <1>1. PagesInv => TypeOK
    <2> SUFFICES ASSUME PagesInv PROVE TypeOK
      OBVIOUS
    <2>1. \A r \in Request : /\ req[r].at \in Where
                             /\ req[r].step \in 1 .. Len(req[r].blocks) + 1
                             /\ req[r].from \in Request \cup {Nobody}
      BY DEF PagesInv, Types, ReqType
    <2> QED
      BY <2>1 DEF PagesInv, Types, Pool, Holder, Transaction, TypeOK
  <1> QED
    BY <1>1, PagesInvariant, PTL

(* What a request has written, as its blocks that write.                   *)
LEMMA WrittenBlocks ==
  ASSUME Types, NEW r \in Request
  PROVE  /\ None(r) => Written(r) = {}
         /\ All(r) => Written(r) = Writing(r)
         /\ None(r) \/ All(r) \/ (\E n \in Nat : Upto(r, n)) =>
               \E k \in 0 .. Len(req[r].blocks) : Written(r) = {i \in Writing(r) : i <= k}
  <1>1. /\ DOMAIN req[r].blocks = 1 .. Len(req[r].blocks)
        /\ Writing(r) \subseteq 1 .. Len(req[r].blocks)
        /\ Len(req[r].blocks) \in Nat
    BY WritingBlocks
  <1>2. None(r) => Written(r) = {}
    BY <1>1 DEF None, Written
  <1>3. All(r) => Written(r) = Writing(r)
    BY <1>1 DEF All, Written
  <1>4. None(r) => Upto(r, 1)
    BY Limits
  <1>5. All(r) => Upto(r, Len(req[r].blocks) + 1)
    BY Limits
  <1>6. ASSUME NEW n \in Nat, Upto(r, n)
        PROVE  \E k \in 0 .. Len(req[r].blocks) :
                  Written(r) = {i \in Writing(r) : i <= k}
    <2>1. Written(r) = {i \in Writing(r) : i < n}
      BY <1>1, <1>6 DEF Upto, Written
    <2>2. CASE n = 0
      <3>1. Written(r) = {i \in Writing(r) : i <= 0}
        BY <1>1, <2>1, <2>2
      <3> QED
        BY <1>1, <3>1
    <2>3. CASE n > 0 /\ n - 1 <= Len(req[r].blocks)
      <3>1. Written(r) = {i \in Writing(r) : i <= n - 1}
        BY <1>1, <2>1, <2>3
      <3> QED
        BY <1>1, <2>3, <3>1
    <2>4. CASE n - 1 > Len(req[r].blocks)
      <3>1. Written(r) = {i \in Writing(r) : i <= Len(req[r].blocks)}
        BY <1>1, <2>1, <2>4
      <3> QED
        BY <1>1, <3>1
    <2> QED
      BY <1>1, <2>2, <2>3, <2>4
  <1>7. 1 \in Nat /\ Len(req[r].blocks) + 1 \in Nat
    BY <1>1
  <1> QED
    BY <1>2, <1>3, <1>4, <1>5, <1>6, <1>7

(* A POST writes all or nothing in v1 and a prefix of its blocks in v2,    *)
(* and its answer tells which, wherever its handler fails, panics, calls   *)
(* or ends.                                                                *)
THEOREM PagesAllOrNothing == Spec => []AllOrNothing
  <1>1. PagesInv => AllOrNothing
    <2> SUFFICES ASSUME PagesInv, NEW r \in Request
                 PROVE  /\ server = "v1" => Written(r) = {} \/ Written(r) = Writing(r)
                        /\ server = "v2" =>
                              \E k \in 0 .. Len(req[r].blocks) :
                                 Written(r) = {i \in Writing(r) : i <= k}
                        /\ At(r, "done") => Written(r) = Writing(r)
                        /\ server = "v1" /\ At(r, "failed") => Written(r) = {}
      BY DEF AllOrNothing
    <2>1. /\ None(r) => Written(r) = {}
          /\ All(r) => Written(r) = Writing(r)
          /\ None(r) \/ All(r) \/ (\E n \in Nat : Upto(r, n)) =>
                \E k \in 0 .. Len(req[r].blocks) :
                   Written(r) = {i \in Writing(r) : i <= k}
      BY WrittenBlocks DEF PagesInv
    <2>2. req[r].at \in Where /\ req[r].step \in Nat
      BY DEF PagesInv, Types, ReqType
    <2>3. DatabaseOf(r)
      BY DEF PagesInv, Database
    <2>4. server = "v1" => None(r) \/ All(r)
      BY <2>2, <2>3 DEF DatabaseOf, Where, At
    <2>5. server = "v2" => None(r) \/ All(r) \/ (\E n \in Nat : Upto(r, n))
      BY <2>2, <2>3 DEF DatabaseOf, Where, At
    <2>6. /\ At(r, "done") => All(r)
          /\ server = "v1" /\ At(r, "failed") => None(r)
      BY <2>3 DEF DatabaseOf, At
    <2> QED
      BY <2>1, <2>4, <2>5, <2>6
  <1> QED
    BY <1>1, PagesInvariant, PTL

(* A panic in a transaction costs at most one other request.               *)
THEOREM PanicsCostOne == Spec => []OneVictim
  <1>1. PagesInv => OneVictim
    BY DEF PagesInv, Victims, OneVictim
  <1> QED
    BY <1>1, PagesInvariant, PTL
=============================================================================
