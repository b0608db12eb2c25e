---------------------------- MODULE ContentMerge ----------------------------
(***************************************************************************)
(* What an editing session says and what its merge does to content.db.     *)
(*                                                                         *)
(* A session copies blocks of content.db into its own file, with the hash  *)
(* they had (_structural_deps), changes the copies, adds blocks, and keeps *)
(* a journal (_changes) of operation and block.  The merger compares the   *)
(* hashes with those of content.db, looks for the parents of the changed   *)
(* blocks, and replays the journal in one transaction, taking the values   *)
(* from the session's rows (v2/pkg/session/manager.go, v2/pkg/merger).     *)
(*                                                                         *)
(* Every operation of the manager is two or three SQL statements without a *)
(* transaction: a cancelled request, a crash or the move of the file to    *)
(* the queue may cut it short.  How a session gets to the queue and its    *)
(* file through it is the subject of SessionQueue.                         *)
(***************************************************************************)
EXTENDS Naturals, Sequences, FiniteSets

CONSTANTS
    Session, Block,
    Text,        \* contents of a block; the hash of a block tells them apart
    Place,       \* positions and HTML of a block: the hash leaves them out
    NoBlock,     \* parent of a root block
    Root,        \* the blocks content.db holds at first
    FirstText, FirstPlace,
    TypedTimes,  \* content.db's times come back as times: see ScanFails
    MaxCalls,    \* bound: calls of the API made in all
    MaxInFlight  \* bound: calls of the API in flight

ASSUME ContentAssumption ==
    /\ NoBlock \notin Block /\ Root \subseteq Block
    /\ FirstText \in Text /\ FirstPlace \in Place /\ TypedTimes \in BOOLEAN
    /\ MaxCalls \in Nat /\ MaxInFlight \in Nat

VARIABLES
    content,  \* blocks of content.db: a set of rows with distinct ids
    rows,     \* blocks in each session's file
    deps,     \* _structural_deps of each session: block and hash
    journal,  \* _changes of each session
    stage,    \* "open", "queued", "merging", "merged" or "failed"
    calls,    \* calls between two of their statements
    tx,       \* the merger's transaction
    torn,     \* history: <<s, b>> of calls cut short or overlapping
    made      \* counter of the bound

vars == <<content, rows, deps, journal, stage, calls, tx, torn, made>>

-----------------------------------------------------------------------------
(* A table is a function from the ids it holds to their rows.              *)

Layout == [place : Place, published : BOOLEAN]

Stored == [text : Text, layout : Layout, parent : Block \cup {NoBlock},
           deleted : BOOLEAN]

(* A session's row also has _dirty and _source; base is a history field,   *)
(* the row of content.db it was copied from.                               *)
Edited == [text : Text, layout : Layout, parent : Block \cup {NoBlock},
           deleted : BOOLEAN, dirty : BOOLEAN, new : BOOLEAN, base : Stored]

IsTable(table, Row) ==
    DOMAIN table \subseteq Block /\ table \in [DOMAIN table -> Row]

Put(table, b, row) ==
    [c \in DOMAIN table \cup {b} |-> IF c = b THEN row ELSE table[c]]

EditedRow(row, dirty, new, base) ==
    [text |-> row.text, layout |-> row.layout, parent |-> row.parent,
     deleted |-> row.deleted, dirty |-> dirty, new |-> new, base |-> base]

First == [text |-> FirstText, parent |-> NoBlock, deleted |-> FALSE,
          layout |-> [place |-> FirstPlace, published |-> FALSE]]

NoTx == [on |-> "nobody"]

Init ==
    /\ content = [b \in Root |-> First]
    /\ rows    = [s \in Session |-> <<>>]
    /\ deps    = [s \in Session |-> <<>>]
    /\ journal = [s \in Session |-> <<>>]
    /\ stage   = [s \in Session |-> "open"]
    /\ calls   = {}
    /\ tx      = NoTx
    /\ torn    = {}
    /\ made    = 0

-----------------------------------------------------------------------------
(* Calls.  "read": CopyBlock has its row of content.db, still to be        *)
(* scanned; "copied": it has written the session's row; "insert",          *)
(* "update", "delete": the row is written, the journal is not.             *)

Start(call) ==
    /\ stage[call.on] = "open"
    /\ call \notin calls /\ Cardinality(calls) < MaxInFlight
    /\ calls' = calls \cup {call}
    /\ made < MaxCalls /\ made' = made + 1
    /\ torn' = IF \E c \in calls : c.on = call.on /\ c.block = call.block
               THEN torn \cup {<<call.on, call.block>>} ELSE torn

CopyBlock(s, b) ==
    /\ b \in DOMAIN content
    /\ Start([at |-> "read", on |-> s, block |-> b, row |-> content[b]])
    /\ UNCHANGED <<content, rows, deps, journal, stage, tx>>

(* database/sql refuses to scan a string into a time.Time.  The driver     *)
(* returns strings for the columns created_at and updated_at as long as    *)
(* schema_content.sql declares them TEXT, so that every copy ends here     *)
(* (TypedTimes = FALSE) until they are declared as times.  A scan may fail *)
(* then, too: the request is cancelled, or content.db is locked.           *)
ScanFails ==
    /\ \E c \in calls :
        /\ c.at = "read" /\ stage[c.on] = "open"
        /\ calls' = calls \ {c}
    /\ UNCHANGED <<content, rows, deps, journal, stage, tx, torn, made>>

\* INSERT OR REPLACE: a second copy of a block undoes the edits of its row
CopyRow ==
    /\ TypedTimes
    /\ \E c \in calls :
        /\ c.at = "read" /\ stage[c.on] = "open"
        /\ [c EXCEPT !.at = "copied"] \notin calls
        /\ rows' = [rows EXCEPT ![c.on] =
                       Put(@, c.block, EditedRow(c.row, FALSE, FALSE, c.row))]
        /\ calls' = (calls \ {c}) \cup {[c EXCEPT !.at = "copied"]}
    /\ UNCHANGED <<content, deps, journal, stage, tx, torn, made>>

CopyDeps ==
    /\ \E c \in calls :
        /\ c.at = "copied" /\ stage[c.on] = "open"
        /\ deps' = [deps EXCEPT ![c.on] = Put(@, c.block, c.row.text)]
        /\ calls' = calls \ {c}
    /\ UNCHANGED <<content, rows, journal, stage, tx, torn, made>>

\* the parent is not among the columns of this UPDATE
UpdateBlock(s, b) ==
    /\ Start([at |-> "update", on |-> s, block |-> b])
    /\ \E t \in Text, l \in Layout :
          rows' = IF b \in DOMAIN rows[s]
                  THEN [rows EXCEPT ![s][b].text = t, ![s][b].layout = l,
                                    ![s][b].dirty = TRUE]
                  ELSE rows
    /\ UNCHANGED <<content, deps, journal, stage, tx>>

\* the id and the parent may be the client's; text and layout are the first ones
InsertBlock(s, b) ==
    /\ b \notin DOMAIN rows[s]
    /\ Start([at |-> "insert", on |-> s, block |-> b])
    /\ \E p \in Block \cup {NoBlock} :
          rows' = [rows EXCEPT ![s] = Put(@, b,
                     EditedRow([First EXCEPT !.parent = p], TRUE, TRUE, First))]
    /\ UNCHANGED <<content, deps, journal, stage, tx>>

DeleteBlock(s, b) ==
    /\ Start([at |-> "delete", on |-> s, block |-> b])
    /\ rows' = IF b \in DOMAIN rows[s]
               THEN [rows EXCEPT ![s][b].deleted = TRUE, ![s][b].dirty = TRUE]
               ELSE rows
    /\ UNCHANGED <<content, deps, journal, stage, tx>>

LogChange ==
    /\ \E c \in calls :
        /\ c.at \in {"insert", "update", "delete"} /\ stage[c.on] = "open"
        /\ journal' = [journal EXCEPT ![c.on] =
                          Append(@, [op |-> c.at, block |-> c.block])]
        /\ calls' = calls \ {c}
    /\ UNCHANGED <<content, rows, deps, stage, tx, torn, made>>

\* the request is cancelled, or its file is no longer in sessions/
CutShort ==
    /\ \E c \in calls :
        /\ calls' = calls \ {c}
        /\ torn' = torn \cup {<<c.on, c.block>>}
    /\ UNCHANGED <<content, rows, deps, journal, stage, tx, made>>

\* a status where the queue expects a place
SubmitAsStatus(s) ==
    /\ stage[s] = "open"
    /\ stage' = [stage EXCEPT ![s] = "submitted"]
    /\ UNCHANGED <<content, rows, deps, journal, calls, tx, torn, made>>

\* Submit, and the move of the file to queue/pending/
Submit(s) ==
    /\ stage[s] = "open"
    /\ stage' = [stage EXCEPT ![s] = "queued"]
    /\ UNCHANGED <<content, rows, deps, journal, calls, tx, torn, made>>

-----------------------------------------------------------------------------
(* The merger.                                                             *)

\* deletions are soft, so the id of a deleted block is still found
ContentConflicts(s) ==
    {b \in DOMAIN deps[s] :
        b \notin DOMAIN content \/ content[b].text # deps[s][b]}

\* a check that trusts the parents of new blocks
StructureOfCopies(s) ==
    {b \in DOMAIN rows[s] :
        LET p == rows[s][b].parent
        IN  /\ rows[s][b].dirty /\ ~rows[s][b].new
            /\ p # NoBlock /\ p \notin DOMAIN content}

StructureConflicts(s) ==
    {b \in DOMAIN rows[s] :
        LET p == rows[s][b].parent
        IN  /\ rows[s][b].dirty /\ p # NoBlock /\ p \notin DOMAIN content
            /\ ~ (p \in DOMAIN rows[s] /\ rows[s][p].new)}

\* a merge that believes what the session says of itself
AcceptUnchecked(s) ==
    /\ stage[s] = "queued" /\ tx = NoTx
    /\ stage' = [stage EXCEPT ![s] = "merging"]
    /\ tx' = [on |-> s, draft |-> content, todo |-> journal[s]]
    /\ UNCHANGED <<content, rows, deps, journal, calls, torn, made>>

Accept(s) ==
    /\ stage[s] = "queued" /\ tx = NoTx
    /\ ContentConflicts(s) = {} /\ StructureConflicts(s) = {}
    /\ stage' = [stage EXCEPT ![s] = "merging"]
    /\ tx' = [on |-> s, draft |-> content, todo |-> journal[s]]
    /\ UNCHANGED <<content, rows, deps, journal, calls, torn, made>>

Refuse(s) ==
    /\ stage[s] = "queued" /\ tx = NoTx
    /\ ContentConflicts(s) # {} \/ StructureConflicts(s) # {}
    /\ stage' = [stage EXCEPT ![s] = "failed"]
    /\ UNCHANGED <<content, rows, deps, journal, calls, tx, torn, made>>

Replaying(op) == tx # NoTx /\ tx.todo # <<>> /\ Head(tx.todo).op = op

Replay(draft) ==
    /\ tx' = [tx EXCEPT !.draft = draft, !.todo = Tail(@)]
    /\ UNCHANGED <<content, rows, deps, journal, stage, calls, torn, made>>

ApplyInsert ==
    /\ Replaying("insert")
    /\ LET b == Head(tx.todo).block
           row == rows[tx.on][b]
       IN  /\ b \in DOMAIN rows[tx.on] \ DOMAIN tx.draft
           /\ Replay(Put(tx.draft, b, [text |-> row.text, layout |-> row.layout,
                                       parent |-> row.parent, deleted |-> FALSE]))

\* an update that also writes what the session knows of the deletion
ApplyWholeRow ==
    /\ Replaying("update")
    /\ LET b == Head(tx.todo).block
           row == rows[tx.on][b]
       IN  /\ b \in DOMAIN rows[tx.on]
           /\ Replay(IF b \in DOMAIN tx.draft
                     THEN [tx.draft EXCEPT ![b].text = row.text,
                                           ![b].layout = row.layout,
                                           ![b].deleted = row.deleted]
                     ELSE tx.draft)

ApplyUpdate ==
    /\ Replaying("update")
    /\ LET b == Head(tx.todo).block
           row == rows[tx.on][b]
       IN  /\ b \in DOMAIN rows[tx.on]
           /\ Replay(IF b \in DOMAIN tx.draft
                     THEN [tx.draft EXCEPT ![b].text = row.text,
                                           ![b].layout = row.layout]
                     ELSE tx.draft)

ApplyDelete ==
    /\ Replaying("delete")
    /\ LET b == Head(tx.todo).block
       IN  Replay(IF b \in DOMAIN tx.draft
                  THEN [tx.draft EXCEPT ![b].deleted = TRUE]
                  ELSE tx.draft)

\* the session has no such row, or content.db already has an inserted one
Rollback ==
    /\ tx # NoTx /\ tx.todo # <<>>
    /\ LET change == Head(tx.todo)
       IN  \/ /\ change.op \in {"insert", "update"}
              /\ change.block \notin DOMAIN rows[tx.on]
           \/ /\ change.op = "insert" /\ change.block \in DOMAIN tx.draft
    /\ stage' = [stage EXCEPT ![tx.on] = "failed"]
    /\ tx' = NoTx
    /\ UNCHANGED <<content, rows, deps, journal, calls, torn, made>>

\* a commit before the journal is exhausted
CommitEarly ==
    /\ tx # NoTx
    /\ content' = tx.draft
    /\ stage' = [stage EXCEPT ![tx.on] = "merged"]
    /\ tx' = NoTx
    /\ UNCHANGED <<rows, deps, journal, calls, torn, made>>

Commit ==
    /\ tx # NoTx /\ tx.todo = <<>>
    /\ content' = tx.draft
    /\ stage' = [stage EXCEPT ![tx.on] = "merged"]
    /\ tx' = NoTx
    /\ UNCHANGED <<rows, deps, journal, calls, torn, made>>

-----------------------------------------------------------------------------
(* A crash cuts every call short and rolls the transaction back; restarted,*)
(* the merger moves the session it was merging to queue/failed/.           *)
Crash ==
    /\ calls # {} \/ tx # NoTx
    /\ calls' = {}
    /\ torn' = torn \cup {<<c.on, c.block>> : c \in calls}
    /\ tx' = NoTx
    /\ stage' = [s \in Session |->
                    IF stage[s] = "merging" THEN "failed" ELSE stage[s]]
    /\ UNCHANGED <<content, rows, deps, journal, made>>

SessionStep(s, b) ==
    CopyBlock(s, b) \/ UpdateBlock(s, b) \/ InsertBlock(s, b) \/ DeleteBlock(s, b)

CallStep == ScanFails \/ CopyRow \/ CopyDeps \/ LogChange \/ CutShort

MergerStep ==
    \/ \E s \in Session : Accept(s) \/ Refuse(s)
    \/ ApplyInsert \/ ApplyUpdate \/ ApplyDelete \/ Rollback \/ Commit

Next ==
    \/ \E s \in Session, b \in Block : SessionStep(s, b)
    \/ \E s \in Session : Submit(s)
    \/ CallStep
    \/ MergerStep
    \/ Crash

Spec == Init /\ [][Next]_vars

-----------------------------------------------------------------------------
CallType ==
    [at : {"read", "copied"}, on : Session, block : Block, row : Stored]
      \cup [at : {"insert", "update", "delete"}, on : Session, block : Block]

ChangeType == [op : {"insert", "update", "delete"}, block : Block]

TypeOK ==
    /\ IsTable(content, Stored)
    /\ \A s \in Session :
          /\ IsTable(rows[s], Edited) /\ IsTable(deps[s], Text)
          /\ journal[s] \in Seq(ChangeType)
    /\ stage \in [Session -> {"open", "queued", "merging", "merged", "failed"}]
    /\ calls \subseteq CallType
    /\ tx = NoTx \/ (/\ tx.on \in Session /\ IsTable(tx.draft, Stored)
                     /\ tx.todo \in Seq(ChangeType))
    /\ torn \subseteq Session \X Block
    /\ made \in 0 .. MaxCalls

(* What the session knows of a block is in doubt: one of its calls on the  *)
(* block was cut short or is in flight, or two of them overlapped.         *)
InDoubt(s, b) ==
    \/ <<s, b>> \in torn
    \/ \E c \in calls : c.on = s /\ c.block = b

(* A block's parent is in content.db, unless the insertion of the parent   *)
(* was cut short between its row and its journal entry.                    *)
ParentsExist ==
    \A b \in DOMAIN content :
        LET p == content[b].parent
        IN  \/ p = NoBlock \/ p \in DOMAIN content
            \/ \E s \in Session : InDoubt(s, p)

(* A merge replaces the text of a block only if that is the text its       *)
(* session has copied: the second of two concurrent editors is refused.    *)
NoLostText ==
    [][\A b \in DOMAIN content : content'[b].text # content[b].text =>
          \E s \in Session :
             /\ stage[s] = "merging" /\ stage'[s] = "merged"
             /\ rows[s][b].base.text = content[b].text \/ InDoubt(s, b)]_vars

(* Merges never take a block out of content.db, bring a deleted one back   *)
(* or move one to another parent.                                          *)
BlocksStay ==
    [][\A b \in DOMAIN content :
          /\ b \in DOMAIN content'
          /\ content'[b].parent = content[b].parent
          /\ content[b].deleted => content'[b].deleted]_vars

AsShown(s, b) ==
    content'[b].text = rows[s][b].text /\ content'[b].layout = rows[s][b].layout

\* whatever a merge makes of a block, it takes nothing from elsewhere
NothingElse(s, b) ==
    b \in DOMAIN content' =>
        \/ AsShown(s, b)
        \/ /\ b \in DOMAIN content
           /\ content'[b].text = content[b].text /\ content'[b].layout = content[b].layout

\* deleted by nobody but the session, or before it was merged
StaysAlive(s, b) ==
    content'[b].deleted =>
        \/ b \in DOMAIN content /\ content[b].deleted
        \/ \E i \in DOMAIN journal[s] : journal[s][i] = [op |-> "delete", block |-> b]

(* A merge is all or nothing.  Every row the session shows as changed is   *)
(* in content.db as the session shows it, under the same parent, when the  *)
(* session is merged, but for one thing: a block that the session has      *)
(* deleted and then copied again is deleted, because the journal still     *)
(* says so.  Of a row in doubt no value gets there but the session's.      *)
MergedAsShown ==
    [][\A s \in Session : stage[s] = "merging" /\ stage'[s] = "merged" =>
          \A b \in DOMAIN rows[s] :
             /\ NothingElse(s, b)
             /\ rows[s][b].dirty /\ ~InDoubt(s, b) =>
                   /\ b \in DOMAIN content'
                   /\ content'[b].parent = rows[s][b].parent
                   /\ IF rows[s][b].deleted
                      THEN content'[b].deleted
                      ELSE AsShown(s, b) /\ StaysAlive(s, b)]_vars
=============================================================================
