-------------------------- MODULE ConflictResolution --------------------------
(***************************************************************************)
(* The resolver of v2/pkg/conflicts, which works on the file of a session  *)
(* whose merge was refused: it finds the conflicts and applies to each the *)
(* choice of the user, by statements on rows, journal and dependencies     *)
(* that no transaction holds together, reading content.db before some of   *)
(* them.  The session is then merged again, by ContentMerge's merger.      *)
(*                                                                         *)
(* Nothing in the repository calls the resolver yet (the handlers of       *)
(* v2/pkg/api are stubs) or puts a resolved session back into the queue;   *)
(* Requeue stands for whoever does.                                        *)
(***************************************************************************)
EXTENDS ContentMerge

CONSTANTS
    MaxChoices  \* bound: resolutions applied

ASSUME ChoiceAssumption == MaxChoices \in Nat

VARIABLES
    doing,     \* the resolution that stands between two statements
    dropped,   \* history: <<s, b>> of discards that ended
    choices    \* counter of the bound

choosing == <<doing, dropped, choices>>
rvars    == <<vars, choosing>>

Nothing == [does |-> "nothing"]

RInit == Init /\ doing = Nothing /\ dropped = {} /\ choices = 0

-----------------------------------------------------------------------------
(* ApplyResolution.  It does not ask whether the block is in a conflict,   *)
(* or whether the choice is one for the conflict it is in.  An UPDATE of a *)
(* row that the session does not have changes nothing and is left out.     *)

Choice(s) ==
    /\ stage[s] = "failed" /\ doing = Nothing
    /\ choices < MaxChoices /\ choices' = choices + 1
    /\ UNCHANGED <<content, journal, stage, calls, tx, torn, made>>

Goes(s, step) == stage[s] = "failed" /\ doing.does = step /\ doing.on = s

\* keep_session and keep_content begin with what content.db has
Begin(s, b, step) ==
    /\ Choice(s) /\ b \in DOMAIN content
    /\ doing' = [does |-> step, on |-> s, block |-> b, row |-> content[b]]
    /\ UNCHANGED <<rows, deps, dropped>>

\* the hash alone
ReadHash(s, b) == Begin(s, b, "keep_session")

\* the row with its times, which is ScanFails' case as long as they are TEXT
ReadBlock(s, b) == TypedTimes /\ Begin(s, b, "keep_content")

\* the user has seen what content.db had: base, a history field, says so
UpdateSnapshotHash(s) ==
    /\ Goes(s, "keep_session")
    /\ deps' = IF doing.block \in DOMAIN deps[s]
               THEN [deps EXCEPT ![s][doing.block] = doing.row.text] ELSE deps
    /\ rows' = IF doing.block \in DOMAIN rows[s]
               THEN [rows EXCEPT ![s][doing.block].base = doing.row] ELSE rows
    /\ doing' = Nothing
    /\ UNCHANGED <<content, journal, stage, calls, tx, torn, made, dropped, choices>>

\* neither the snapshot nor the journal, nor what is published or deleted
ReplaceWithContentVersion(s) ==
    /\ Goes(s, "keep_content")
    /\ rows' = IF doing.block \in DOMAIN rows[s]
               THEN [rows EXCEPT ![s][doing.block].text = doing.row.text,
                                 ![s][doing.block].layout =
                                    [@ EXCEPT !.place = doing.row.layout.place],
                                 ![s][doing.block].parent = doing.row.parent,
                                 ![s][doing.block].dirty = FALSE]
               ELSE rows
    /\ doing' = Nothing
    /\ UNCHANGED <<content, deps, journal, stage, calls, tx, torn, made, dropped, choices>>

\* a merged text that puts the conflict to rest
MergedAndSettled(s, b) ==
    /\ Choice(s) /\ b \in DOMAIN rows[s]
    /\ \E t \in Text, p \in Place :
          rows' = [rows EXCEPT ![s][b].text = t, ![s][b].layout = [@ EXCEPT !.place = p],
                               ![s][b].dirty = TRUE]
    /\ deps' = [deps EXCEPT ![s] = [c \in DOMAIN @ \ {b} |-> @[c]]]
    /\ UNCHANGED <<doing, dropped>>

ApplyMergedBlock(s, b) ==
    /\ Choice(s) /\ b \in DOMAIN rows[s]
    /\ \E t \in Text, p \in Place :
          rows' = [rows EXCEPT ![s][b].text = t, ![s][b].layout = [@ EXCEPT !.place = p],
                               ![s][b].dirty = TRUE]
    /\ UNCHANGED <<deps, doing, dropped>>

\* no insertion is added to the journal
MarkAsNew(s, b) ==
    /\ Choice(s) /\ b \in DOMAIN rows[s]
    /\ rows' = [rows EXCEPT ![s][b].new = TRUE, ![s][b].dirty = TRUE]
    /\ UNCHANGED <<deps, doing, dropped>>

\* a move that does not make the row dirty
MoveQuietly(s, b) ==
    /\ Choice(s) /\ b \in DOMAIN rows[s]
    /\ \E p \in Block \cup {NoBlock} :
          rows' = [rows EXCEPT ![s][b].parent = p, ![s][b].dirty = FALSE]
    /\ UNCHANGED <<deps, doing, dropped>>

\* updateParent, and makeRoot for NoBlock
UpdateParent(s, b) ==
    /\ Choice(s) /\ b \in DOMAIN rows[s]
    /\ \E p \in Block \cup {NoBlock} :
          rows' = [rows EXCEPT ![s][b].parent = p, ![s][b].dirty = TRUE]
    /\ UNCHANGED <<deps, doing, dropped>>

(* discardBlock: the row, the journal entries, the snapshot.               *)

\* the changes of the other blocks: SelectSeq, as a function one can reason about
Without(changes, b) ==
    LET kept[i \in 0 .. Len(changes)] ==
          IF i = 0 THEN <<>>
          ELSE IF changes[i].block = b THEN kept[i - 1]
          ELSE Append(kept[i - 1], changes[i])
    IN  kept[Len(changes)]

DiscardRow(s, b) ==
    /\ Choice(s)
    /\ rows' = [rows EXCEPT ![s] = [c \in DOMAIN @ \ {b} |-> @[c]]]
    /\ doing' = [does |-> "discard", on |-> s, block |-> b]
    /\ UNCHANGED <<deps, dropped>>

\* the row is gone, so its changes are thought to be
DiscardRowOnly(s) ==
    /\ Goes(s, "discard")
    /\ dropped' = dropped \cup {<<s, doing.block>>}
    /\ doing' = Nothing
    /\ UNCHANGED <<vars, choices>>

DiscardChanges(s) ==
    /\ Goes(s, "discard")
    /\ journal' = [journal EXCEPT ![s] = Without(@, doing.block)]
    /\ doing' = [doing EXCEPT !.does = "discard_deps"]
    /\ UNCHANGED <<content, rows, deps, stage, calls, tx, torn, made, dropped, choices>>

DiscardDeps(s) ==
    /\ Goes(s, "discard_deps")
    /\ deps' = [deps EXCEPT ![s] = [b \in DOMAIN @ \ {doing.block} |-> @[b]]]
    /\ dropped' = dropped \cup {<<s, doing.block>>}
    /\ doing' = Nothing
    /\ UNCHANGED <<content, rows, journal, stage, calls, tx, torn, made, choices>>

\* the request is cancelled, the process ends, or the file was moved
Abort ==
    /\ doing # Nothing
    /\ doing' = Nothing
    /\ UNCHANGED <<vars, dropped, choices>>

-----------------------------------------------------------------------------
Requeue(s) ==
    /\ stage[s] = "failed" /\ choices > 0
    /\ stage' = [stage EXCEPT ![s] = "queued"]
    /\ UNCHANGED <<content, rows, deps, journal, calls, tx, torn, made, choosing>>

Resolve(s, b) ==
    \/ ReadHash(s, b) \/ ReadBlock(s, b)
    \/ ApplyMergedBlock(s, b) \/ MarkAsNew(s, b) \/ UpdateParent(s, b)
    \/ DiscardRow(s, b)

ResolverStep(s) ==
    \/ UpdateSnapshotHash(s) \/ ReplaceWithContentVersion(s)
    \/ DiscardChanges(s) \/ DiscardDeps(s)

RNext ==
    \/ Next /\ UNCHANGED choosing
    \/ \E s \in Session, b \in Block : Resolve(s, b)
    \/ \E s \in Session : ResolverStep(s) \/ Requeue(s)
    \/ Abort

RSpec == RInit /\ [][RNext]_rvars

-----------------------------------------------------------------------------
RTypeOK ==
    /\ TypeOK
    /\ \/ doing = Nothing
       \/ doing \in [does : {"keep_session", "keep_content"}, on : Session,
                     block : Block, row : Stored]
       \/ doing \in [does : {"discard", "discard_deps"}, on : Session, block : Block]
    /\ dropped \subseteq Session \X Block
    /\ choices \in 0 .. MaxChoices

(* The types, and no choice of a parent that leaves a block an orphan.     *)
RConsistent == RTypeOK /\ ParentsExist

(* What the user has discarded is not merged: neither the text nor the     *)
(* deletion of the block changes when its session is merged after all.     *)
DiscardHolds ==
    [][\A s \in Session : stage[s] = "merging" /\ stage'[s] = "merged" =>
          \A b \in DOMAIN content :
             <<s, b>> \in dropped => content'[b] = content[b]]_rvars
=============================================================================
