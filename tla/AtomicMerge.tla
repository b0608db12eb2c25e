----------------------------- MODULE AtomicMerge -----------------------------
(***************************************************************************)
(* What the merge queue promises: a session is open, then queued, and in   *)
(* the end either all of its change rows are in content.db, once each, or  *)
(* none is; the answer never changes afterwards.                           *)
(***************************************************************************)
EXTENDS Naturals

CONSTANTS Session, MaxEdits

VARIABLES
    fate,     \* what became of each session
    written,  \* the number of its change rows
    content   \* how often each of them was applied

avars == <<fate, written, content>>

ANone(s) == [i \in 1 .. MaxEdits |-> 0]
AAll(s)  == [i \in 1 .. MaxEdits |-> IF i <= written[s] THEN 1 ELSE 0]

AInit ==
    /\ fate    = [s \in Session |-> "open"]
    /\ written = [s \in Session |-> 0]
    /\ content = [s \in Session |-> ANone(s)]

Write(s) ==
    /\ fate[s] = "open"
    /\ written' = [written EXCEPT ![s] = @ + 1]
    /\ UNCHANGED <<fate, content>>

Queue(s) ==
    /\ fate[s] = "open"
    /\ fate' = [fate EXCEPT ![s] = "queued"]
    /\ UNCHANGED <<written, content>>

Apply(s) ==
    /\ fate[s] = "queued"
    /\ fate' = [fate EXCEPT ![s] = "applied"]
    /\ content' = [content EXCEPT ![s] = AAll(s)]
    /\ UNCHANGED written

\* a recovery refuses several sessions in one step
Refuse(S) ==
    /\ \A s \in S : fate[s] = "queued"
    /\ fate' = [s \in Session |-> IF s \in S THEN "refused" ELSE fate[s]]
    /\ UNCHANGED <<written, content>>

Discard(s) ==
    /\ fate[s] \in {"open", "refused"}
    /\ fate' = [fate EXCEPT ![s] = "gone"]
    /\ UNCHANGED <<written, content>>

ANext ==
    \/ \E s \in Session : Write(s) \/ Queue(s) \/ Apply(s) \/ Discard(s)
    \/ \E S \in SUBSET Session : Refuse(S)

Spec == AInit /\ [][ANext]_avars
=============================================================================
