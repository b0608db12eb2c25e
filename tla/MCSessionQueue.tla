--------------------------- MODULE MCSessionQueue ---------------------------
(* Two users: alice edits in sessions 1 and 2, bob in session 3 if there.  *)
EXTENDS SessionQueue

CONSTANTS alice, bob

MCOwner == [s \in Session |-> IF s <= 2 THEN alice ELSE bob]
=============================================================================
