------------------------- MODULE MCConflictResolution -------------------------
(* Two sessions that are merged, refused, resolved and merged again, on a  *)
(* root block and two ids to add blocks under or to name as a parent.      *)
EXTENDS ConflictResolution, TLC

Symmetric == Permutations(Session) \cup Permutations(Block \ Root)

(* Bounds: no call of the manager is cut short and none is under way, nor  *)
(* a session open, once a choice was made; nothing is published, and no    *)
(* session has more than one row and one change (MCContentMerge goes       *)
(* further in all but the choices).                                        *)
Small == /\ torn = {} /\ (choices > 0 => calls = {} /\ \A s \in Session : stage[s] # "open")
         /\ \A s \in Session, b \in Block :
               b \in DOMAIN rows[s] => ~rows[s][b].layout.published
         /\ \A s \in Session : Cardinality(DOMAIN rows[s]) <= 1 /\ Len(journal[s]) <= 1
=============================================================================
