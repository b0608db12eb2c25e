---------------------------- MODULE MCContentMerge ----------------------------
(* Two sessions on a root block and a block either may add.                *)
EXTENDS ContentMerge, TLC

Symmetric == Permutations(Session)

(* Bounds: a session has one row and two changes, or two rows and one; one *)
(* call is cut short.                                                      *)
Small == /\ \A s \in Session : Cardinality(DOMAIN rows[s]) + Len(journal[s]) <= 3
         /\ Cardinality(torn) <= 1
=============================================================================
