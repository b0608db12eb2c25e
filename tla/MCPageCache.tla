----------------------------- MODULE MCPageCache -----------------------------
(* Two keys and two blocks; pages that fill half of the cache or all of it. *)
EXTENDS PageCache, TLC

Symmetric == Permutations(Key) \cup Permutations(Block)
=============================================================================
