------------------------------ MODULE MCLCache ------------------------------
(* LCache on small instances. *)
EXTENDS LCache, TLC

Symm == Permutations(Threads) \cup Permutations(Keys)
=============================================================================
