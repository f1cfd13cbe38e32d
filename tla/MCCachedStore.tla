---------------------------- MODULE MCCachedStore ----------------------------
(* CachedStore on a few keys and values. *)
EXTENDS CacheInvariants, TLC

Symmetry == Permutations(Key) \cup Permutations(Value)
=============================================================================
