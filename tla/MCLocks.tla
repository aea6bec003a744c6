-------------------------------- MODULE MCLocks --------------------------------
(* Symmetry for the safety run of Locks. *)
EXTENDS Locks, TLC

Symmetry == Permutations(Sess) \cup Permutations(Handlers)
=============================================================================
