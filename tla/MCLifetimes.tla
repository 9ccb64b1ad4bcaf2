----------------------------- MODULE MCLifetimes -----------------------------
(* OwnerLifetimes for TLC: threads and addresses are interchangeable. *)
EXTENDS OwnerLifetimes, TLC

Symmetry == Permutations(Thread) \cup Permutations(Address)
=============================================================================
