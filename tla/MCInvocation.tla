---------------------------- MODULE MCInvocation ----------------------------
(* ProcessorInvocation for TLC: threads and context types are              *)
(* interchangeable.                                                        *)
EXTENDS ProcessorInvocation

Symmetry == Permutations(Thread) \cup Permutations(Context)
=============================================================================
