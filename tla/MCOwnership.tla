---------------------------- MODULE MCOwnership ----------------------------
(***************************************************************************)
(* Instances of PacketOwnership for TLC.  Every bound is one of the        *)
(* module's constants; the code reaches each of them through the error its *)
(* guard models (OutOfCapacity, GenerationExhausted, Exhausted,            *)
(* Backpressure), so no constraint is needed.                              *)
(***************************************************************************)
EXTENDS PacketOwnership

(* Derived tokens are a prefix over a byte of the domain: three that       *)
(* differ, of which the first has a prefix no larger than the attempts.    *)
MCRawToken == {3 * 2^8 + 128, 4 * 2^8 + 128, 4 * 2^8 + 129}

(* The second token's frame when the second batch begins. *)
MCZeroChecksum == <<{}, {2}>>
=============================================================================
