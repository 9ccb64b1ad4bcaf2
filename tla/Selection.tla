------------------------------ MODULE Selection ------------------------------
(***************************************************************************)
(* A list comprehension with a condition: what is left of a sequence.  It  *)
(* is given by places, and not with SelectSeq, so that the proofs can look *)
(* inside.                                                                 *)
(***************************************************************************)
EXTENDS Integers, Sequences

(* The elements of seq at these places, in their order.                    *)
ElementsAt(seq, places) ==
  LET upTo[n \in 0 .. Len(seq)] ==
        IF n = 0 THEN << >>
        ELSE IF n \in places THEN Append(upTo[n - 1], seq[n]) ELSE upTo[n - 1]
  IN  upTo[Len(seq)]
=============================================================================
