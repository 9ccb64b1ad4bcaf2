--------------------------- MODULE JournalOutcome ---------------------------
(***************************************************************************)
(* What an output can tell of a slot's MutationJournal, and how it moves.  *)
(* BatchOwner uses this in place of the journal; PacketMutation has the    *)
(* journal and implements it.                                              *)
(***************************************************************************)

(* clean: no mutation recorded; unfinalized: needsFinalize and not         *)
(* finalized; failed: invalid or edit_failed, which nothing ever clears.   *)
Journal == {"clean", "unfinalized", "finalized", "failed"}

(* A write records the mutation or marks the failure.                      *)
Written(state) == IF state = "failed" THEN {"failed"}
                                      ELSE {"unfinalized", "failed"}

(* finalizeContext: nothing to do, or headers rewritten, or rolled back.   *)
Finalized(state) ==
  IF state \in {"unfinalized", "finalized"} THEN {"finalized", "failed"}
                                            ELSE {state}
=============================================================================
