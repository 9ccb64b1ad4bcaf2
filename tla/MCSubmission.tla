---------------------------- MODULE MCSubmission ----------------------------
(***************************************************************************)
(* Instances of HarnessSubmission for TLC: three processors with different *)
(* rights and error policies, in any combination and order, and a handful  *)
(* of routing configurations, good and bad.                                *)
(***************************************************************************)
EXTENDS HarnessSubmission

Classifier == [outputs |-> {"a"}, dispositions |-> {"accept", "drop"},
               edits |-> FALSE, onError |-> "terminal_active", terminal |-> "drop"]

Rewriter == [outputs |-> {"b"}, dispositions |-> {"redirect"},
             edits |-> TRUE, onError |-> "continue_active", terminal |-> "drop"]

Guard == [outputs |-> {}, dispositions |-> {"complete"}, edits |-> FALSE,
          onError |-> "terminal_active_and_stop", terminal |-> "complete"]

Observer == [outputs |-> {}, dispositions |-> {}, edits |-> FALSE,
             onError |-> "infallible", terminal |-> "drop"]

MCDescriptors == {Classifier, Rewriter, Guard, Observer}

(* The second packet is received as IPv6 UDP without a checksum. *)
MCZeroChecksum == <<{2}>>

MCConfigs ==
  {[outputs |-> <<"b", "a">>, default |-> "a", onContinue |-> "default"],
   [outputs |-> <<"a", "b">>, default |-> "none", onContinue |-> "b"],
   [outputs |-> <<"a">>, default |-> "a", onContinue |-> "drop"],
   [outputs |-> << >>, default |-> "none", onContinue |-> "complete"],
   [outputs |-> <<"a", "b">>, default |-> "none", onContinue |-> "default"]}
=============================================================================
