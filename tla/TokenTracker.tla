---------------------------- MODULE TokenTracker ----------------------------
(***************************************************************************)
(* The adapter's token registry: the exact ownership state of every token  *)
(* and the two counters that shutdown verification compares.               *)
(*                                                                         *)
(* A failed transition changes nothing in the code, so it is a disabled    *)
(* transition here; what a caller does after the error belongs to the      *)
(* modules that compose this one.                                          *)
(***************************************************************************)
EXTENDS Naturals, FiniteSets

CONSTANT NumTokens      \* capacity of the registry: states.len

ASSUME NumTokensAssumption == NumTokens \in Nat

Token == 1 .. NumTokens

VARIABLES
  registered,           \* tokens 1 .. registered have been handed out
  tokenState,           \* TokenState of every token
  received,             \* receive transitions observed
  finalCompletions      \* final completion transitions observed

trackerVars == <<registered, tokenState, received, finalCompletions>>

FinalState == {"returned_to_input", "completed"}

OutstandingState == {"worker_owned", "output_owned", "retained"}

(* "unregistered" stands for the unwritten entries of states.              *)
TokenState ==
  {"unregistered", "input_owned"} \cup OutstandingState \cup FinalState

TrackerTypeOK ==
  /\ registered \in 0 .. NumTokens
  /\ tokenState \in [Token -> TokenState]
  /\ received \in Nat
  /\ finalCompletions \in Nat

TrackerInit ==
  /\ registered = 0
  /\ tokenState = [t \in Token |-> "unregistered"]
  /\ received = 0
  /\ finalCompletions = 0

(* registerInput: the next token, owned by the input adapter. *)
RegisterInput ==
  /\ registered < NumTokens
  /\ registered' = registered + 1
  /\ tokenState' = [tokenState EXCEPT ![registered + 1] = "input_owned"]
  /\ UNCHANGED <<received, finalCompletions>>

(* Deviation: a completion is accepted from any state that is not final. *)
Transfer_NoSourceCheck(S, from, to) ==
  /\ S \subseteq 1 .. registered
  /\ \A t \in S : tokenState[t] \notin FinalState
  /\ tokenState' = [t \in Token |-> IF t \in S THEN to ELSE tokenState[t]]
  /\ received' = IF to = "worker_owned" THEN received + Cardinality(S)
                                        ELSE received
  /\ finalCompletions' = IF to \in FinalState
                           THEN finalCompletions + Cardinality(S)
                           ELSE finalCompletions
  /\ UNCHANGED registered

(***************************************************************************)
(* apply for every token of S at once: each one must be in the state the   *)
(* transition starts from (transitioned), and the counters follow.         *)
(***************************************************************************)
Transfer(S, from, to) ==
  /\ S \subseteq 1 .. registered
  /\ \A t \in S : tokenState[t] = from
  /\ tokenState' = [t \in Token |-> IF t \in S THEN to ELSE tokenState[t]]
  /\ received' = IF to = "worker_owned" THEN received + Cardinality(S)
                                        ELSE received
  /\ finalCompletions' = IF to \in FinalState
                           THEN finalCompletions + Cardinality(S)
                           ELSE finalCompletions
  /\ UNCHANGED registered

ReceiveTokens(S) == Transfer(S, "input_owned", "worker_owned")
SubmitOutput(t) == Transfer({t}, "worker_owned", "output_owned")
ReturnToInput(t) == Transfer({t}, "worker_owned", "returned_to_input")
RetainToken(t) == Transfer({t}, "worker_owned", "retained")
CompleteOutput(t) == Transfer({t}, "output_owned", "completed")
CompleteRetention(t) == Transfer({t}, "retained", "completed")

(* submitOutput followed by completeOutput in one call of the output queue *)
(* (accept_immediate): no other code runs between the two transitions.     *)
SubmitAndComplete(t) == Transfer({t}, "worker_owned", "completed")

(* verifyReceivedCompleted succeeds. *)
ReceivedCompleted ==
  /\ \A t \in 1 .. registered : tokenState[t] \notin OutstandingState
  /\ finalCompletions = received
=============================================================================
