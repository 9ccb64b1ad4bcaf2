------------------------- MODULE DispositionRouting -------------------------
(***************************************************************************)
(* End-of-pipeline routing: how the recorded dispositions of one batch     *)
(* become receive-ordered groups under a caller's DispositionConfig.  A    *)
(* redirect is an accept of a named output here; the adapter metadata it   *)
(* carries changes nothing about where the packet goes.                    *)
(***************************************************************************)
EXTENDS Naturals, SequencesExt

CONSTANTS
  Output,               \* OutputId values
  MaxOutputs            \* DispositionGroups.max_outputs

ASSUME DispositionRoutingAssumption ==
  /\ MaxOutputs \in Nat
  /\ Output \cap {"default", "drop", "complete", "continue", "retain", "none"} = {}

(* Accept or Redirect to an output, Accept(null), Drop, Complete. *)
Destination == Output \cup {"default", "drop", "complete"}

(* DispositionConfig; default "none" is a null default_output. *)
Config == [outputs : Seq(Output),
           default : Output \cup {"none"},
           onContinue : Destination]

(* Accept(null) goes to the default output. *)
Target(config, kind) == IF kind = "default" THEN config.default ELSE kind

(* validate *)
Validated(config) ==
  /\ Len(config.outputs) <= MaxOutputs
  /\ IsInjective(config.outputs)
  /\ config.default # "none" => config.default \in ToSet(config.outputs)
  /\ \/ config.onContinue \in {"drop", "complete"}
     \/ Target(config, config.onContinue) \in ToSet(config.outputs)

GroupNames(config) == ToSet(config.outputs) \cup {"drop", "complete", "retain"}

(* A packet left at Continue takes the continue policy. *)
Final(config, kind) == IF kind = "continue" THEN config.onContinue ELSE kind

(* The group resolve appends a packet of this disposition to. *)
Group(config, kind) == Target(config, Final(config, kind))

(* resolve returns no error. *)
Resolvable(config, kinds) ==
  /\ Validated(config)
  /\ \A i \in DOMAIN kinds : Group(config, kinds[i]) \in GroupNames(config)

(* resolve: one pass over the batch in receive order. *)
Resolve(config, kinds) ==
  FoldLeft(LAMBDA groups, i :
             [groups EXCEPT ![Group(config, kinds[i])] = Append(@, i)],
           [name \in GroupNames(config) |-> << >>],
           [i \in DOMAIN kinds |-> i])

(* The output groups one after the other, in configured order. *)
InOutputOrder(config, groups) ==
  FoldLeft(LAMBDA sequence, name : sequence \o groups[name], << >>, config.outputs)
=============================================================================
