--------------------------- MODULE StaticPipeline ---------------------------
(***************************************************************************)
(* One call of processBatch on a worker: the checks before the first       *)
(* callback, the stage loop, each stage's processor acting through its     *)
(* ProcessContext, the error policies, and the resolution at the end.      *)
(*                                                                         *)
(* The processors are the environment: within its descriptor a callback    *)
(* does anything, in any order, and returns a result or an error.          *)
(***************************************************************************)
EXTENDS DispositionWriter, DispositionRouting

CONSTANTS
  NumStages,            \* processor_count
  Descriptors,          \* descriptors the stages are generated from
  AppOutputs            \* application_outputs of the prepared pipeline

Stage == 1 .. NumStages

ErrorPolicy ==
  {"infallible", "continue_active", "terminal_active", "terminal_active_and_stop"}

Descriptor == [outputs : SUBSET Output,
               dispositions : SUBSET {"accept", "redirect", "drop", "complete"},
               edits : BOOLEAN,
               onError : ErrorPolicy,
               terminal : Destination]

(* The dispositions the generated context of d lets a processor record. *)
Recordable(d) ==
  UNION {IF "accept" \in d.dispositions THEN {"default"} \cup d.outputs ELSE {},
         IF "redirect" \in d.dispositions THEN d.outputs ELSE {},
         d.dispositions \cap {"drop", "complete"}}

(* validateTerminalPolicy, and validateCapabilities for the outputs. *)
Admitted(d) ==
  /\ d.outputs \subseteq AppOutputs
  /\ d.onError \in {"terminal_active", "terminal_active_and_stop"} =>
       d.terminal \in Recordable(d)

ASSUME StaticPipelineAssumption ==
  /\ NumStages \in Nat
  /\ AppOutputs \subseteq Output
  /\ Descriptors \subseteq Descriptor
  /\ \A d \in Descriptors : Admitted(d)
  /\ Terminal = Destination

VARIABLES
  descriptors,          \* ProcessorTypes, fixed at compile time
  config,               \* the call's disposition_config
  call,                 \* the locals of processBatchOwned
  status,               \* stage_status
  groups                \* the groups of the ExecutionResult

pipelineVars == <<descriptors, config, call, status, groups>>

StageStatus == {"not_run", "ok", "skipped_empty", "failed_continue",
                "failed_terminal", "failed_stop"}

(* idle: not called yet; stage: between stages; callback: a processor      *)
(* runs; returned: with a result; failed: with an error.                   *)
Phase == {"idle", "stage", "callback", "returned", "failed"}

Call == [phase : Phase,
         batch : 0 .. MaxGeneration,
         writer : 0 .. MaxWriterGeneration,
         stage : 1 .. NumStages + 1,
         started : BOOLEAN,          \* callback_started
         activeBefore : SUBSET Slot]

Idle == [phase |-> "idle", batch |-> 0, writer |-> 0, stage |-> 1,
         started |-> FALSE, activeBefore |-> {}]

PipelineTypeOK ==
  /\ descriptors \in [Stage -> Descriptors]
  /\ config \in Config
  /\ call \in Call
  /\ status \in [Stage -> StageStatus]
  /\ \A name \in DOMAIN groups : groups[name] \in Seq(Slot)

PipelineInit(configs) ==
  /\ descriptors \in [Stage -> Descriptors]
  /\ config \in configs
  /\ call = Idle
  /\ status = [k \in Stage |-> "not_run"]
  /\ groups = << >>

(* What a call leaves alone: it neither moves tokens nor retains.          *)
CallFrame == UNCHANGED <<trackerVars, poolVars, descriptors, config>>

-----------------------------------------------------------------------------
(* Before the first callback. *)

(* validateDispositionConfig *)
ConfigAccepted ==
  /\ Validated(config)
  /\ ToSet(config.outputs) \subseteq AppOutputs
  /\ \A k \in Stage :
       /\ descriptors[k].outputs \subseteq ToSet(config.outputs)
       /\ "accept" \in descriptors[k].dispositions => config.default # "none"

(* The checks of processBatchOwned before the first stage, the writer's    *)
(* included; metadataLength is the batch length the caller's metadata was  *)
(* built for.                                                              *)
CallAccepted(g, metadataLength) ==
  /\ BatchLive(g)
  /\ metadataLength = Len(slots)
  /\ ConfigAccepted
  /\ Revocable(g)
  /\ disposition.handle = 0
  /\ nextWriter < MaxWriterGeneration

EnterCall(g, metadataLength) ==
  /\ call.phase = "idle"
  /\ CallAccepted(g, metadataLength)
  /\ InitWriter(g)
  /\ call' = [Idle EXCEPT !.phase = "stage", !.batch = g,
                          !.writer = disposition'.handle]
  /\ UNCHANGED <<ownerVars, status, groups>>
  /\ CallFrame

(* MetadataFailure, DispositionFailure or BatchFailure: nothing happened. *)
RejectCall(g, metadataLength) ==
  /\ call.phase = "idle"
  /\ ~ CallAccepted(g, metadataLength)
  /\ call' = [call EXCEPT !.phase = "failed"]
  /\ UNCHANGED <<ownerVars, writerVars, status, groups>>
  /\ CallFrame

-----------------------------------------------------------------------------
(* The stage loop. *)

(* Deviation: the error returns with the batch still live. *)
FailCall_BatchStaysLive ==
  /\ call' = [call EXCEPT !.phase = "failed"]
  /\ UNCHANGED <<ownerVars, writerVars, status, groups>>
  /\ CallFrame

(* An error is returned; the errdefer revokes the batch once a callback    *)
(* has started.                                                            *)
FailCall ==
  /\ call' = [call EXCEPT !.phase = "failed"]
  /\ IF call.started THEN Invalidate(call.batch) ELSE UNCHANGED ownerVars
  /\ UNCHANGED <<writerVars, status, groups>>
  /\ CallFrame

(* Deviation: any failed stage ends the loop. *)
Halted_OnAnyFailure ==
  \E k \in Stage : status[k] \notin {"not_run", "ok"}

(* stopped or exhausted *)
Halted == \E k \in Stage : status[k] \in {"failed_stop", "skipped_empty"}

StageDue == call.phase = "stage" /\ call.stage <= NumStages /\ ~ Halted

(* The invocation begins and the processor is called. *)
BeginStage ==
  /\ StageDue
  /\ WriterLive(call.writer)
  /\ disposition.active # {}
  /\ call' = [call EXCEPT !.phase = "callback", !.started = TRUE,
                          !.activeBefore = disposition.active]
  /\ UNCHANGED <<ownerVars, writerVars, status, groups>>
  /\ CallFrame

(* InvocationFailure: another invocation is active on this thread, or the  *)
(* identities are exhausted.                                               *)
InvocationFails ==
  /\ StageDue
  /\ WriterLive(call.writer)
  /\ disposition.active # {}
  /\ FailCall

SkipStage ==
  /\ StageDue
  /\ WriterLive(call.writer)
  /\ disposition.active = {}
  /\ status' = [status EXCEPT ![call.stage] = "skipped_empty"]
  /\ UNCHANGED <<ownerVars, writerVars, call, groups>>
  /\ CallFrame

Running == descriptors[call.stage]

(* accept, drop, redirect, complete of the context *)
StageRecords(S, kind) ==
  /\ call.phase = "callback"
  /\ kind \in Recordable(Running)
  /\ RecordTerminal(call.writer, S, kind)
  /\ UNCHANGED <<ownerVars, call, status, groups>>
  /\ CallFrame

(* setIpv4Ttl or finalize, of any packet of the batch the processor names: *)
(* neither asks whether the packet is still active.  trustedRawWrite does  *)
(* the same to the journal; the authority it mints for itself is the       *)
(* subject of PacketOwnership.                                             *)
StageEdits(i) ==
  /\ call.phase = "callback"
  /\ Running.edits
  /\ Edit(call.batch, i) \/ Finalize(call.batch, i)
  /\ UNCHANGED <<writerVars, call, status, groups>>
  /\ CallFrame

StageDone(outcome) ==
  /\ status' = [status EXCEPT ![call.stage] = outcome]
  /\ call' = [call EXCEPT !.phase = "stage", !.stage = @ + 1]
  /\ UNCHANGED groups
  /\ CallFrame

(* A result within the work contract. *)
StageSucceeds ==
  /\ call.phase = "callback"
  /\ StageDone("ok")
  /\ UNCHANGED <<ownerVars, writerVars>>

(* A result that claims more visits or work than declared. *)
StageOverruns ==
  /\ call.phase = "callback"
  /\ FailCall

FailureStatus ==
  [policy \in ErrorPolicy \ {"infallible"} |->
     CASE policy = "continue_active" -> "failed_continue"
       [] policy = "terminal_active" -> "failed_terminal"
       [] OTHER -> "failed_stop"]

(* Deviation: a terminal policy also takes packets already decided. *)
ApplyFailure_WholeBatch ==
  IF Running.onError # "continue_active" /\ disposition.active # {}
    THEN RecordTerminal_NoStaleCheck(call.writer, 1 .. disposition.length,
                                     Running.terminal)
    ELSE UNCHANGED writerVars

(* applyFailure *)
ApplyFailure ==
  IF Running.onError # "continue_active" /\ disposition.active # {}
    THEN RecordTerminal(call.writer, disposition.active, Running.terminal)
    ELSE UNCHANGED writerVars

StageFails ==
  /\ call.phase = "callback"
  /\ Running.onError # "infallible"
  /\ ApplyFailure
  /\ StageDone(FailureStatus[Running.onError])
  /\ UNCHANGED ownerVars

-----------------------------------------------------------------------------
(* The recorded dispositions, in receive order. *)
Kinds == [i \in 1 .. disposition.length |-> disposition.values[i].kind]

(* The loop is over: resolve, or DispositionFailure. *)
FinishCall ==
  /\ call.phase = "stage"
  /\ call.stage > NumStages \/ Halted
  /\ IF WriterLive(call.writer) /\ Resolvable(config, Kinds)
       THEN /\ groups' = Resolve(config, Kinds)
            /\ call' = [call EXCEPT !.phase = "returned"]
            /\ UNCHANGED <<ownerVars, writerVars, status>>
            /\ CallFrame
       ELSE FailCall

(* What happens during a callback. *)
CallbackStep ==
  \/ \E S \in SUBSET Slot, kind \in Terminal : StageRecords(S, kind)
  \/ \E i \in Slot : StageEdits(i)

(* What the worker does itself, the return of a callback included. *)
WorkerStep ==
  \/ BeginStage
  \/ InvocationFails
  \/ SkipStage
  \/ StageSucceeds
  \/ StageOverruns
  \/ StageFails
  \/ FinishCall

-----------------------------------------------------------------------------
(***************************************************************************)
(* Safety.                                                                 *)
(***************************************************************************)

(* Routing is decided before the first callback: whatever the stages have  *)
(* recorded so far, resolve would not fail now.  A routing error would     *)
(* throw away a batch whose packets the processors have already handled.   *)
RoutingDecidedBeforeCallbacks ==
  call.phase \in {"stage", "callback"} =>
    WriterLive(call.writer) /\ Resolvable(config, Kinds)

(* The dispositions a stage that has run can have left behind. *)
Authorized == UNION {Recordable(descriptors[k]) :
                       k \in {j \in Stage : status[j] # "not_run"}}

(* The continue policy is for packets the whole pipeline let through: when *)
(* one is left to it, every stage ran, and none of them applied a terminal *)
(* error policy.                                                           *)
LeftoversPassedEveryStage ==
  (call.phase = "returned" /\ \E i \in DOMAIN Kinds : Kinds[i] = "continue") =>
    \A k \in Stage : status[k] \in {"ok", "failed_continue"}

(* The groups of a result hold every packet of the batch once, each group  *)
(* in receive order.  A packet is where a stage that ran was entitled to   *)
(* send it, or, untouched by any stage, where the caller's continue policy *)
(* says, having passed every stage.                                        *)
GroupsAccountForBatch ==
  /\ LeftoversPassedEveryStage
  /\ call.phase = "returned" =>
       /\ \A name \in DOMAIN groups :
            \A m, n \in DOMAIN groups[name] :
              m < n => groups[name][m] < groups[name][n]
       /\ \A i \in 1 .. Len(slots) :
            \E name \in DOMAIN groups :
              /\ i \in ToSet(groups[name])
              /\ \A other \in DOMAIN groups \ {name} : i \notin ToSet(groups[other])
              /\ IF Kinds[i] = "continue"
                   THEN name = Target(config, config.onContinue)
                   ELSE name \in {Target(config, kind) : kind \in Authorized}

(* Routing is not what fails after a callback; and an error returned after *)
(* one leaves nothing to use: the batch with all its handles and the       *)
(* writer are dead and there are no groups.                                *)
FailureRevokesBatch ==
  /\ RoutingDecidedBeforeCallbacks
  /\ (call.phase = "failed" /\ call.started) =>
       /\ liveGeneration = 0
       /\ ~ WriterLive(call.writer)
       /\ groups = << >>

(* What a stage recorded stands: later stages and error policies change    *)
(* neither the disposition nor the routing of a packet already decided.    *)
DecisionsStand ==
  [][call.phase \in {"stage", "callback"} =>
       \A i \in 1 .. disposition.length : Kinds[i] # "continue" =>
         /\ Kinds'[i] = Kinds[i]
         /\ i \notin disposition'.active]_<<writerVars, call, groups>>

(* The user guide (docs/user/m3-native-pipeline.md:53): "Terminal packets  *)
(* never reach later stages."  A stage changes no packet that was decided  *)
(* before it began.                                                        *)
TerminalPacketsNeverReachLaterStages ==
  [][call.phase = "callback" =>
       \A i \in 1 .. Len(slots) :
         journal'[i] # journal[i] => i \in call.activeBefore]_<<ownerVars, call>>
=============================================================================
