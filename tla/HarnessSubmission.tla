-------------------------- MODULE HarnessSubmission --------------------------
(***************************************************************************)
(* ProcessorTestHarness.submit: fixtures go through the synthetic input,   *)
(* one batch, one pipeline call and the synthetic output, and every way    *)
(* this can fail unwinds through the deferred cleanups.  The queues, the   *)
(* tokens and the owner are made for the submission, so one submission     *)
(* from a fresh state is all of them.                                      *)
(***************************************************************************)
EXTENDS StaticPipeline

CONSTANT Configs        \* disposition configurations a caller may pass

ASSUME HarnessSubmissionAssumption == Configs \subseteq Config

VARIABLES
  fixtures,             \* fixtures.len
  at,                   \* where submit is
  todo,                 \* packets the loop submit is in has still to handle
  submitted,            \* the output queue's observations, by packet
  outcome               \* what submit returns

harnessVars == <<fixtures, at, todo, submitted, outcome>>

vars == <<trackerVars, ownerVars, poolVars, writerVars, pipelineVars,
          harnessVars>>

(* setup: filling the input queue; received: the tokens are the worker's,  *)
(* from here on every failure reconciles; unwinding, reconciling: the      *)
(* deferred cleanups, innermost first.                                     *)
Place == {"setup", "received", "processing", "copying", "submitting",
          "returning", "unwinding", "reconciling", "ended"}

TypeOK ==
  /\ TrackerTypeOK
  /\ OwnerTypeOK
  /\ PoolTypeOK
  /\ WriterTypeOK
  /\ PipelineTypeOK
  /\ fixtures \in 0 .. MaxBatch
  /\ at \in Place
  /\ todo \in Seq(Slot)
  /\ submitted \in Seq(Slot)
  /\ outcome \in {"none", "ok", "error"}

Init ==
  /\ TrackerInit
  /\ OwnerInit
  /\ PoolInit
  /\ WriterInit
  /\ PipelineInit(Configs)
  /\ fixtures \in 0 .. MaxBatch
  /\ fixtures <= NumTokens
  /\ at = "setup"
  /\ todo = << >>
  /\ submitted = << >>
  /\ outcome = "none"

Received == IF received = 0 THEN 0 ELSE fixtures

Goto(place) == at' = place /\ UNCHANGED <<fixtures, todo, submitted, outcome>>

(* An error leaves submit: the deferred cleanups run. *)
Raise ==
  /\ at' = "unwinding"
  /\ outcome' = "error"
  /\ UNCHANGED <<fixtures, todo, submitted>>

-----------------------------------------------------------------------------
(* Input. *)

Enqueue ==
  /\ at = "setup"
  /\ registered < fixtures
  /\ RegisterInput
  /\ UNCHANGED <<ownerVars, poolVars, writerVars, pipelineVars, harnessVars>>

(* The queue cannot be made, a fixture is refused, or the receive fails. *)
InputFails ==
  /\ at = "setup"
  /\ Raise
  /\ UNCHANGED <<trackerVars, ownerVars, poolVars, writerVars, pipelineVars>>

(* An unscripted queue delivers the whole request. *)
ReceiveAll ==
  /\ at = "setup"
  /\ registered = fixtures
  /\ ReceiveTokens(1 .. fixtures)
  /\ Goto("received")
  /\ UNCHANGED <<ownerVars, poolVars, writerVars, pipelineVars>>

(* PacketBatchOwner.init fails. *)
OwnerFails ==
  /\ at = "received"
  /\ Raise
  /\ UNCHANGED <<trackerVars, ownerVars, poolVars, writerVars, pipelineVars>>

(* A fresh owner begins its first batch. *)
OpenBatch ==
  /\ at = "received"
  /\ Begin([i \in 1 .. fixtures |-> i])
  /\ disposition' = NoWriter
  /\ Goto("processing")
  /\ UNCHANGED <<trackerVars, poolVars, nextWriter, pipelineVars>>

-----------------------------------------------------------------------------
(* The pipeline call. *)

CallPipeline ==
  /\ at = "processing"
  /\ \E metadataLength \in 0 .. MaxBatch :
       \/ EnterCall(liveGeneration, metadataLength)
       \/ RejectCall(liveGeneration, metadataLength)
  /\ UNCHANGED harnessVars

DuringCallback ==
  /\ at = "processing"
  /\ CallbackStep
  /\ UNCHANGED harnessVars

Worker ==
  /\ at = "processing"
  /\ WorkerStep
  /\ UNCHANGED harnessVars

CallFailed ==
  /\ at = "processing"
  /\ call.phase = "failed"
  /\ Raise
  /\ UNCHANGED <<trackerVars, ownerVars, poolVars, writerVars, pipelineVars>>

CallReturned ==
  /\ at = "processing"
  /\ call.phase = "returned"
  /\ Goto("copying")
  /\ UNCHANGED <<trackerVars, ownerVars, poolVars, writerVars, pipelineVars>>

-----------------------------------------------------------------------------
(* The result. *)

(* Every packet is read through a view into memory of its own. *)
CopyResults ==
  /\ at = "copying"
  /\ \A i \in 1 .. Received : Resolves(liveGeneration, i)
  /\ at' = "submitting"
  /\ todo' = InOutputOrder(config, groups)
  /\ UNCHANGED <<fixtures, submitted, outcome>>
  /\ UNCHANGED <<trackerVars, ownerVars, poolVars, writerVars, pipelineVars>>

(* Memory runs out, for a copy or for the output queue. *)
CopyFails ==
  /\ at = "copying"
  /\ Raise
  /\ UNCHANGED <<trackerVars, ownerVars, poolVars, writerVars, pipelineVars>>

(* Deviation: a packet is submitted without the readiness check. *)
SubmitNext_Unvalidated ==
  /\ at = "submitting"
  /\ todo # << >>
  /\ Resolves(liveGeneration, Head(todo))
  /\ MarkEscaped(Head(todo))
  /\ SubmitAndComplete(slots[Head(todo)])
  /\ submitted' = Append(submitted, Head(todo))
  /\ todo' = Tail(todo)
  /\ UNCHANGED <<fixtures, at, outcome>>
  /\ UNCHANGED <<nextGeneration, liveGeneration, slots, slotAccess, journal,
                 authority, mintCounter, poolVars, writerVars, pipelineVars>>

(* submitBatch into a queue with room for the whole burst. *)
SubmitNext ==
  /\ at = "submitting"
  /\ todo # << >>
  /\ ValidForOutput(liveGeneration, Head(todo))
  /\ MarkEscaped(Head(todo))
  /\ SubmitAndComplete(slots[Head(todo)])
  /\ submitted' = Append(submitted, Head(todo))
  /\ todo' = Tail(todo)
  /\ UNCHANGED <<fixtures, at, outcome>>
  /\ UNCHANGED <<nextGeneration, liveGeneration, slots, slotAccess, journal,
                 authority, mintCounter, poolVars, writerVars, pipelineVars>>

(* InvalidPacket: earlier packets of the burst are already out. *)
SubmitNextFails ==
  /\ at = "submitting"
  /\ todo # << >>
  /\ ~ ValidForOutput(liveGeneration, Head(todo))
  /\ Raise
  /\ UNCHANGED <<trackerVars, ownerVars, poolVars, writerVars, pipelineVars>>

OutputsDone ==
  /\ at = "submitting"
  /\ todo = << >>
  /\ at' = "returning"
  /\ todo' = groups["drop"] \o groups["complete"]
  /\ UNCHANGED <<fixtures, submitted, outcome>>
  /\ UNCHANGED <<trackerVars, ownerVars, poolVars, writerVars, pipelineVars>>

ReturnNext ==
  /\ at = "returning"
  /\ todo # << >>
  /\ ReturnToInput(slots[Head(todo)])
  /\ todo' = Tail(todo)
  /\ UNCHANGED <<fixtures, at, submitted, outcome>>
  /\ UNCHANGED <<ownerVars, poolVars, writerVars, pipelineVars>>

(* Nothing was retained and verifyCompleted succeeds: only the batch is    *)
(* left to clean up.  There is no step for the two errors that could be    *)
(* raised here; a state that needs one would be stuck.                     *)
ReturnsDone ==
  /\ at = "returning"
  /\ todo = << >>
  /\ groups["retain"] = << >>
  /\ ReceivedCompleted
  /\ Invalidate(liveGeneration)
  /\ at' = "ended"
  /\ outcome' = "ok"
  /\ UNCHANGED <<fixtures, todo, submitted>>
  /\ UNCHANGED <<trackerVars, poolVars, writerVars, pipelineVars>>

-----------------------------------------------------------------------------
(* The deferred cleanups. *)

(* The batch is invalidated if it is still live, then the owner goes. *)
Unwind ==
  /\ at = "unwinding"
  /\ at' = "reconciling"
  /\ todo' = [i \in 1 .. Received |-> i]
  /\ IF liveGeneration # 0 THEN Invalidate(liveGeneration) ELSE UNCHANGED ownerVars
  /\ UNCHANGED <<fixtures, submitted, outcome>>
  /\ UNCHANGED <<trackerVars, poolVars, writerVars, pipelineVars>>

(* Deviation: a token that is final already is returned all the same. *)
Reconcile_ReturnsAll(t) ==
  /\ tokenState' = [tokenState EXCEPT ![t] = "returned_to_input"]
  /\ finalCompletions' = finalCompletions + 1
  /\ UNCHANGED <<registered, received>>

(* reconcile of one slot *)
Reconcile(t) ==
  CASE tokenState[t] = "worker_owned" -> ReturnToInput(t)
    [] tokenState[t] = "output_owned" -> CompleteOutput(t)
    [] tokenState[t] = "retained" -> CompleteRetention(t)
    [] OTHER -> UNCHANGED trackerVars

(* Deviation: the loop does not advance. *)
ReconcileNext_Repeats ==
  /\ at = "reconciling"
  /\ todo # << >>
  /\ Reconcile(Head(todo))
  /\ UNCHANGED harnessVars
  /\ UNCHANGED <<ownerVars, poolVars, writerVars, pipelineVars>>

ReconcileNext ==
  /\ at = "reconciling"
  /\ todo # << >>
  /\ Reconcile(Head(todo))
  /\ todo' = Tail(todo)
  /\ UNCHANGED <<fixtures, at, submitted, outcome>>
  /\ UNCHANGED <<ownerVars, poolVars, writerVars, pipelineVars>>

Reconciled ==
  /\ at = "reconciling"
  /\ todo = << >>
  /\ Goto("ended")
  /\ UNCHANGED <<trackerVars, ownerVars, poolVars, writerVars, pipelineVars>>

(* submit has returned. *)
Over == at = "ended" /\ UNCHANGED vars

Progress ==
  \/ Enqueue
  \/ InputFails
  \/ ReceiveAll
  \/ OwnerFails
  \/ OpenBatch
  \/ CallPipeline
  \/ Worker
  \/ CallFailed
  \/ CallReturned
  \/ CopyResults
  \/ CopyFails
  \/ SubmitNext
  \/ SubmitNextFails
  \/ OutputsDone
  \/ ReturnNext
  \/ ReturnsDone
  \/ Unwind
  \/ ReconcileNext
  \/ Reconciled

Next == Progress \/ DuringCallback \/ Over

(* submit is one thread that keeps running, and a processor returns from   *)
(* its callback: descriptors declare bounded work.                         *)
Spec == Init /\ [][Next]_vars /\ WF_vars(Progress)

-----------------------------------------------------------------------------
(***************************************************************************)
(* Safety.                                                                 *)
(***************************************************************************)

(* Outputs see packets in configured output order and, within an output,   *)
(* in receive order; a failure cuts that sequence short and nothing else,  *)
(* and what submit reports as success is the whole of it.                  *)
OutputIsPrefixOfResult ==
  submitted # << >> =>
    /\ IsPrefix(submitted, InOutputOrder(config, groups))
    /\ outcome = "ok" => submitted = InOutputOrder(config, groups)
    /\ \A m, n \in DOMAIN submitted :
         LET Rank(i) == CHOOSE k \in DOMAIN config.outputs :
                          config.outputs[k] = Group(config, Kinds[i])
         IN  m < n => \/ Rank(submitted[m]) < Rank(submitted[n])
                      \/ /\ Rank(submitted[m]) = Rank(submitted[n])
                         /\ submitted[m] < submitted[n]

(* However submit ends, after a partial burst, a failed copy or a failed   *)
(* pipeline call, every token it received is final, once: completed if its *)
(* packet went out, returned to the input if not; and what went out is an  *)
(* unbroken beginning of the result.                                       *)
EveryTokenReconciled ==
  /\ OutputIsPrefixOfResult
  /\ at = "ended" =>
       /\ \A t \in 1 .. Received :
            tokenState[t] = IF t \in ToSet(submitted) THEN "completed"
                                                      ELSE "returned_to_input"
       /\ finalCompletions = Received
       /\ ReceivedCompleted
       /\ liveGeneration = 0

-----------------------------------------------------------------------------
(***************************************************************************)
(* Refinement.  The submission uses the ownership machinery as its callers *)
(* may: every step, the cleanups of every failure included, is a step of   *)
(* PacketOwnership or leaves it alone.                                     *)
(***************************************************************************)
Ownership == INSTANCE PacketOwnership WITH
  OutputCapacity <- MaxBatch,
  nextReceive <- Received,
  observations <- [n \in 1 .. Len(submitted) |->
                     [token |-> slots[submitted[n]], pending |-> FALSE]],
  batches <- IF nextGeneration = 0
               THEN << >>
               ELSE << [generation |-> nextGeneration, slots |-> slots] >>,
  writers <- IF nextWriter = 0
               THEN << >>
               ELSE << [handle |-> nextWriter, generation |-> nextGeneration] >>,
  leases <- << >>,
  rawHandles <- << >>

UsesOwnershipAsSpecified == Ownership!Spec

-----------------------------------------------------------------------------
(***************************************************************************)
(* Liveness.                                                               *)
(***************************************************************************)

(* A token the worker took does not stay with it. *)
TokensLeaveTheWorker ==
  \A t \in Token :
    tokenState[t] = "worker_owned" ~> tokenState[t] \in FinalState
=============================================================================
