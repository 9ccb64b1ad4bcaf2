-------------------------- MODULE PipelineLifecycle --------------------------
(***************************************************************************)
(* The life of prepared pipelines and of their workers: admission against  *)
(* the application's limits, construction stage by stage through one       *)
(* budget allocator per stage, unwinding in reverse when a stage fails,    *)
(* the registry that turns worker handles into workers, and teardown.      *)
(* A PreparedPipeline is changed by one caller at a time; processors keep  *)
(* copies of the allocators they were given and call them at any time.     *)
(***************************************************************************)
EXTENDS Naturals, Sequences, Functions

CONSTANTS
  Pipeline,             \* addresses a PreparedPipeline can be allocated at
  Stages,               \* processors of the pipeline type
  MaxWorkers,           \* largest worker_count asked for
  MaxSize,              \* maxInt(usize)
  MaxIdentity,          \* maxInt(u64), of the prepared identity counter
  MaxGeneration,        \* maxInt(u64), of a worker slot's generation
  MaxHandles,           \* bound on the workers ever built
  FrameworkPrepared,    \* @sizeOf(PreparedPipeline)
  FrameworkSlot,        \* @sizeOf(WorkerSlot)
  FrameworkWorker,      \* @sizeOf(WorkerPipeline)
  Requests              \* estimates and limits prepare is called with

Stage == 1 .. Stages
Slot == 1 .. MaxWorkers
Part == 0 .. MaxWorkers         \* the prepared tuple, then one part per slot
Prepared == 0
Bytes == 0 .. MaxSize

Request == [prepared : [Stage -> Bytes], worker : [Stage -> Bytes],
            workers : Slot, preparedLimit : Bytes,
            workerLimit : Bytes, workersLimit : Bytes]

ASSUME PipelineLifecycleAssumption ==
  /\ Stages \in Nat \ {0}
  /\ MaxWorkers \in Nat
  /\ MaxSize \in Nat
  /\ MaxIdentity \in Nat
  /\ MaxGeneration \in Nat
  /\ MaxHandles \in Nat
  /\ {FrameworkPrepared, FrameworkSlot, FrameworkWorker} \subseteq Nat
  /\ Requests \subseteq Request

VARIABLES
  counter,              \* prepared_identity_counter
  identity,             \* owner_identity by address; 0: nothing is there
  config,               \* estimates, worker_capacity and admitted limits
  slots,                \* worker_slots; worker 0 is null
  live,                 \* live_workers
  budgets,              \* the budget allocator of every part and stage
  alive,                \* stages of a part constructed and not destroyed
  op,                   \* the call in progress on the pipeline
  issued,               \* history: every handle, worker n's at index n
  outcome               \* history: how the last call on the address ended

vars == <<counter, identity, config, slots, live, budgets, alive, op,
          issued, outcome>>

Budget == [phase : {"construction", "sealed", "cleanup"}, current : Bytes]
Fresh == [phase |-> "construction", current |-> 0]

NoConfig == [workers |-> 0]
Call(kind, part, i) ==
  [kind |-> kind, part |-> part, stage |-> i, denied |-> FALSE]
NoOp == Call("none", Prepared, 0)
Op == [kind : {"none", "build", "unwind", "destroy"}, part : Part,
       stage : 0 .. Stages, denied : BOOLEAN]

Handle == [identity : 1 .. MaxIdentity, slot : Slot,
           generation : 1 .. MaxGeneration]

TypeOK ==
  /\ counter \in 0 .. MaxIdentity
  /\ identity \in [Pipeline -> 0 .. MaxIdentity]
  /\ config \in [Pipeline -> Requests \cup {NoConfig}]
  /\ issued \in Seq(Handle)
  /\ slots \in [Pipeline -> [Slot -> [generation : 0 .. MaxGeneration,
                                      worker : 0 .. Len(issued)]]]
  /\ live \in [Pipeline -> 0 .. MaxWorkers]
  /\ budgets \in [Pipeline -> [Part -> [Stage -> Budget]]]
  /\ alive \in [Pipeline -> [Part -> SUBSET Stage]]
  /\ op \in [Pipeline -> Op]
  /\ outcome \in [Pipeline -> {"none", "built", "failed", "underestimated",
                               "destroyed"}]

EmptySlots == [w \in Slot |-> [generation |-> 0, worker |-> 0]]

Init ==
  /\ counter = 0
  /\ identity = [p \in Pipeline |-> 0]
  /\ config = [p \in Pipeline |-> NoConfig]
  /\ slots = [p \in Pipeline |-> EmptySlots]
  /\ live = [p \in Pipeline |-> 0]
  /\ budgets = [p \in Pipeline |-> [part \in Part |-> [i \in Stage |-> Fresh]]]
  /\ alive = [p \in Pipeline |-> [part \in Part |-> {}]]
  /\ op = [p \in Pipeline |-> NoOp]
  /\ issued = << >>
  /\ outcome = [p \in Pipeline |-> "none"]

-----------------------------------------------------------------------------
(* Admission. *)

PreparedTotal(r) ==
  FrameworkPrepared + FrameworkSlot * r.workers + SumFunction(r.prepared)
WorkerEach(r) == FrameworkWorker + SumFunction(r.worker)

(* Deviation: the sums and the product wrap. *)
Admitted_Wraps(r) ==
  LET wrapped(n) == n % (MaxSize + 1)
  IN  /\ wrapped(PreparedTotal(r)) <= r.preparedLimit
      /\ wrapped(WorkerEach(r)) <= r.workerLimit
      /\ wrapped(WorkerEach(r) * r.workers) <= r.workersLimit

(* Every step of the sums is checked for overflow, then each total against *)
(* its limit.  Metadata, pools and work go the same way.                   *)
Admitted(r) ==
  /\ {PreparedTotal(r), WorkerEach(r), WorkerEach(r) * r.workers}
       \subseteq Bytes
  /\ PreparedTotal(r) <= r.preparedLimit
  /\ WorkerEach(r) <= r.workerLimit
  /\ WorkerEach(r) * r.workers <= r.workersLimit

(* prepare up to its first stage; a request that is not admitted and a     *)
(* counter at its end leave no trace.                                      *)
Prepare(p, r) ==
  /\ identity[p] = 0
  /\ Admitted(r)
  /\ counter < MaxIdentity
  /\ counter' = counter + 1
  /\ identity' = [identity EXCEPT ![p] = counter + 1]
  /\ config' = [config EXCEPT ![p] = r]
  /\ op' = [op EXCEPT ![p] = Call("build", Prepared, 1)]
  /\ UNCHANGED <<slots, live, budgets, alive, issued, outcome>>

(* instantiate up to its first stage: the first slot without a worker, if  *)
(* its generation can still grow.  MaxHandles bounds the history.          *)
Instantiate(p) ==
  /\ identity[p] # 0
  /\ op[p] = NoOp
  /\ live[p] < config[p].workers
  /\ Len(issued) < MaxHandles
  /\ \E w \in 1 .. config[p].workers :
       /\ slots[p][w].worker = 0
       /\ \A v \in 1 .. w - 1 : slots[p][v].worker # 0
       /\ slots[p][w].generation < MaxGeneration
       /\ op' = [op EXCEPT ![p] = Call("build", w, 1)]
  /\ UNCHANGED <<counter, identity, config, slots, live, budgets, alive,
                 issued, outcome>>

-----------------------------------------------------------------------------
(* The budget allocators. *)

Limit(p, part, i) ==
  IF part = Prepared THEN config[p].prepared[i] ELSE config[p].worker[i]

Building(p, part, i) ==
  op[p].kind = "build" /\ op[p].part = part /\ op[p].stage = i

CleaningUp(p, part, i) ==
  op[p].kind \in {"unwind", "destroy"} /\ op[p].part = part /\ op[p].stage = i

(* Somebody holds the allocator of the stage: the callback constructing    *)
(* it, or the object that callback returned.                               *)
HandedOut(p, part, i) == Building(p, part, i) \/ i \in alive[p][part]

(* canGrow; the limit is a usize, so the sum cannot overflow below it. *)
CanGrow(p, part, i, n) ==
  /\ budgets[p][part][i].phase = "construction"
  /\ budgets[p][part][i].current + n <= Limit(p, part, i)

(* allocate, and resize or remap to a larger length.  The child allocator  *)
(* may refuse what canGrow grants: nothing changes and nothing is denied.  *)
Allocate(p, part, i, n) ==
  /\ HandedOut(p, part, i)
  /\ IF CanGrow(p, part, i, n)
       THEN /\ budgets' = [budgets EXCEPT ![p][part][i].current = @ + n]
            /\ UNCHANGED op
       ELSE /\ op' = IF Building(p, part, i)
                       THEN [op EXCEPT ![p].denied = TRUE] ELSE op
            /\ UNCHANGED budgets
  /\ UNCHANGED <<counter, identity, config, slots, live, alive, issued,
                 outcome>>

(* Deviation: memory can be freed while the allocator is sealed. *)
CanFree_AnyPhase(p, part, i) == TRUE

(* free of memory the caller holds is refused while sealed. *)
CanFree(p, part, i) == budgets[p][part][i].phase # "sealed"

(* free, and in construction resize or remap to a smaller length. *)
Free(p, part, i, n) ==
  /\ HandedOut(p, part, i)
  /\ n <= budgets[p][part][i].current
  /\ CanFree(p, part, i)
  /\ budgets' = [budgets EXCEPT ![p][part][i].current = @ - n]
  /\ UNCHANGED <<counter, identity, config, slots, live, alive, op, issued,
                 outcome>>

-----------------------------------------------------------------------------
(* Construction. *)

Seal(b) == [b EXCEPT !.phase = "sealed"]

InstalledGeneration(p, w) == slots[p][w].generation + 1

(* The worker enters its slot and its handle is returned. *)
Install(p, w) ==
  LET generation == InstalledGeneration(p, w)
  IN  /\ issued' = Append(issued, [identity |-> identity[p], slot |-> w,
                                   generation |-> generation])
      /\ slots' = [slots EXCEPT ![p][w] = [generation |-> generation,
                                           worker |-> Len(issued) + 1]]
      /\ live' = [live EXCEPT ![p] = @ + 1]

(* The stage's prepare or instantiate succeeds; after the last stage the   *)
(* call returns.                                                           *)
StageBuilt(p) ==
  LET part == op[p].part
      i == op[p].stage
  IN  /\ op[p].kind = "build"
      /\ budgets' = [budgets EXCEPT ![p][part][i] = Seal(@)]
      /\ alive' = [alive EXCEPT ![p][part] = @ \cup {i}]
      /\ IF i < Stages
           THEN /\ op' = [op EXCEPT ![p] = Call("build", part, i + 1)]
                /\ UNCHANGED <<slots, live, issued, outcome>>
           ELSE /\ op' = [op EXCEPT ![p] = NoOp]
                /\ outcome' = [outcome EXCEPT ![p] = "built"]
                /\ IF part = Prepared
                     THEN UNCHANGED <<slots, live, issued>>
                     ELSE Install(p, part)
      /\ UNCHANGED <<counter, identity, config>>

(* A stage that fails with memory still counted, after a denial, or saying *)
(* so, needed more than its estimate.                                      *)
Underestimated(p, err) ==
  \/ budgets[p][op[p].part][op[p].stage].current # 0
  \/ op[p].denied
  \/ err = "ResourceUnderestimated"

(* Deviation: unwinding leaves the first stage out when it starts. *)
UnwindFrom_SkipsOne(i) == IF i > 1 THEN i - 2 ELSE 0

(* The stage that failed left nothing to destroy; those before it did. *)
UnwindFrom(i) == i - 1

(* The stage's prepare or instantiate fails.  Unwinding does not touch the *)
(* failed stage's allocator, so the verdict the code reaches after it is   *)
(* known here.                                                             *)
StageFails(p, err) ==
  /\ op[p].kind = "build"
  /\ outcome' = [outcome EXCEPT ![p] =
       IF Underestimated(p, err) THEN "underestimated" ELSE "failed"]
  /\ op' = [op EXCEPT ![p] = Call("unwind", @.part, UnwindFrom(@.stage))]
  /\ UNCHANGED <<counter, identity, config, slots, live, budgets, alive,
                 issued>>

-----------------------------------------------------------------------------
(* Teardown. *)

(* Deviation: the owner's identity is not compared. *)
Resolve_AnyOwner(p, h) ==
  IF /\ identity[p] # 0
     /\ h.slot <= config[p].workers
     /\ h.generation = slots[p][h.slot].generation
    THEN slots[p][h.slot].worker
    ELSE 0

(* resolveWorker; 0 for WrongWorkerOwner and StaleWorker.  The check of    *)
(* the worker's own back references is left out: they are what Install set.*)
Resolve(p, h) ==
  IF /\ identity[p] # 0
     /\ h.identity = identity[p]
     /\ h.slot <= config[p].workers
     /\ h.generation = slots[p][h.slot].generation
    THEN slots[p][h.slot].worker
    ELSE 0

(* deinitWorker with a copy of any handle: the slot is emptied before the  *)
(* worker's stages are destroyed, last first.                              *)
DeinitWorker(p, h) ==
  /\ op[p] = NoOp
  /\ Resolve(p, h) # 0
  /\ slots' = [slots EXCEPT ![p][h.slot].worker = 0]
  /\ live' = [live EXCEPT ![p] = @ - 1]
  /\ op' = [op EXCEPT ![p] = Call("destroy", h.slot, Stages)]
  /\ UNCHANGED <<counter, identity, config, budgets, alive, issued, outcome>>

(* deinit, refused with WorkersStillLive otherwise. *)
Deinit(p) ==
  /\ identity[p] # 0
  /\ op[p] = NoOp
  /\ live[p] = 0
  /\ op' = [op EXCEPT ![p] = Call("destroy", Prepared, Stages)]
  /\ UNCHANGED <<counter, identity, config, slots, live, budgets, alive,
                 issued, outcome>>

(* Deviation: the destructor runs with its allocator still sealed. *)
OpenedForCleanup_Sealed(b) == b

OpenedForCleanup(b) == [b EXCEPT !.phase = "cleanup"]

(* beginCleanup: the stage's destructor starts. *)
BeginCleanup(p) ==
  LET part == op[p].part
      i == op[p].stage
  IN  /\ op[p].kind \in {"unwind", "destroy"}
      /\ i # 0
      /\ budgets[p][part][i].phase # "cleanup"
      /\ budgets' = [budgets EXCEPT ![p][part][i] = OpenedForCleanup(@)]
      /\ UNCHANGED <<counter, identity, config, slots, live, alive, op,
                     issued, outcome>>

(* endCleanup: the destructor has returned.  A processor that kept memory  *)
(* stops the program at the assertion that none is left.                   *)
EndCleanup(p) ==
  LET part == op[p].part
      i == op[p].stage
  IN  /\ op[p].kind \in {"unwind", "destroy"}
      /\ i # 0
      /\ budgets[p][part][i] = [phase |-> "cleanup", current |-> 0]
      /\ budgets' = [budgets EXCEPT ![p][part][i] = Seal(@)]
      /\ alive' = [alive EXCEPT ![p][part] = @ \ {i}]
      /\ op' = [op EXCEPT ![p] = Call(@.kind, part, i - 1)]
      /\ UNCHANGED <<counter, identity, config, slots, live, issued, outcome>>

(* The part's own storage is freed, and the call returns. *)
Finish(p) ==
  LET part == op[p].part
  IN  /\ op[p].kind \in {"unwind", "destroy"}
      /\ op[p].stage = 0
      /\ budgets' = [budgets EXCEPT ![p][part] = [i \in Stage |-> Fresh]]
      /\ IF part = Prepared
           THEN /\ identity' = [identity EXCEPT ![p] = 0]
                /\ config' = [config EXCEPT ![p] = NoConfig]
                /\ slots' = [slots EXCEPT ![p] = EmptySlots]
           ELSE UNCHANGED <<identity, config, slots>>
      /\ outcome' = IF op[p].kind = "destroy"
                      THEN [outcome EXCEPT ![p] = "destroyed"] ELSE outcome
      /\ op' = [op EXCEPT ![p] = NoOp]
      /\ UNCHANGED <<counter, live, alive, issued>>

-----------------------------------------------------------------------------
AllocatorCall(p) ==
  \E part \in Part, i \in Stage, n \in 1 .. MaxSize :
    Allocate(p, part, i, n) \/ Free(p, part, i, n)

Next ==
  \E p \in Pipeline :
    \/ \E r \in Requests : Prepare(p, r)
    \/ Instantiate(p)
    \/ AllocatorCall(p)
    \/ StageBuilt(p)
    \/ \E err \in {"ResourceUnderestimated", "other"} : StageFails(p, err)
    \/ \E n \in 1 .. Len(issued) : DeinitWorker(p, issued[n])
    \/ Deinit(p)
    \/ BeginCleanup(p)
    \/ EndCleanup(p)
    \/ Finish(p)

Spec == Init /\ [][Next]_vars

(* The destructor at work frees what it holds. *)
DestructorFrees(p) ==
  \E n \in 1 .. MaxSize : Free(p, op[p].part, op[p].stage, n)

CleanupStep(p) ==
  \/ BeginCleanup(p)
  \/ op[p].kind \in {"unwind", "destroy"} /\ op[p].stage # 0
     /\ DestructorFrees(p)
  \/ EndCleanup(p)
  \/ Finish(p)

(* Cleanup runs to its end on the caller's thread, and destructors return  *)
(* having freed what they hold.                                            *)
FairSpec == Spec /\ \A p \in Pipeline : WF_vars(CleanupStep(p))

-----------------------------------------------------------------------------
(* A copy of a handle reaches the worker it was returned for or none,      *)
(* through whatever pipeline it is presented to, and a worker in its slot  *)
(* is reached by its handle: slots, generations and addresses are reused.  *)
HandleResolvesToItsWorker ==
  \A p \in Pipeline :
    /\ \A n \in 1 .. Len(issued) : Resolve(p, issued[n]) \in {0, n}
    /\ \A w \in Slot : slots[p][w].worker # 0 =>
         Resolve(p, issued[slots[p][w].worker]) = slots[p][w].worker

(* A worker may keep the pointer to the prepared values it was constructed *)
(* from: none of those is destroyed before every object of every worker.   *)
WorkersNeedPrepared ==
  \A p \in Pipeline, w \in Slot :
    alive[p][w] # {} => alive[p][Prepared] = Stage

(* Between calls a part is there with all its stages or with none; during  *)
(* one, exactly the stages before the one under construction, or up to the *)
(* one being destroyed, exist: nothing is destroyed twice, or forgotten.   *)
ExpectedAlive(p, part) ==
  IF op[p].kind # "none" /\ op[p].part = part
    THEN 1 .. (IF op[p].kind = "build" THEN op[p].stage - 1 ELSE op[p].stage)
    ELSE IF part = Prepared
           THEN IF identity[p] # 0 THEN Stage ELSE {}
           ELSE IF slots[p][part].worker # 0 THEN Stage ELSE {}

ExactUnwinding ==
  \A p \in Pipeline, part \in Part : alive[p][part] = ExpectedAlive(p, part)

(* Every object dies once, in its turn, and before what it points into.    *)
LifetimesNest == ExactUnwinding /\ WorkersNeedPrepared

PartBytes(p, part) ==
  SumFunction([i \in Stage |-> budgets[p][part][i].current])

WorkersThere(p) ==
  {w \in Slot : slots[p][w].worker # 0 \/ (op[p].kind # "none" /\ op[p].part = w)}

WorkerBytes(p, w) == FrameworkWorker + PartBytes(p, w)

(* When the storage of a part goes, memory is still counted for it only if *)
(* its construction failed and the caller is told of an underestimate.     *)
LossIsReported ==
  \A p \in Pipeline :
    (op[p].kind \in {"unwind", "destroy"} /\ op[p].stage = 0
       /\ PartBytes(p, op[p].part) # 0) =>
      op[p].kind = "unwind" /\ outcome[p] = "underestimated"

(* What a pipeline and its workers really take from the heap stays within  *)
(* the limits the application gave, whatever the processors allocate; what *)
(* an underestimating stage left behind when its worker failed is gone     *)
(* from every account, is not part of it, and was reported.                *)
MemoryWithinLimits ==
  /\ LossIsReported
  /\ \A p \in Pipeline : identity[p] # 0 =>
       /\ FrameworkPrepared + FrameworkSlot * config[p].workers
            + PartBytes(p, Prepared) <= config[p].preparedLimit
       /\ \A w \in WorkersThere(p) : WorkerBytes(p, w) <= config[p].workerLimit
       /\ SumFunction([w \in WorkersThere(p) |-> WorkerBytes(p, w)])
            <= config[p].workersLimit

(* The bytes counted for a stage change only while its own constructor or  *)
(* its own destructor runs, whoever kept a copy of its allocator.          *)
SealedMemoryStands ==
  [][\A p \in Pipeline, part \in Part, i \in Stage :
       budgets'[p][part][i].current # budgets[p][part][i].current =>
         \/ Building(p, part, i) \/ CleaningUp(p, part, i)
         \/ (op[p].kind = "unwind" /\ op[p].stage = 0)]_vars

(* Unwinding and teardown, once begun, come to their end. *)
CleanupEnds ==
  \A p \in Pipeline : op[p].kind \in {"unwind", "destroy"} ~> op[p] = NoOp
=============================================================================
