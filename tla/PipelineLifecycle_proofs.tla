---------------------- MODULE PipelineLifecycle_proofs ----------------------
(***************************************************************************)
(* Theorems about PipelineLifecycle, for every number of pipelines, stages *)
(* and workers and for any estimates, limits and counters.                 *)
(***************************************************************************)
EXTENDS PipelineLifecycle, FoldInduction

WorkersIn(p) == {w \in Slot : slots[p][w].worker # 0}

(* One pipeline, whatever the others do: what is at its address, what the  *)
(* call in progress owns, and that live_workers counts the workers there.  *)
Shape(p) ==
  /\ identity[p] # 0 => config[p] \in Requests
  /\ identity[p] = 0 => op[p] = NoOp /\ slots[p] = EmptySlots
  /\ op[p].kind = "none" => op[p] = NoOp
  /\ op[p].kind = "build" => op[p].stage # 0
  /\ (op[p].kind # "none" /\ op[p].part = Prepared) => WorkersIn(p) = {}
  /\ (op[p].kind # "none" /\ op[p].part # Prepared) =>
       op[p].part \notin WorkersIn(p) /\ op[p].part <= config[p].workers
  /\ (op[p].kind = "build" /\ op[p].part # Prepared) =>
       slots[p][op[p].part].generation < MaxGeneration
  /\ live[p] = Cardinality(WorkersIn(p))
  /\ \A w \in WorkersIn(p) : w <= config[p].workers
  /\ \A part \in Part : alive[p][part] = ExpectedAlive(p, part)

LifeInv == TypeOK /\ \A p \in Pipeline : Shape(p)

-----------------------------------------------------------------------------
(* Budgets. *)

LEMMA BudgetReplaced ==
  ASSUME budgets \in [Pipeline -> [Part -> [Stage -> Budget]]],
         NEW p \in Pipeline, NEW part \in Part, NEW i \in Stage,
         NEW b \in Budget
  PROVE  [budgets EXCEPT ![p][part][i] = b]
           \in [Pipeline -> [Part -> [Stage -> Budget]]]
OBVIOUS

(* A call leaves the other pipelines as they are, and some leave even      *)
(* their own as far as its shape goes.                                     *)
Untouched(p) ==
  /\ identity'[p] = identity[p] /\ config'[p] = config[p]
  /\ slots'[p] = slots[p] /\ live'[p] = live[p]
  /\ alive'[p] = alive[p] /\ op'[p] = op[p]

LEMMA ShapeKept ==
  ASSUME NEW p \in Pipeline, Shape(p), Untouched(p)
  PROVE  Shape(p)'
<1>1. WorkersIn(p)' = WorkersIn(p)
  BY DEF WorkersIn, Untouched
<1>2. \A part \in Part : ExpectedAlive(p, part)' = ExpectedAlive(p, part)
  BY DEF ExpectedAlive, Untouched
<1>3. /\ (identity[p] # 0 => config[p] \in Requests)'
      /\ (identity[p] = 0 => op[p] = NoOp /\ slots[p] = EmptySlots)'
      /\ (op[p].kind = "none" => op[p] = NoOp)'
      /\ (op[p].kind = "build" => op[p].stage # 0)'
  BY DEF Shape, Untouched
<1>4. /\ ((op[p].kind # "none" /\ op[p].part = Prepared) => WorkersIn(p) = {})'
      /\ ((op[p].kind # "none" /\ op[p].part # Prepared) =>
            op[p].part \notin WorkersIn(p) /\ op[p].part <= config[p].workers)'
      /\ ((op[p].kind = "build" /\ op[p].part # Prepared) =>
            slots[p][op[p].part].generation < MaxGeneration)'
      /\ (live[p] = Cardinality(WorkersIn(p)))'
      /\ (\A w \in WorkersIn(p) : w <= config[p].workers)'
  BY <1>1 DEF Shape, Untouched
<1>. QED
  BY <1>2, <1>3, <1>4 DEF Shape, Untouched

(* Whoever holds an allocator, the pipeline it belongs to is there, and    *)
(* the limit of the allocator is one the application admitted.             *)
LEMMA HandedOutThere ==
  ASSUME LifeInv, NEW p \in Pipeline, NEW part \in Part, NEW i \in Stage,
         HandedOut(p, part, i)
  PROVE  identity[p] # 0 /\ Limit(p, part, i) \in Bytes
<1>1. CASE Building(p, part, i)
  <2>1. op[p] # NoOp
    BY <1>1 DEF Building, NoOp, Call
  <2>. QED
    BY <2>1, PipelineLifecycleAssumption
       DEF LifeInv, Shape, Limit, Request
<1>2. CASE i \in ExpectedAlive(p, part)
  <2>1. identity[p] # 0
    <3>1. ASSUME identity[p] = 0 PROVE FALSE
      <4>1. op[p] = NoOp /\ slots[p] = EmptySlots
        BY <3>1 DEF LifeInv, Shape
      <4>2. op[p].kind = "none"
        BY <4>1 DEF NoOp, Call
      <4>3. part # Prepared => slots[p][part].worker = 0
        BY <4>1 DEF EmptySlots, Part, Slot, Prepared
      <4>. QED
        BY <1>2, <3>1, <4>2, <4>3 DEF ExpectedAlive
    <3>. QED
      BY <3>1
  <2>. QED
    BY <2>1, PipelineLifecycleAssumption DEF LifeInv, Shape, Limit, Request
<1>. QED
  BY <1>1, <1>2 DEF HandedOut, LifeInv, Shape

LEMMA AllocateLife ==
  ASSUME LifeInv, NEW p \in Pipeline, NEW part \in Part, NEW i \in Stage,
         NEW n \in 1 .. MaxSize, Allocate(p, part, i, n)
  PROVE  LifeInv'
<1>1. UNCHANGED <<counter, identity, config, slots, live, alive, issued, outcome>>
  BY DEF Allocate
<1>2. CASE UNCHANGED op
  <2>1. budgets' \in [Pipeline -> [Part -> [Stage -> Budget]]]
    <3>1. CASE CanGrow(p, part, i, n)
      <4> DEFINE b == [phase |-> budgets[p][part][i].phase,
                       current |-> budgets[p][part][i].current + n]
      <4>1. budgets[p][part][i] \in Budget
        BY DEF LifeInv, TypeOK
      <4>0. [budgets[p][part][i] EXCEPT !.current = budgets[p][part][i].current + n]
              = b
        BY <4>1 DEF Budget
      <4>2. budgets' = [budgets EXCEPT ![p][part][i] = b]
        BY <3>1, <4>0 DEF Allocate, LifeInv, TypeOK
      <4>3. Limit(p, part, i) \in Bytes
        BY HandedOutThere DEF Allocate
      <4>4. b \in Budget
        BY <3>1, <4>1, <4>3, PipelineLifecycleAssumption
           DEF CanGrow, Budget, Bytes
      <4>. QED
        BY <4>2, <4>4, BudgetReplaced DEF LifeInv, TypeOK
    <3>2. CASE ~ CanGrow(p, part, i, n)
      BY <3>2 DEF Allocate, LifeInv, TypeOK
    <3>. QED
      BY <3>1, <3>2
  <2>. QED
    BY <1>1, <1>2, <2>1, ShapeKept DEF LifeInv, TypeOK, Untouched
<1>3. CASE op' # op
  <2>1. /\ op' = [op EXCEPT ![p].denied = TRUE]
        /\ budgets' = budgets
        /\ op[p].kind = "build"
    BY <1>3 DEF Allocate, Building
  <2>2. op \in [Pipeline -> Op]
    BY DEF LifeInv, TypeOK
  <2>3. /\ op' \in [Pipeline -> Op]
        /\ \A q \in Pipeline :
             /\ op'[q].kind = op[q].kind /\ op'[q].part = op[q].part
             /\ op'[q].stage = op[q].stage
             /\ op[q].kind = "none" => op'[q] = op[q]
    BY <2>1, <2>2 DEF Op
  <2>4. TypeOK'
    BY <1>1, <2>1, <2>3 DEF LifeInv, TypeOK
  <2>5. ASSUME NEW q \in Pipeline PROVE Shape(q)'
    <3>1. Shape(q)
      BY DEF LifeInv
    <3>2. identity[q] = 0 => op[q].kind = "none"
      BY <3>1 DEF Shape, NoOp, Call
    <3>3. WorkersIn(q)' = WorkersIn(q)
      BY <1>1 DEF WorkersIn
    <3>4. \A k \in Part : ExpectedAlive(q, k)' = ExpectedAlive(q, k)
      BY <1>1, <2>3 DEF ExpectedAlive
    <3>. QED
      BY <1>1, <2>3, <3>1, <3>2, <3>3, <3>4 DEF Shape
  <2>. QED
    BY <2>4, <2>5 DEF LifeInv
<1>. QED
  BY <1>2, <1>3

LEMMA FreeLife ==
  ASSUME LifeInv, NEW p \in Pipeline, NEW part \in Part, NEW i \in Stage,
         NEW n \in 1 .. MaxSize, Free(p, part, i, n)
  PROVE  LifeInv'
<1> DEFINE b == [phase |-> budgets[p][part][i].phase,
                 current |-> budgets[p][part][i].current - n]
<1>1. budgets[p][part][i] \in Budget
  BY DEF LifeInv, TypeOK
<1>0. [budgets[p][part][i] EXCEPT !.current = budgets[p][part][i].current - n]
        = b
  BY <1>1 DEF Budget
<1>2. budgets' = [budgets EXCEPT ![p][part][i] = b]
  BY <1>0 DEF Free, LifeInv, TypeOK
<1>3. b \in Budget
  BY <1>1, PipelineLifecycleAssumption DEF Free, Budget, Bytes
<1>4. budgets' \in [Pipeline -> [Part -> [Stage -> Budget]]]
  BY <1>2, <1>3, BudgetReplaced DEF LifeInv, TypeOK
<1>. QED
  BY <1>4, ShapeKept DEF Free, LifeInv, TypeOK, Untouched

LEMMA BeginCleanupLife ==
  ASSUME LifeInv, NEW p \in Pipeline, BeginCleanup(p)
  PROVE  LifeInv'
<1>1. PICK part \in Part, i \in Stage :
        /\ op[p].part = part /\ op[p].stage = i
  BY DEF BeginCleanup, LifeInv, TypeOK, Op, Stage
<1> DEFINE b == [phase |-> "cleanup",
                 current |-> budgets[p][part][i].current]
<1>2. budgets[p][part][i] \in Budget
  BY DEF LifeInv, TypeOK
<1>3. OpenedForCleanup(budgets[p][part][i]) = b
  BY <1>2 DEF OpenedForCleanup, Budget
<1>4. budgets' = [budgets EXCEPT ![p][part][i] = b]
  BY <1>1, <1>3 DEF BeginCleanup, LifeInv, TypeOK
<1>5. budgets' \in [Pipeline -> [Part -> [Stage -> Budget]]]
  BY <1>2, <1>4, BudgetReplaced DEF LifeInv, TypeOK, Budget
<1>. QED
  BY <1>5, ShapeKept DEF BeginCleanup, LifeInv, TypeOK, Untouched

-----------------------------------------------------------------------------
(* Beginning and ending calls. *)

LEMMA CallType ==
  ASSUME NEW kind \in {"build", "unwind", "destroy"}, NEW part \in Part,
         NEW i \in 0 .. Stages
  PROVE  Call(kind, part, i) \in Op
BY DEF Op, Call

LEMMA StagesFacts ==
  /\ 1 \in 0 .. Stages /\ Stages \in 0 .. Stages /\ Stages # 0 /\ 1 # 0
  /\ 1 .. (1 - 1) = {} /\ 1 .. Stages = Stage /\ 1 .. 0 = {}
  /\ Prepared \in Part
  /\ \A w \in Slot : w \in Part /\ w # Prepared
  /\ \A k \in Part : k # Prepared => k \in Slot
BY PipelineLifecycleAssumption DEF Stage, Part, Slot, Prepared

LEMMA SlotSetFinite ==
  ASSUME NEW S \in SUBSET Slot
  PROVE  IsFiniteSet(S) /\ Cardinality(S) \in 0 .. MaxWorkers
<1>1. IsFiniteSet(Slot) /\ Cardinality(Slot) = MaxWorkers
  <2>1. /\ IsFiniteSet(1 .. MaxWorkers)
        /\ Cardinality(1 .. MaxWorkers)
             = IF 1 > MaxWorkers THEN 0 ELSE MaxWorkers - 1 + 1
    BY FS_Interval, PipelineLifecycleAssumption, 1 \in Int, MaxWorkers \in Int
  <2>. QED
    BY <2>1, PipelineLifecycleAssumption DEF Slot
<1>2. IsFiniteSet(S) /\ Cardinality(S) <= MaxWorkers
  BY <1>1, FS_Subset
<1>. QED
  BY <1>2, FS_CardinalityType, PipelineLifecycleAssumption

LEMMA PrepareLife ==
  ASSUME LifeInv, NEW p \in Pipeline, NEW r \in Requests, Prepare(p, r)
  PROVE  LifeInv'
<1> DEFINE o == Call("build", Prepared, 1)
<1>1. /\ o \in Op
      /\ op' = [op EXCEPT ![p] = o]
      /\ identity' = [identity EXCEPT ![p] = counter + 1]
      /\ config' = [config EXCEPT ![p] = r]
      /\ counter' = counter + 1
      /\ counter + 1 \in 0 .. MaxIdentity /\ counter + 1 # 0
      /\ identity[p] = 0
      /\ UNCHANGED <<slots, live, budgets, alive, issued, outcome>>
  BY CallType, StagesFacts, PipelineLifecycleAssumption
     DEF Prepare, LifeInv, TypeOK
<1>2. TypeOK'
  BY <1>1 DEF LifeInv, TypeOK
<1>3. ASSUME NEW q \in Pipeline, q # p PROVE Shape(q)'
  BY <1>1, <1>3, ShapeKept DEF LifeInv, TypeOK, Untouched
<1>4. Shape(p)'
  <2>1. /\ Shape(p)
        /\ identity'[p] # 0 /\ config'[p] = r /\ op'[p] = o
    BY <1>1 DEF LifeInv, TypeOK
  <2>2. WorkersIn(p) = {} /\ WorkersIn(p)' = {}
    BY <1>1, <2>1 DEF WorkersIn, Shape, EmptySlots
  <2>3. op[p].kind = "none"
    BY <1>1, <2>1 DEF Shape, NoOp, Call
  <2>4. \A k \in Part : ExpectedAlive(p, k) = {}
    BY <1>1, <2>1, <2>2, <2>3, StagesFacts DEF ExpectedAlive, WorkersIn, Call
  <2>5. \A k \in Part : ExpectedAlive(p, k)' = {}
    BY <1>1, <2>1, <2>2, StagesFacts DEF ExpectedAlive, WorkersIn, Call
  <2>. QED
    <3>1. /\ o.kind = "build" /\ o.part = Prepared /\ o.stage = 1
      BY DEF Call
    <3>2. \A k \in Part : alive'[p][k] = ExpectedAlive(p, k)'
      BY <1>1, <2>1, <2>4, <2>5 DEF Shape
    <3>3. live'[p] = Cardinality(WorkersIn(p)')
      BY <1>1, <2>1, <2>2 DEF Shape
    <3>. QED
      BY <1>1, <2>1, <2>2, <3>1, <3>2, <3>3 DEF Shape
<1>. QED
  BY <1>2, <1>3, <1>4 DEF LifeInv

LEMMA InstantiateLife ==
  ASSUME LifeInv, NEW p \in Pipeline, Instantiate(p)
  PROVE  LifeInv'
<1>1. PICK w \in 1 .. config[p].workers :
        /\ slots[p][w].worker = 0
        /\ slots[p][w].generation < MaxGeneration
        /\ op' = [op EXCEPT ![p] = Call("build", w, 1)]
  BY DEF Instantiate
<1> DEFINE o == Call("build", w, 1)
<1>2. Shape(p) /\ identity[p] # 0 /\ op[p] = NoOp
  BY DEF LifeInv, Instantiate
<1>3. w \in Slot /\ w \in Part /\ w # Prepared /\ w <= config[p].workers
  <2>1. config[p].workers \in Slot
    BY <1>2, PipelineLifecycleAssumption DEF Shape, Request
  <2>. QED
    BY <2>1, StagesFacts, PipelineLifecycleAssumption DEF Slot
<1>4. /\ o \in Op
      /\ op' = [op EXCEPT ![p] = o]
      /\ UNCHANGED <<counter, identity, config, slots, live, budgets, alive,
                     issued, outcome>>
  BY <1>1, <1>3, CallType, StagesFacts DEF Instantiate
<1>5. TypeOK'
  BY <1>4 DEF LifeInv, TypeOK
<1>6. ASSUME NEW q \in Pipeline, q # p PROVE Shape(q)'
  BY <1>4, <1>6, ShapeKept DEF LifeInv, TypeOK, Untouched
<1>7. Shape(p)'
  <2>1. op'[p] = o
    BY <1>4 DEF LifeInv, TypeOK
  <2>2. WorkersIn(p)' = WorkersIn(p) /\ w \notin WorkersIn(p)
    BY <1>1, <1>4 DEF WorkersIn
  <2>3. op[p].kind = "none"
    BY <1>2 DEF NoOp, Call
  <2>4. \A k \in Part : ExpectedAlive(p, k)' = ExpectedAlive(p, k)
    BY <1>1, <1>3, <1>4, <2>1, <2>3, StagesFacts
       DEF ExpectedAlive, Call
  <2>. QED
    BY <1>1, <1>2, <1>3, <1>4, <2>1, <2>2, <2>4 DEF Shape, Call
<1>. QED
  BY <1>5, <1>6, <1>7 DEF LifeInv

LEMMA DeinitLife ==
  ASSUME LifeInv, NEW p \in Pipeline, Deinit(p)
  PROVE  LifeInv'
<1> DEFINE o == Call("destroy", Prepared, Stages)
<1>1. Shape(p) /\ identity[p] # 0 /\ op[p] = NoOp /\ live[p] = 0
  BY DEF LifeInv, Deinit
<1>2. /\ o \in Op
      /\ op' = [op EXCEPT ![p] = o]
      /\ UNCHANGED <<counter, identity, config, slots, live, budgets, alive,
                     issued, outcome>>
  BY CallType, StagesFacts DEF Deinit
<1>3. TypeOK'
  BY <1>2 DEF LifeInv, TypeOK
<1>4. ASSUME NEW q \in Pipeline, q # p PROVE Shape(q)'
  BY <1>2, <1>4, ShapeKept DEF LifeInv, TypeOK, Untouched
<1>5. Shape(p)'
  <2>1. op'[p] = o
    BY <1>2 DEF LifeInv, TypeOK
  <2>2. WorkersIn(p)' = WorkersIn(p) /\ WorkersIn(p) = {}
    <3>1. IsFiniteSet(WorkersIn(p))
      BY SlotSetFinite DEF WorkersIn
    <3>. QED
      BY <1>1, <1>2, <3>1, FS_EmptySet DEF WorkersIn, Shape
  <2>3. op[p].kind = "none"
    BY <1>1 DEF NoOp, Call
  <2>4. \A k \in Part : ExpectedAlive(p, k)' = ExpectedAlive(p, k)
    BY <1>1, <1>2, <2>1, <2>2, <2>3, StagesFacts
       DEF ExpectedAlive, WorkersIn, Call
  <2>. QED
    <3>1. /\ o.kind = "destroy" /\ o.part = Prepared
      BY DEF Call
    <3>2. \A k \in Part : alive'[p][k] = ExpectedAlive(p, k)'
      BY <1>1, <1>2, <2>4 DEF Shape
    <3>3. live'[p] = Cardinality(WorkersIn(p)')
      BY <1>1, <1>2, <2>2 DEF Shape
    <3>. QED
      BY <1>1, <1>2, <2>1, <2>2, <3>1, <3>2, <3>3 DEF Shape
<1>. QED
  BY <1>3, <1>4, <1>5 DEF LifeInv

(* The failed stage has nothing to destroy, so the stages to unwind are    *)
(* those that exist.                                                       *)
LEMMA StageFailsLife ==
  ASSUME LifeInv, NEW p \in Pipeline, NEW err, StageFails(p, err)
  PROVE  LifeInv'
<1>1. Shape(p) /\ op[p].kind = "build" /\ op[p].stage # 0 /\ op[p] \in Op
  BY DEF LifeInv, StageFails, Shape, TypeOK
<1>2. PICK part \in Part, i \in Stage, j \in 0 .. Stages :
        op[p].part = part /\ op[p].stage = i /\ j = i - 1
  <2>1. op[p].part \in Part /\ op[p].stage \in Stage
    BY <1>1 DEF Op, Stage
  <2>2. op[p].stage - 1 \in 0 .. Stages
    BY <2>1, PipelineLifecycleAssumption DEF Stage
  <2>. QED
    BY <2>1, <2>2
<1> DEFINE o == Call("unwind", part, j)
<1>3. /\ o \in Op
      /\ op' = [op EXCEPT ![p] = o]
      /\ UNCHANGED <<counter, identity, config, slots, live, budgets, alive,
                     issued>>
  <2>1. o \in Op
    BY <1>2, CallType
  <2>2. op' = [op EXCEPT ![p] = o]
    BY <1>2 DEF StageFails, UnwindFrom, LifeInv, TypeOK
  <2>. QED
    BY <2>1, <2>2 DEF StageFails
<1>4. TypeOK'
  BY <1>3 DEF StageFails, LifeInv, TypeOK
<1>5. ASSUME NEW q \in Pipeline, q # p PROVE Shape(q)'
  BY <1>3, <1>5, ShapeKept DEF LifeInv, TypeOK, Untouched
<1>6. Shape(p)'
  <2>1. op'[p] = o
    BY <1>3 DEF LifeInv, TypeOK
  <2>2. WorkersIn(p)' = WorkersIn(p)
    BY <1>3 DEF WorkersIn
  <2>3. \A k \in Part : ExpectedAlive(p, k)' = ExpectedAlive(p, k)
    BY <1>1, <1>2, <1>3, <2>1 DEF ExpectedAlive, Call
  <2>4. op[p] # NoOp
    BY <1>1 DEF NoOp, Call
  <2>. QED
    BY <1>1, <1>2, <1>3, <2>1, <2>2, <2>3, <2>4 DEF Shape, Call
<1>. QED
  BY <1>4, <1>5, <1>6 DEF LifeInv

(* The slot is empty before the worker's stages are destroyed. *)
LEMMA DeinitWorkerLife ==
  ASSUME LifeInv, NEW p \in Pipeline, NEW h \in Handle, DeinitWorker(p, h)
  PROVE  LifeInv'
<1>1. PICK w \in Slot : w = h.slot
  BY DEF Handle
<1>2. /\ Shape(p) /\ identity[p] # 0 /\ op[p] = NoOp
      /\ w \in WorkersIn(p)
      /\ slots[p][w] \in [generation : 0 .. MaxGeneration,
                          worker : 0 .. Len(issued)]
  BY <1>1 DEF DeinitWorker, Resolve, LifeInv, TypeOK, WorkersIn
<1> DEFINE o == Call("destroy", w, Stages)
           s == [generation |-> slots[p][w].generation, worker |-> 0]
<1>3. /\ o \in Op
      /\ op' = [op EXCEPT ![p] = o]
      /\ live' = [live EXCEPT ![p] = live[p] - 1]
      /\ UNCHANGED <<counter, identity, config, budgets, alive, issued, outcome>>
  BY <1>1, CallType, StagesFacts DEF DeinitWorker
<1>4. slots' = [slots EXCEPT ![p][w] = s]
  <2>1. [slots[p][w] EXCEPT !.worker = 0] = s
    BY <1>2
  <2>. QED
    BY <1>1, <2>1 DEF DeinitWorker, LifeInv, TypeOK
<1>5. s \in [generation : 0 .. MaxGeneration, worker : 0 .. Len(issued)]
  <2>1. Len(issued) \in Nat
    BY DEF LifeInv, TypeOK
  <2>. QED
    BY <1>2, <2>1
<1>6. /\ WorkersIn(p)' = WorkersIn(p) \ {w}
      /\ \A v \in Slot \ {w} : slots'[p][v] = slots[p][v]
      /\ slots'[p][w].worker = 0
  BY <1>4 DEF WorkersIn, LifeInv, TypeOK
<1>7. Cardinality(WorkersIn(p)') = live[p] - 1 /\ live[p] \in Nat \ {0}
  <2>1. IsFiniteSet(WorkersIn(p)) /\ live[p] = Cardinality(WorkersIn(p))
    BY <1>2, SlotSetFinite DEF WorkersIn, Shape
  <2>2. live[p] # 0 /\ live[p] \in Nat
    BY <1>2, <2>1, FS_EmptySet, FS_CardinalityType
  <2>3. Cardinality(WorkersIn(p) \ {w}) = Cardinality(WorkersIn(p)) - 1
    BY <1>2, <2>1, FS_RemoveElement
  <2>. QED
    BY <1>6, <2>1, <2>2, <2>3
<1>8. TypeOK'
  <2>1. live' \in [Pipeline -> 0 .. MaxWorkers]
    BY <1>3, <1>7, PipelineLifecycleAssumption DEF LifeInv, TypeOK
  <2>2. slots' \in [Pipeline -> [Slot -> [generation : 0 .. MaxGeneration,
                                         worker : 0 .. Len(issued)]]]
    BY <1>4, <1>5 DEF LifeInv, TypeOK
  <2>. QED
    BY <1>3, <2>1, <2>2 DEF LifeInv, TypeOK
<1>9. ASSUME NEW q \in Pipeline, q # p PROVE Shape(q)'
  BY <1>3, <1>4, <1>9, ShapeKept DEF LifeInv, TypeOK, Untouched
<1>10. Shape(p)'
  <2>1. op'[p] = o /\ live'[p] = live[p] - 1
    BY <1>3 DEF LifeInv, TypeOK
  <2>2. o.kind = "destroy" /\ o.part = w /\ o.stage = Stages
    BY DEF Call
  <2>3. op[p].kind = "none"
    BY <1>2 DEF NoOp, Call
  <2>4. \A k \in Part : ExpectedAlive(p, k)' = ExpectedAlive(p, k)
    <3>1. ExpectedAlive(p, w)' = Stage /\ ExpectedAlive(p, w) = Stage
      BY <1>2, <2>1, <2>2, <2>3, StagesFacts DEF ExpectedAlive, WorkersIn
    <3>2. ASSUME NEW k \in Part, k # w
          PROVE  ExpectedAlive(p, k)' = ExpectedAlive(p, k)
      BY <1>3, <1>6, <2>1, <2>2, <2>3, <3>2, StagesFacts DEF ExpectedAlive
    <3>. QED
      BY <3>1, <3>2
  <2>5. w # Prepared /\ w <= config[p].workers
    BY <1>2, StagesFacts DEF Shape
  <2>6. \A k \in Part : alive'[p][k] = ExpectedAlive(p, k)'
    BY <1>2, <1>3, <2>4 DEF Shape
  <2>. QED
    BY <1>2, <1>3, <1>6, <1>7, <2>1, <2>2, <2>5, <2>6 DEF Shape
<1>. QED
  BY <1>8, <1>9, <1>10 DEF LifeInv

(* The stage just destroyed is the last one that existed. *)
LEMMA EndCleanupLife ==
  ASSUME LifeInv, NEW p \in Pipeline, EndCleanup(p)
  PROVE  LifeInv'
<1>1. PICK kind \in {"unwind", "destroy"}, part \in Part, i \in Stage,
           j \in 0 .. Stages :
        /\ op[p].kind = kind /\ op[p].part = part /\ op[p].stage = i
        /\ j = i - 1
  <2>1. /\ op[p].kind \in {"unwind", "destroy"} /\ op[p].part \in Part
        /\ op[p].stage \in Stage
    BY DEF EndCleanup, LifeInv, TypeOK, Op, Stage
  <2>2. op[p].stage - 1 \in 0 .. Stages
    BY <2>1, PipelineLifecycleAssumption DEF Stage
  <2>. QED
    BY <2>1, <2>2
<1> DEFINE o == Call(kind, part, j)
           b == [phase |-> "sealed", current |-> budgets[p][part][i].current]
<1>2. /\ o \in Op
      /\ op' = [op EXCEPT ![p] = o]
      /\ alive' = [alive EXCEPT ![p][part] = alive[p][part] \ {i}]
      /\ UNCHANGED <<counter, identity, config, slots, live, issued, outcome>>
  BY <1>1, CallType DEF EndCleanup, LifeInv, TypeOK
<1>3. budgets' \in [Pipeline -> [Part -> [Stage -> Budget]]]
  <2>1. budgets[p][part][i] \in Budget
    BY DEF LifeInv, TypeOK
  <2>2. Seal(budgets[p][part][i]) = b
    BY <2>1 DEF Seal, Budget
  <2>3. budgets' = [budgets EXCEPT ![p][part][i] = b]
    BY <1>1, <2>2 DEF EndCleanup, LifeInv, TypeOK
  <2>. QED
    BY <2>1, <2>3, BudgetReplaced DEF LifeInv, TypeOK, Budget
<1>4. TypeOK'
  <2>1. alive' \in [Pipeline -> [Part -> SUBSET Stage]]
    BY <1>2 DEF LifeInv, TypeOK
  <2>. QED
    BY <1>2, <1>3, <2>1 DEF LifeInv, TypeOK
<1>5. ASSUME NEW q \in Pipeline, q # p PROVE Shape(q)'
  BY <1>2, <1>5, ShapeKept DEF LifeInv, TypeOK, Untouched
<1>6. Shape(p)'
  <2>1. /\ Shape(p) /\ op'[p] = o
        /\ alive'[p][part] = alive[p][part] \ {i}
        /\ \A k \in Part \ {part} : alive'[p][k] = alive[p][k]
    BY <1>2 DEF LifeInv, TypeOK
  <2>2. o.kind = kind /\ o.part = part /\ o.stage = j
    BY DEF Call
  <2>3. WorkersIn(p)' = WorkersIn(p)
    BY <1>2 DEF WorkersIn
  <2>4. \A k \in Part \ {part} : ExpectedAlive(p, k)' = ExpectedAlive(p, k)
    BY <1>1, <1>2, <2>1, <2>2 DEF ExpectedAlive
  <2>5. ExpectedAlive(p, part)' = ExpectedAlive(p, part) \ {i}
    <3>1. ExpectedAlive(p, part) = 1 .. i /\ ExpectedAlive(p, part)' = 1 .. j
      BY <1>1, <2>1, <2>2 DEF ExpectedAlive
    <3>2. (1 .. i) \ {i} = 1 .. j
      BY <1>1, PipelineLifecycleAssumption DEF Stage
    <3>. QED
      BY <3>1, <3>2
  <2>6. \A k \in Part : alive'[p][k] = ExpectedAlive(p, k)'
    BY <2>1, <2>4, <2>5 DEF Shape
  <2>7. op[p] # NoOp
    BY <1>1 DEF NoOp, Call
  <2>. QED
    BY <1>1, <1>2, <2>1, <2>2, <2>3, <2>6, <2>7 DEF Shape
<1>. QED
  BY <1>4, <1>5, <1>6 DEF LifeInv

(* A stage more exists; after the last one the part is there. *)
LEMMA StageBuiltLife ==
  ASSUME LifeInv, NEW p \in Pipeline, StageBuilt(p)
  PROVE  LifeInv'
<1>1. PICK part \in Part, i \in Stage :
        op[p].kind = "build" /\ op[p].part = part /\ op[p].stage = i
  BY DEF StageBuilt, LifeInv, TypeOK, Shape, Op, Stage
<1>2. /\ Shape(p) /\ op[p] # NoOp /\ identity[p] # 0
      /\ config[p] \in Requests
  BY <1>1 DEF LifeInv, Shape, NoOp, Call
<1>3. /\ alive' = [alive EXCEPT ![p][part] = alive[p][part] \cup {i}]
      /\ UNCHANGED <<counter, identity, config>>
  BY <1>1 DEF StageBuilt, LifeInv, TypeOK
<1>4. budgets' \in [Pipeline -> [Part -> [Stage -> Budget]]]
  <2> DEFINE b == [phase |-> "sealed", current |-> budgets[p][part][i].current]
  <2>1. budgets[p][part][i] \in Budget
    BY DEF LifeInv, TypeOK
  <2>2. Seal(budgets[p][part][i]) = b
    BY <2>1 DEF Seal, Budget
  <2>3. budgets' = [budgets EXCEPT ![p][part][i] = b]
    BY <1>1, <2>2 DEF StageBuilt, LifeInv, TypeOK
  <2>. QED
    BY <2>1, <2>3, BudgetReplaced DEF LifeInv, TypeOK, Budget
<1>5. alive' \in [Pipeline -> [Part -> SUBSET Stage]]
  BY <1>3 DEF LifeInv, TypeOK
<1>6. /\ alive'[p][part] = alive[p][part] \cup {i}
      /\ \A k \in Part \ {part} : alive'[p][k] = alive[p][k]
      /\ \A q \in Pipeline \ {p} : alive'[q] = alive[q]
  BY <1>3 DEF LifeInv, TypeOK
<1>7. alive'[p][part] = 1 .. i
  <2>1. alive[p][part] = 1 .. (i - 1)
    BY <1>1, <1>2 DEF Shape, ExpectedAlive
  <2>2. 1 .. (i - 1) \cup {i} = 1 .. i
    BY DEF Stage
  <2>. QED
    BY <1>6, <2>1, <2>2
<1>8. \A k \in Part \ {part} :
        alive'[p][k] = IF k = Prepared THEN Stage
                       ELSE IF slots[p][k].worker # 0 THEN Stage ELSE {}
  BY <1>1, <1>2, <1>6 DEF Shape, ExpectedAlive
<1>9. CASE i < Stages
  <2>1. PICK j \in 0 .. Stages : j = i + 1
    BY <1>9, PipelineLifecycleAssumption DEF Stage
  <2> DEFINE o == Call("build", part, j)
  <2>2. /\ o \in Op /\ op' = [op EXCEPT ![p] = o]
        /\ UNCHANGED <<slots, live, issued, outcome>>
    BY <1>1, <1>9, <2>1, CallType DEF StageBuilt
  <2>3. TypeOK'
    BY <1>3, <1>4, <1>5, <2>2 DEF LifeInv, TypeOK
  <2>4. ASSUME NEW q \in Pipeline, q # p PROVE Shape(q)'
    BY <1>3, <1>6, <2>2, <2>4, ShapeKept DEF LifeInv, TypeOK, Untouched
  <2>5. Shape(p)'
    <3>1. op'[p] = o
      BY <2>2 DEF LifeInv, TypeOK
    <3>2. o.kind = "build" /\ o.part = part /\ o.stage = j
      BY DEF Call
    <3>3. WorkersIn(p)' = WorkersIn(p)
      BY <2>2 DEF WorkersIn
    <3>4. j - 1 = i /\ j # 0
      BY <2>1 DEF Stage
    <3>5. \A k \in Part : alive'[p][k] = ExpectedAlive(p, k)'
      BY <1>2, <1>3, <1>7, <1>8, <2>2, <3>1, <3>2, <3>4 DEF ExpectedAlive
    <3>. QED
      BY <1>1, <1>2, <1>3, <2>2, <3>1, <3>2, <3>3, <3>4, <3>5 DEF Shape
  <2>. QED
    BY <2>3, <2>4, <2>5 DEF LifeInv
<1>10. CASE i = Stages
  <2>1. /\ op' = [op EXCEPT ![p] = NoOp]
        /\ outcome' = [outcome EXCEPT ![p] = "built"]
        /\ NoOp \in Op /\ NoOp.kind = "none"
    <3>1. 0 \in 0 .. Stages /\ Prepared \in Part
      BY PipelineLifecycleAssumption, StagesFacts
    <3>. QED
      BY <1>1, <1>10, <3>1, PipelineLifecycleAssumption
         DEF StageBuilt, NoOp, Call, Op, Stage
  <2>2. op'[p] = NoOp /\ alive'[p][part] = Stage
    BY <1>7, <1>10, <2>1, StagesFacts DEF LifeInv, TypeOK
  <2>3. CASE part = Prepared
    <3>1. UNCHANGED <<slots, live, issued>>
      BY <1>1, <1>10, <2>3, PipelineLifecycleAssumption DEF StageBuilt, Stage
    <3>2. TypeOK'
      BY <1>3, <1>4, <1>5, <2>1, <3>1 DEF LifeInv, TypeOK
    <3>3. ASSUME NEW q \in Pipeline, q # p PROVE Shape(q)'
      BY <1>3, <1>6, <2>1, <3>1, <3>3, ShapeKept DEF LifeInv, TypeOK, Untouched
    <3>4. Shape(p)'
      <4>1. WorkersIn(p)' = WorkersIn(p)
        BY <3>1 DEF WorkersIn
      <4>2. \A k \in Part : alive'[p][k] = ExpectedAlive(p, k)'
        <5>1. alive'[p][Prepared] = ExpectedAlive(p, Prepared)'
          <6>1. identity'[p] # 0 /\ op'[p].kind = "none"
            BY <1>2, <1>3, <2>1, <2>2
          <6>2. ExpectedAlive(p, Prepared)' = Stage
            BY <6>1 DEF ExpectedAlive
          <6>. QED
            BY <2>2, <2>3, <6>2
        <5>2. ASSUME NEW k \in Part, k # Prepared
              PROVE  alive'[p][k] = ExpectedAlive(p, k)'
          BY <1>8, <2>1, <2>2, <2>3, <3>1, <5>2 DEF ExpectedAlive
        <5>. QED
          BY <5>1, <5>2
      <4>. QED
        BY <1>2, <1>3, <2>1, <2>2, <3>1, <4>1, <4>2 DEF Shape
    <3>. QED
      BY <3>2, <3>3, <3>4 DEF LifeInv
  <2>4. CASE part # Prepared
    <3>1. PICK g \in 1 .. MaxGeneration : g = slots[p][part].generation + 1
      <4>1. part \in Slot /\ slots[p][part].generation < MaxGeneration
        BY <1>1, <1>2, <2>4, StagesFacts DEF Shape
      <4>2. slots[p][part].generation \in 0 .. MaxGeneration
        BY <4>1 DEF LifeInv, TypeOK
      <4>. QED
        BY <4>1, <4>2, PipelineLifecycleAssumption
    <3>2. Len(issued) \in Nat /\ part \in Slot
      BY <2>4, StagesFacts DEF LifeInv, TypeOK
    <3> DEFINE h == [identity |-> identity[p], slot |-> part, generation |-> g]
               s == [generation |-> g, worker |-> Len(issued) + 1]
    <3>3. /\ issued' = Append(issued, h)
          /\ slots' = [slots EXCEPT ![p][part] = s]
          /\ live' = [live EXCEPT ![p] = live[p] + 1]
      BY <1>1, <1>10, <2>4, <3>1, PipelineLifecycleAssumption
         DEF StageBuilt, Install, InstalledGeneration, Stage
    <3>4. h \in Handle
      BY <1>2, <3>2, PipelineLifecycleAssumption DEF Handle, LifeInv, TypeOK
    <3>5. issued' \in Seq(Handle) /\ Len(issued') = Len(issued) + 1
      BY <3>3, <3>4 DEF LifeInv, TypeOK
    <3>6. /\ WorkersIn(p)' = WorkersIn(p) \cup {part}
          /\ slots'[p][part] = s
          /\ \A v \in Slot \ {part} : slots'[p][v] = slots[p][v]
          /\ \A q \in Pipeline \ {p} : slots'[q] = slots[q]
      BY <3>2, <3>3 DEF WorkersIn, LifeInv, TypeOK
    <3>7. part \notin WorkersIn(p) /\ part <= config[p].workers
      BY <1>1, <1>2, <2>4 DEF Shape
    <3>8. /\ Cardinality(WorkersIn(p)') = live[p] + 1
          /\ live[p] + 1 \in 0 .. MaxWorkers
      <4>1. /\ IsFiniteSet(WorkersIn(p)) /\ live[p] = Cardinality(WorkersIn(p))
        BY <1>2, SlotSetFinite DEF WorkersIn, Shape
      <4>2. WorkersIn(p) \cup {part} \in SUBSET Slot
        BY <3>2 DEF WorkersIn
      <4>3. Cardinality(WorkersIn(p) \cup {part}) = live[p] + 1
        BY <3>7, <4>1, FS_AddElement
      <4>. QED
        BY <3>6, <4>2, <4>3, SlotSetFinite
    <3>9. slots' \in [Pipeline -> [Slot -> [generation : 0 .. MaxGeneration,
                                            worker : 0 .. Len(issued')]]]
      <4>1. s \in [generation : 0 .. MaxGeneration, worker : 0 .. Len(issued')]
        BY <3>2, <3>5, PipelineLifecycleAssumption
      <4>2. slots \in [Pipeline -> [Slot -> [generation : 0 .. MaxGeneration,
                                            worker : 0 .. Len(issued')]]]
        BY <3>2, <3>5 DEF LifeInv, TypeOK
      <4>. QED
        BY <3>3, <4>1, <4>2
    <3>10. TypeOK'
      BY <1>3, <1>4, <1>5, <2>1, <3>3, <3>5, <3>8, <3>9 DEF LifeInv, TypeOK
    <3>11. ASSUME NEW q \in Pipeline, q # p PROVE Shape(q)'
      BY <1>3, <1>6, <2>1, <3>3, <3>6, <3>11, ShapeKept
         DEF LifeInv, TypeOK, Untouched
    <3>12. Shape(p)'
      <4>1. live'[p] = live[p] + 1
        BY <3>3 DEF LifeInv, TypeOK
      <4>2. s.worker # 0
        BY <3>2
      <4>3. \A k \in Part : alive'[p][k] = ExpectedAlive(p, k)'
        <5>1. alive'[p][part] = ExpectedAlive(p, part)'
          BY <2>1, <2>2, <2>4, <3>6, <4>2 DEF ExpectedAlive
        <5>2. ASSUME NEW k \in Part, k # part
              PROVE  alive'[p][k] = ExpectedAlive(p, k)'
          BY <1>2, <1>3, <1>8, <2>1, <2>2, <3>6, <5>2, StagesFacts
             DEF ExpectedAlive
        <5>. QED
          BY <5>1, <5>2
      <4>. QED
        BY <1>2, <1>3, <2>1, <2>2, <3>6, <3>7, <3>8, <4>1, <4>3 DEF Shape
    <3>. QED
      BY <3>10, <3>11, <3>12 DEF LifeInv
  <2>. QED
    BY <2>3, <2>4
<1>. QED
  BY <1>9, <1>10, PipelineLifecycleAssumption DEF Stage

(* When its own storage goes a part has no stages left. *)
LEMMA FinishLife ==
  ASSUME LifeInv, NEW p \in Pipeline, Finish(p)
  PROVE  LifeInv'
<1>1. PICK kind \in {"unwind", "destroy"}, part \in Part :
        op[p].kind = kind /\ op[p].part = part /\ op[p].stage = 0
  BY DEF Finish, LifeInv, TypeOK, Op
<1>2. Shape(p) /\ NoOp.kind = "none"
  BY DEF LifeInv, NoOp, Call
<1>3. /\ op' = [op EXCEPT ![p] = NoOp]
      /\ UNCHANGED <<counter, live, alive, issued>>
      /\ \A q \in Pipeline \ {p} :
           /\ identity'[q] = identity[q] /\ config'[q] = config[q]
           /\ slots'[q] = slots[q]
  BY DEF Finish, LifeInv, TypeOK
<1>4. TypeOK'
  <2>1. Fresh \in Budget /\ NoOp \in Op
    BY PipelineLifecycleAssumption, StagesFacts
       DEF Fresh, Budget, Bytes, NoOp, Call, Op
  <2>2. [k \in Stage |-> Fresh] \in [Stage -> Budget]
    BY <2>1
  <2>3. budgets' \in [Pipeline -> [Part -> [Stage -> Budget]]]
    BY <1>1, <2>2 DEF Finish, LifeInv, TypeOK
  <2>4. EmptySlots \in [Slot -> [generation : 0 .. MaxGeneration,
                                 worker : 0 .. Len(issued)]]
    <3>1. Len(issued) \in Nat
      BY DEF LifeInv, TypeOK
    <3>. QED
      BY <3>1, PipelineLifecycleAssumption DEF EmptySlots
  <2>5. slots' \in [Pipeline -> [Slot -> [generation : 0 .. MaxGeneration,
                                          worker : 0 .. Len(issued)]]]
    BY <2>4 DEF Finish, LifeInv, TypeOK
  <2>6. identity' \in [Pipeline -> 0 .. MaxIdentity]
    <3>1. 0 \in 0 .. MaxIdentity
      BY PipelineLifecycleAssumption
    <3>2. \/ identity' = identity
          \/ identity' = [identity EXCEPT ![p] = 0]
      BY DEF Finish
    <3>. QED
      BY <3>1, <3>2 DEF LifeInv, TypeOK
  <2>7. config' \in [Pipeline -> Requests \cup {NoConfig}]
    BY DEF Finish, LifeInv, TypeOK
  <2>8. outcome' \in [Pipeline -> {"none", "built", "failed",
                                   "underestimated", "destroyed"}]
    BY DEF Finish, LifeInv, TypeOK
  <2>. QED
    BY <1>3, <2>1, <2>3, <2>5, <2>6, <2>7, <2>8 DEF LifeInv, TypeOK
<1>5. ASSUME NEW q \in Pipeline, q # p PROVE Shape(q)'
  BY <1>3, <1>5, ShapeKept DEF LifeInv, TypeOK, Untouched
<1>6. Shape(p)'
  <2>1. op'[p] = NoOp
    BY <1>3 DEF LifeInv, TypeOK
  <2>2. alive[p][part] = {}
    BY <1>1, <1>2, StagesFacts DEF Shape, ExpectedAlive
  <2>3. CASE part = Prepared
    <3>1. identity'[p] = 0 /\ slots'[p] = EmptySlots
      BY <1>1, <2>3 DEF Finish, LifeInv, TypeOK
    <3>2. WorkersIn(p) = {} /\ WorkersIn(p)' = {}
      BY <1>1, <1>2, <2>3, <3>1 DEF Shape, WorkersIn, EmptySlots
    <3>3. \A k \in Part : alive[p][k] = {}
      BY <1>1, <1>2, <2>2, <2>3, <3>2, StagesFacts
         DEF Shape, ExpectedAlive, WorkersIn
    <3>4. \A k \in Part : ExpectedAlive(p, k)' = {}
      BY <1>2, <2>1, <3>1, <3>2, StagesFacts DEF ExpectedAlive, WorkersIn
    <3>. QED
      BY <1>2, <1>3, <2>1, <3>1, <3>2, <3>3, <3>4 DEF Shape
  <2>4. CASE part # Prepared
    <3>1. UNCHANGED <<identity, config, slots>>
      BY <1>1, <2>4 DEF Finish
    <3>2. WorkersIn(p)' = WorkersIn(p) /\ part \notin WorkersIn(p)
      BY <1>1, <1>2, <2>4, <3>1 DEF Shape, WorkersIn
    <3>3. identity[p] # 0
      BY <1>1, <1>2 DEF Shape
    <3>4. \A k \in Part : alive'[p][k] = ExpectedAlive(p, k)'
      <4>1. alive'[p][part] = ExpectedAlive(p, part)'
        BY <1>2, <1>3, <2>1, <2>2, <2>4, <3>1, <3>2, StagesFacts
           DEF ExpectedAlive, WorkersIn
      <4>2. ASSUME NEW k \in Part, k # part
            PROVE  alive'[p][k] = ExpectedAlive(p, k)'
        BY <1>1, <1>2, <1>3, <2>1, <3>1, <4>2 DEF Shape, ExpectedAlive
      <4>. QED
        BY <4>1, <4>2
    <3>. QED
      BY <1>2, <1>3, <2>1, <3>1, <3>2, <3>3, <3>4 DEF Shape
  <2>. QED
    BY <2>3, <2>4
<1>. QED
  BY <1>4, <1>5, <1>6 DEF LifeInv

-----------------------------------------------------------------------------
(* Every step. *)

LEMMA InitLife == Init => LifeInv
<1> SUFFICES ASSUME Init PROVE LifeInv
  OBVIOUS
<1>1. /\ Fresh \in Budget /\ NoOp \in Op /\ NoOp.kind = "none"
      /\ Len(issued) = 0 /\ issued \in Seq(Handle)
  BY PipelineLifecycleAssumption, StagesFacts
     DEF Init, Fresh, Budget, Bytes, NoOp, Call, Op
<1>2. TypeOK
  <2>1. EmptySlots \in [Slot -> [generation : 0 .. MaxGeneration,
                                 worker : 0 .. Len(issued)]]
    BY <1>1, PipelineLifecycleAssumption DEF EmptySlots
  <2>. QED
    BY <1>1, <2>1, PipelineLifecycleAssumption DEF Init, TypeOK
<1>3. ASSUME NEW p \in Pipeline PROVE Shape(p)
  <2>1. WorkersIn(p) = {}
    BY DEF Init, EmptySlots, WorkersIn
  <2>2. \A k \in Part : ExpectedAlive(p, k) = {}
    BY <1>1, <2>1, StagesFacts DEF Init, ExpectedAlive, WorkersIn
  <2>3. live[p] = Cardinality(WorkersIn(p))
    BY <2>1, FS_EmptySet DEF Init
  <2>. QED
    BY <1>1, <2>1, <2>2, <2>3 DEF Init, Shape
<1>. QED
  BY <1>2, <1>3 DEF LifeInv

LEMMA NextLife == LifeInv /\ [Next]_vars => LifeInv'
<1> SUFFICES ASSUME LifeInv, [Next]_vars PROVE LifeInv'
  OBVIOUS
<1>1. CASE UNCHANGED vars
  BY <1>1, ShapeKept DEF vars, LifeInv, TypeOK, Untouched
<1>2. CASE Next
  <2>1. PICK p \in Pipeline :
          \/ \E r \in Requests : Prepare(p, r)
          \/ Instantiate(p)
          \/ AllocatorCall(p)
          \/ StageBuilt(p)
          \/ \E err \in {"ResourceUnderestimated", "other"} : StageFails(p, err)
          \/ \E n \in 1 .. Len(issued) : DeinitWorker(p, issued[n])
          \/ Deinit(p)
          \/ BeginCleanup(p)
          \/ EndCleanup(p)
          \/ Finish(p)
    BY <1>2 DEF Next
  <2>2. CASE \E r \in Requests : Prepare(p, r)
    BY <2>2, PrepareLife
  <2>3. CASE Instantiate(p)
    BY <2>3, InstantiateLife
  <2>4. CASE AllocatorCall(p)
    BY <2>4, AllocateLife, FreeLife DEF AllocatorCall
  <2>5. CASE StageBuilt(p)
    BY <2>5, StageBuiltLife
  <2>6. CASE \E err \in {"ResourceUnderestimated", "other"} : StageFails(p, err)
    BY <2>6, StageFailsLife
  <2>7. CASE \E n \in 1 .. Len(issued) : DeinitWorker(p, issued[n])
    <3>1. \A n \in 1 .. Len(issued) : issued[n] \in Handle
      BY DEF LifeInv, TypeOK
    <3>. QED
      BY <2>7, <3>1, DeinitWorkerLife
  <2>8. CASE Deinit(p)
    BY <2>8, DeinitLife
  <2>9. CASE BeginCleanup(p)
    BY <2>9, BeginCleanupLife
  <2>10. CASE EndCleanup(p)
    BY <2>10, EndCleanupLife
  <2>11. CASE Finish(p)
    BY <2>11, FinishLife
  <2>. QED
    BY <2>1, <2>2, <2>3, <2>4, <2>5, <2>6, <2>7, <2>8, <2>9, <2>10, <2>11
<1>. QED
  BY <1>1, <1>2

LEMMA LifeCorrect == Spec => []LifeInv
BY InitLife, NextLife, PTL DEF Spec

(* Prepared pipelines, slots, budgets and calls keep their types. *)
THEOREM TypeCorrect == Spec => []TypeOK
<1>1. LifeInv => TypeOK
  BY DEF LifeInv
<1>. QED
  BY <1>1, LifeCorrect, PTL

(* Whatever fails at whichever stage, and whenever workers come and go,    *)
(* the constructed stages are exactly those the call in progress, the      *)
(* registry and the identity account for.                                  *)
THEOREM UnwindingIsExact == Spec => []ExactUnwinding
<1>1. LifeInv => ExactUnwinding
  BY DEF LifeInv, Shape, ExactUnwinding
<1>. QED
  BY <1>1, LifeCorrect, PTL

(* No prepared value is destroyed before every object of every worker. *)
THEOREM PreparedOutlivesWorkers == Spec => []WorkersNeedPrepared
<1>1. LifeInv => WorkersNeedPrepared
  <2> SUFFICES ASSUME LifeInv, NEW p \in Pipeline, NEW w \in Slot,
                      alive[p][w] # {}
               PROVE  alive[p][Prepared] = Stage
    BY DEF WorkersNeedPrepared
  <2>1. Shape(p) /\ w \in Part /\ w # Prepared
    BY StagesFacts DEF LifeInv
  <2>2. ExpectedAlive(p, w) # {}
    BY <2>1 DEF Shape
  <2>3. identity[p] # 0
    BY <2>1, <2>2 DEF Shape, ExpectedAlive, EmptySlots, NoOp, Call
  <2>4. ~ (op[p].kind # "none" /\ op[p].part = Prepared)
    BY <2>1, <2>2 DEF Shape, ExpectedAlive, WorkersIn
  <2>. QED
    BY <2>1, <2>3, <2>4, StagesFacts DEF Shape, ExpectedAlive
<1>. QED
  BY <1>1, LifeCorrect, PTL

(* Construction and destruction nest: what is alive is what the calls in   *)
(* progress account for, and prepared values enclose every worker.         *)
THEOREM LifetimesCorrect == Spec => []LifetimesNest
BY UnwindingIsExact, PreparedOutlivesWorkers, PTL DEF LifetimesNest

-----------------------------------------------------------------------------
(* Handles.  Identities are fresh, generations only grow, and a worker in  *)
(* its slot is the one its handle was issued for.                          *)

Issued == 1 .. Len(issued)

HandleInv ==
  /\ \A p \in Pipeline : identity[p] <= counter
  /\ \A p, q \in Pipeline :
       identity[p] # 0 /\ identity[p] = identity[q] => p = q
  /\ \A n \in Issued : issued[n].identity <= counter
  /\ \A p \in Pipeline, n \in Issued :
       issued[n].identity = identity[p] =>
         issued[n].generation <= slots[p][issued[n].slot].generation
  /\ \A p \in Pipeline, w \in Slot : slots[p][w].worker # 0 =>
       issued[slots[p][w].worker] =
         [identity |-> identity[p], slot |-> w,
          generation |-> slots[p][w].generation]
  /\ \A m, n \in Issued : issued[m] = issued[n] => m = n

LEMMA IssuedType ==
  ASSUME TypeOK, NEW n \in Issued
  PROVE  /\ issued[n] \in Handle
         /\ issued[n].identity \in Nat \ {0}
         /\ issued[n].slot \in Slot
         /\ issued[n].generation \in Nat
         /\ issued[n] = [identity |-> issued[n].identity,
                         slot |-> issued[n].slot,
                         generation |-> issued[n].generation]
<1>1. issued[n] \in Handle
  BY DEF TypeOK, Issued
<1>. QED
  BY <1>1, PipelineLifecycleAssumption DEF Handle

(* The steps that neither build nor destroy leave all of it alone. *)
LEMMA HandlesKept ==
  ASSUME HandleInv, UNCHANGED <<counter, identity, slots, issued>>
  PROVE  HandleInv'
BY DEF HandleInv, Issued

LEMMA PrepareHandles ==
  ASSUME LifeInv, HandleInv, NEW p \in Pipeline, NEW r \in Requests,
         Prepare(p, r)
  PROVE  HandleInv'
<1>1. /\ counter' = counter + 1 /\ counter \in Nat
      /\ identity' = [identity EXCEPT ![p] = counter + 1]
      /\ UNCHANGED <<slots, issued>>
      /\ slots[p] = EmptySlots
  BY PipelineLifecycleAssumption DEF Prepare, LifeInv, TypeOK, Shape
<1>2. /\ \A q \in Pipeline : identity[q] \in Nat
      /\ \A n \in Issued : issued[n] \in Handle /\ issued[n].identity \in Nat
      /\ identity'[p] = counter + 1
      /\ \A q \in Pipeline \ {p} : identity'[q] = identity[q]
  <2>1. \A q \in Pipeline : identity[q] \in Nat
    BY PipelineLifecycleAssumption DEF LifeInv, TypeOK
  <2>2. /\ identity'[p] = counter + 1
        /\ \A q \in Pipeline \ {p} : identity'[q] = identity[q]
    BY <1>1 DEF LifeInv, TypeOK
  <2>. QED
    BY <2>1, <2>2, IssuedType DEF LifeInv
<1>3. Issued' = Issued
  BY <1>1 DEF Issued
<1>4. \A q \in Pipeline : identity'[q] <= counter'
  BY <1>1, <1>2 DEF HandleInv
<1>5. \A q, o \in Pipeline :
        identity'[q] # 0 /\ identity'[q] = identity'[o] => q = o
  BY <1>1, <1>2 DEF HandleInv
<1>6. \A n \in Issued : issued[n].identity <= counter
  BY DEF HandleInv
<1>7. ASSUME NEW q \in Pipeline, NEW n \in Issued,
             issued[n].identity = identity'[q]
      PROVE  issued[n].generation <= slots[q][issued[n].slot].generation
  <2>1. q # p
    BY <1>1, <1>2, <1>6, <1>7
  <2>. QED
    BY <1>2, <1>7, <2>1 DEF HandleInv
<1>8. ASSUME NEW q \in Pipeline, NEW w \in Slot, slots[q][w].worker # 0
      PROVE  issued[slots[q][w].worker] =
               [identity |-> identity'[q], slot |-> w,
                generation |-> slots[q][w].generation]
  <2>1. q # p
    BY <1>1, <1>8 DEF EmptySlots
  <2>. QED
    BY <1>2, <1>8, <2>1 DEF HandleInv
<1>9. \A n \in Issued : issued[n].identity <= counter'
  BY <1>1, <1>2, <1>6
<1>. QED
  BY <1>1, <1>3, <1>4, <1>5, <1>7, <1>8, <1>9 DEF HandleInv

LEMMA InstallHandles ==
  ASSUME LifeInv, HandleInv, NEW p \in Pipeline, NEW w \in Slot,
         identity[p] # 0, slots[p][w].generation < MaxGeneration,
         Install(p, w), UNCHANGED <<counter, identity>>
  PROVE  HandleInv'
<1>1. PICK g \in Nat, k \in Nat :
        /\ g = slots[p][w].generation + 1
        /\ k = Len(issued) + 1
  <2>1. slots[p][w].generation \in Nat /\ Len(issued) \in Nat
    BY PipelineLifecycleAssumption DEF LifeInv, TypeOK
  <2>. QED
    BY <2>1
<1> DEFINE h == [identity |-> identity[p], slot |-> w, generation |-> g]
           s == [generation |-> g, worker |-> k]
<1>2. h \in Handle
  BY <1>1, PipelineLifecycleAssumption DEF LifeInv, TypeOK, Handle
<1>3. /\ issued' = Append(issued, h) /\ issued \in Seq(Handle)
      /\ slots' = [slots EXCEPT ![p][w] = s]
  BY <1>1 DEF Install, InstalledGeneration, LifeInv, TypeOK
<1>4. /\ issued'[k] = h
      /\ \A n \in Issued : issued'[n] = issued[n]
      /\ Issued' = Issued \cup {k} /\ k \notin Issued
  BY <1>1, <1>2, <1>3 DEF Issued
<1>5. /\ slots'[p][w] = s
      /\ \A q \in Pipeline, v \in Slot :
           ~ (q = p /\ v = w) => slots'[q][v] = slots[q][v]
  BY <1>3 DEF LifeInv, TypeOK
<1>6. /\ \A n \in Issued : issued[n] \in Handle /\ issued[n].slot \in Slot
                            /\ issued[n].generation \in Nat
      /\ \A q \in Pipeline, v \in Slot :
           /\ slots[q][v].worker # 0 => slots[q][v].worker \in Issued
           /\ slots[q][v].generation \in Nat
  <2>1. \A q \in Pipeline, v \in Slot :
          /\ slots[q][v].worker \in 0 .. Len(issued)
          /\ slots[q][v].generation \in 0 .. MaxGeneration
    BY DEF LifeInv, TypeOK
  <2>2. Len(issued) \in Nat
    BY DEF LifeInv, TypeOK
  <2>3. \A q \in Pipeline, v \in Slot :
          /\ slots[q][v].worker # 0 => slots[q][v].worker \in Issued
          /\ slots[q][v].generation \in Nat
    BY <2>1, <2>2, PipelineLifecycleAssumption DEF Issued
  <2>. QED
    BY <2>3, IssuedType DEF LifeInv
<1>7. ASSUME NEW n \in Issued PROVE issued[n] # h
  <2> SUFFICES ASSUME issued[n] = h PROVE FALSE
    OBVIOUS
  <2>1. issued[n].generation <= slots[p][w].generation
    BY DEF HandleInv
  <2>. QED
    BY <1>1, <1>6, <2>1
<1>8. \A n \in Issued' : issued'[n].identity <= counter'
  <2>1. h.identity <= counter
    BY DEF HandleInv
  <2>. QED
    BY <1>4, <2>1 DEF HandleInv
<1>9. ASSUME NEW q \in Pipeline, NEW n \in Issued',
             issued'[n].identity = identity[q]
      PROVE  issued'[n].generation <= slots'[q][issued'[n].slot].generation
  <2>1. CASE n = k
    <3>1. q = p
      BY <1>4, <1>9, <2>1 DEF HandleInv
    <3>. QED
      BY <1>1, <1>4, <1>5, <2>1, <3>1
  <2>2. CASE n \in Issued
    <3>1. issued[n].generation <= slots[q][issued[n].slot].generation
      BY <1>4, <1>9, <2>2 DEF HandleInv
    <3>2. slots[q][issued[n].slot].generation
            <= slots'[q][issued[n].slot].generation
      BY <1>1, <1>5, <1>6, <2>2
    <3>3. slots'[q][issued[n].slot].generation \in Nat
      BY <1>1, <1>5, <1>6, <2>2
    <3>. QED
      BY <1>4, <1>6, <2>2, <3>1, <3>2, <3>3
  <2>. QED
    BY <1>4, <2>1, <2>2
<1>10. ASSUME NEW q \in Pipeline, NEW v \in Slot, slots'[q][v].worker # 0
       PROVE  issued'[slots'[q][v].worker] =
                [identity |-> identity[q], slot |-> v,
                 generation |-> slots'[q][v].generation]
  <2>1. CASE q = p /\ v = w
    BY <1>4, <1>5, <2>1
  <2>2. CASE ~ (q = p /\ v = w)
    <3>1. slots'[q][v] = slots[q][v] /\ slots[q][v].worker \in Issued
      BY <1>5, <1>6, <1>10, <2>2
    <3>. QED
      BY <1>4, <1>10, <3>1 DEF HandleInv
  <2>. QED
    BY <2>1, <2>2
<1>11. \A m, n \in Issued' : issued'[m] = issued'[n] => m = n
  BY <1>4, <1>7 DEF HandleInv
<1>. QED
  BY <1>8, <1>9, <1>10, <1>11 DEF HandleInv

LEMMA StageBuiltHandles ==
  ASSUME LifeInv, HandleInv, NEW p \in Pipeline, StageBuilt(p)
  PROVE  HandleInv'
<1>1. CASE UNCHANGED <<slots, issued>>
  BY <1>1, HandlesKept DEF StageBuilt
<1>2. CASE op[p].part # Prepared /\ Install(p, op[p].part)
  <2>1. Shape(p) /\ op[p] \in Op
    BY DEF LifeInv, TypeOK
  <2>2. PICK w \in Slot : w = op[p].part
    BY <1>2, <2>1, StagesFacts DEF Op
  <2>3. slots[p][w].generation < MaxGeneration
    BY <1>2, <2>1, <2>2 DEF StageBuilt, Shape
  <2>4. identity[p] # 0
    BY <2>1 DEF StageBuilt, Shape, NoOp, Call
  <2>. QED
    BY <1>2, <2>2, <2>3, <2>4, InstallHandles DEF StageBuilt
<1>. QED
  BY <1>1, <1>2 DEF StageBuilt

LEMMA DeinitWorkerHandles ==
  ASSUME LifeInv, HandleInv, NEW p \in Pipeline, NEW h \in Handle,
         DeinitWorker(p, h)
  PROVE  HandleInv'
<1>1. PICK w \in Slot : w = h.slot
  BY DEF Handle
<1>2. /\ UNCHANGED <<counter, identity, issued>>
      /\ slots' = [slots EXCEPT ![p][w].worker = 0]
  BY <1>1 DEF DeinitWorker
<1>3. \A q \in Pipeline, v \in Slot :
        /\ slots'[q][v].generation = slots[q][v].generation
        /\ slots'[q][v].worker # 0 =>
             slots'[q][v].worker = slots[q][v].worker
  BY <1>2 DEF LifeInv, TypeOK
<1>4. Issued' = Issued /\ \A n \in Issued : issued[n].slot \in Slot
  BY <1>2, IssuedType DEF Issued, LifeInv
<1>. QED
  BY <1>2, <1>3, <1>4 DEF HandleInv

LEMMA FinishHandles ==
  ASSUME LifeInv, HandleInv, NEW p \in Pipeline, Finish(p)
  PROVE  HandleInv'
<1>1. CASE op[p].part # Prepared
  BY <1>1, HandlesKept DEF Finish
<1>2. CASE op[p].part = Prepared
  <2>1. /\ UNCHANGED <<counter, issued>> /\ Issued' = Issued
        /\ identity'[p] = 0 /\ slots'[p] = EmptySlots
        /\ \A q \in Pipeline \ {p} :
             identity'[q] = identity[q] /\ slots'[q] = slots[q]
    BY <1>2 DEF Finish, LifeInv, TypeOK, Issued
  <2>2. counter \in Nat /\ \A n \in Issued : issued[n].identity # 0
    <3>1. counter \in Nat
      BY PipelineLifecycleAssumption DEF LifeInv, TypeOK
    <3>. QED
      BY <3>1, IssuedType DEF LifeInv
  <2>3. \A w \in Slot : slots'[p][w].worker = 0
    BY <2>1 DEF EmptySlots
  <2>. QED
    BY <2>1, <2>2, <2>3 DEF HandleInv
<1>. QED
  BY <1>1, <1>2

LEMMA NextHandles == LifeInv /\ HandleInv /\ [Next]_vars => HandleInv'
<1> SUFFICES ASSUME LifeInv, HandleInv, [Next]_vars PROVE HandleInv'
  OBVIOUS
<1>1. CASE UNCHANGED vars
  BY <1>1, HandlesKept DEF vars
<1>2. ASSUME NEW p \in Pipeline,
             \/ Instantiate(p)
             \/ AllocatorCall(p)
             \/ \E err \in {"ResourceUnderestimated", "other"} :
                  StageFails(p, err)
             \/ Deinit(p) \/ BeginCleanup(p) \/ EndCleanup(p)
      PROVE  HandleInv'
  BY <1>2, HandlesKept
     DEF Instantiate, AllocatorCall, Allocate, Free, StageFails, Deinit,
         BeginCleanup, EndCleanup
<1>3. ASSUME NEW p \in Pipeline, NEW n \in 1 .. Len(issued),
             DeinitWorker(p, issued[n])
      PROVE  HandleInv'
  <2>1. issued[n] \in Handle
    BY DEF LifeInv, TypeOK
  <2>. QED
    BY <1>3, <2>1, DeinitWorkerHandles
<1>. QED
  BY <1>1, <1>2, <1>3, PrepareHandles, StageBuiltHandles, FinishHandles
     DEF Next

LEMMA HandlesCorrect == Spec => [](LifeInv /\ HandleInv)
<1>1. Init => HandleInv
  BY DEF Init, HandleInv, Issued, EmptySlots
<1>. QED
  BY <1>1, InitLife, NextLife, NextHandles, PTL DEF Spec

LEMMA WorkerReachable ==
  ASSUME LifeInv, HandleInv, NEW p \in Pipeline, NEW w \in Slot,
         slots[p][w].worker # 0
  PROVE  Resolve(p, issued[slots[p][w].worker]) = slots[p][w].worker
<1>1. identity[p] # 0
  BY DEF LifeInv, Shape, EmptySlots
<1>2. w <= config[p].workers
  BY DEF LifeInv, Shape, WorkersIn
<1>3. issued[slots[p][w].worker] =
        [identity |-> identity[p], slot |-> w,
         generation |-> slots[p][w].generation]
  BY DEF HandleInv
<1>. QED
  BY <1>1, <1>2, <1>3 DEF Resolve

LEMMA ResolvedIsOwn ==
  ASSUME LifeInv, HandleInv, NEW p \in Pipeline, NEW n \in Issued
  PROVE  Resolve(p, issued[n]) \in {0, n}
<1> SUFFICES ASSUME Resolve(p, issued[n]) # 0
             PROVE  Resolve(p, issued[n]) = n
  OBVIOUS
<1>1. PICK w \in Slot : w = issued[n].slot
  BY IssuedType DEF LifeInv
<1>2. /\ issued[n].identity = identity[p]
      /\ issued[n].generation = slots[p][w].generation
      /\ Resolve(p, issued[n]) = slots[p][w].worker
      /\ slots[p][w].worker # 0
  BY <1>1 DEF Resolve
<1>3. issued[n] = [identity |-> identity[p], slot |-> w,
                   generation |-> slots[p][w].generation]
  BY <1>1, <1>2, IssuedType DEF LifeInv
<1>4. slots[p][w].worker \in Issued
  BY <1>2 DEF LifeInv, TypeOK, Issued
<1>. QED
  BY <1>2, <1>3, <1>4 DEF HandleInv

LEMMA InvResolves == LifeInv /\ HandleInv => HandleResolvesToItsWorker
BY ResolvedIsOwn, WorkerReachable DEF HandleResolvesToItsWorker, Issued

(* Every copy of every worker handle reaches its own worker or none,       *)
(* wherever it is presented and whatever was reused since.                 *)
THEOREM HandlesResolve == Spec => []HandleResolvesToItsWorker
BY InvResolves, HandlesCorrect, PTL

Dead(n) == \A p \in Pipeline : Resolve(p, issued[n]) = 0

(* A handle whose worker was destroyed never becomes valid again. *)
DeadHandlesStayDead ==
  [][\A n \in Issued : Dead(n) => Dead(n)']_vars

(* A slot only ever receives the worker being built, and the history of    *)
(* handles only grows.                                                     *)
LEMMA WorkersAreNew ==
  ASSUME LifeInv, Next, NEW q \in Pipeline, NEW w \in Slot, NEW n \in Issued
  PROVE  /\ issued'[n] = issued[n] /\ n \in Issued'
         /\ slots'[q][w].worker = n => slots[q][w].worker = n
<1>1. n # 0 /\ n # Len(issued) + 1
  BY DEF Issued, LifeInv, TypeOK
<1>2. CASE UNCHANGED <<slots, issued>>
  BY <1>2 DEF Issued
<1>3. ASSUME NEW p \in Pipeline, NEW v \in Slot, identity[p] # 0,
             slots[p][v].generation < MaxGeneration, Install(p, v)
      PROVE  /\ issued'[n] = issued[n] /\ n \in Issued'
             /\ slots'[q][w].worker = n => slots[q][w].worker = n
  <2>1. PICK g \in 1 .. MaxGeneration : g = InstalledGeneration(p, v)
    BY <1>3, PipelineLifecycleAssumption
       DEF InstalledGeneration, LifeInv, TypeOK
  <2> DEFINE h == [identity |-> identity[p], slot |-> v, generation |-> g]
  <2>2. h \in Handle
    BY <1>3, PipelineLifecycleAssumption DEF LifeInv, TypeOK, Handle
  <2>3. issued' = Append(issued, h) /\ issued \in Seq(Handle)
    BY <1>3, <2>1 DEF Install, LifeInv, TypeOK
  <2>4. issued'[n] = issued[n] /\ n \in Issued'
    BY <2>2, <2>3 DEF Issued
  <2>5. slots'[q][w].worker # slots[q][w].worker =>
          slots'[q][w].worker = Len(issued) + 1
    BY <1>3, <2>1 DEF Install, LifeInv, TypeOK
  <2>. QED
    BY <1>1, <2>4, <2>5
<1>4. ASSUME NEW p \in Pipeline, StageBuilt(p), ~ UNCHANGED <<slots, issued>>
      PROVE  \E v \in Slot : /\ identity[p] # 0
                             /\ slots[p][v].generation < MaxGeneration
                             /\ Install(p, v)
  <2>1. Shape(p) /\ op[p] \in Op
    BY DEF LifeInv, TypeOK
  <2>2. op[p].part # Prepared /\ Install(p, op[p].part)
    BY <1>4 DEF StageBuilt
  <2>3. op[p].part \in Slot
    BY <2>1, <2>2, StagesFacts DEF Op
  <2>4. slots[p][op[p].part].generation < MaxGeneration /\ identity[p] # 0
    BY <1>4, <2>1, <2>2 DEF StageBuilt, Shape, NoOp, Call
  <2>. QED
    BY <2>2, <2>3, <2>4
<1>5. ASSUME NEW p \in Pipeline, NEW m \in 1 .. Len(issued),
             DeinitWorker(p, issued[m])
      PROVE  /\ issued'[n] = issued[n] /\ n \in Issued'
             /\ slots'[q][w].worker = n => slots[q][w].worker = n
  <2>1. PICK v \in Slot : v = issued[m].slot
    BY IssuedType DEF LifeInv, Issued
  <2>2. issued' = issued /\ slots' = [slots EXCEPT ![p][v].worker = 0]
    BY <1>5, <2>1 DEF DeinitWorker
  <2>. QED
    BY <1>1, <2>2 DEF Issued, LifeInv, TypeOK
<1>6. ASSUME NEW p \in Pipeline, Finish(p)
      PROVE  /\ issued'[n] = issued[n] /\ n \in Issued'
             /\ slots'[q][w].worker = n => slots[q][w].worker = n
  <2>1. /\ issued' = issued
        /\ slots'[q] = slots[q] \/ slots'[q] = EmptySlots
    BY <1>6 DEF Finish, LifeInv, TypeOK
  <2>. QED
    BY <1>1, <2>1 DEF Issued, EmptySlots
<1>7. ASSUME NEW p \in Pipeline,
             \/ \E r \in Requests : Prepare(p, r)
             \/ Instantiate(p)
             \/ AllocatorCall(p)
             \/ \E err \in {"ResourceUnderestimated", "other"} :
                  StageFails(p, err)
             \/ Deinit(p) \/ BeginCleanup(p) \/ EndCleanup(p)
      PROVE  UNCHANGED <<slots, issued>>
  BY <1>7
     DEF Prepare, Instantiate, AllocatorCall, Allocate, Free, StageFails,
         Deinit, BeginCleanup, EndCleanup
<1>. QED
  BY <1>2, <1>3, <1>4, <1>5, <1>6, <1>7 DEF Next

(* A handle whose worker was destroyed stays dead, through every reuse of  *)
(* the slot, of the address and of the memory.                             *)
THEOREM DeadStayDead == Spec => DeadHandlesStayDead
<1>1. ASSUME LifeInv, HandleInv, LifeInv', HandleInv', [Next]_vars,
             NEW n \in Issued, Dead(n)
      PROVE  Dead(n)'
  <2>1. CASE UNCHANGED vars
    BY <1>1, <2>1 DEF vars, Dead, Resolve
  <2>2. CASE Next
    <3> SUFFICES ASSUME NEW q \in Pipeline, Resolve(q, issued[n])' # 0
                 PROVE  FALSE
      BY DEF Dead
    <3>1. PICK w \in Slot : w = issued[n].slot
      BY <1>1, IssuedType DEF LifeInv
    <3>2. issued'[n] = issued[n] /\ n \in Issued'
      BY <1>1, <2>2, <3>1, WorkersAreNew
    <3>3. slots'[q][w].worker = n
      <4>1. Resolve(q, issued[n])' \in {0, n}
        <5>1. HandleResolvesToItsWorker'
          BY <1>1, InvResolves, PTL
        <5>. QED
          BY <3>2, <5>1 DEF HandleResolvesToItsWorker, Issued
      <4>. QED
        BY <3>1, <3>2, <4>1 DEF Resolve
    <3>4. slots[q][w].worker = n /\ n # 0
      BY <1>1, <2>2, <3>3, WorkersAreNew DEF Issued
    <3>5. Resolve(q, issued[n]) = n
      BY <1>1, <3>4, WorkerReachable
    <3>. QED
      BY <1>1, <3>4, <3>5 DEF Dead
  <2>. QED
    BY <1>1, <2>1, <2>2
<1>2. LifeInv /\ HandleInv /\ (LifeInv /\ HandleInv)' /\ [Next]_vars
        => [\A n \in Issued : Dead(n) => Dead(n)']_vars
  BY <1>1
<1>. QED
  BY <1>2, HandlesCorrect, PTL DEF Spec, DeadHandlesStayDead

-----------------------------------------------------------------------------
(* Memory.  A sum over the stages is bounded because each summand is; the  *)
(* invariant says what is counted for one stage, and when it can change.   *)

(* The failed stage of an underestimated call may have left bytes behind.  *)
Underestimating(p, part) ==
  op[p].kind = "unwind" /\ op[p].part = part /\ outcome[p] = "underestimated"

(* Nobody's allocator counts nothing, a stage that stands is sealed.       *)
StageMemory(p, part, i) ==
  /\ identity[p] # 0 => budgets[p][part][i].current <= Limit(p, part, i)
  /\ ~ HandedOut(p, part, i) =>
       budgets[p][part][i].current = 0 \/ Underestimating(p, part)
  /\ (i \in alive[p][part] /\ ~ CleaningUp(p, part, i)) =>
       budgets[p][part][i].phase = "sealed"

MemoryShape(p) ==
  /\ identity[p] # 0 => Admitted(config[p])
  /\ \A part \in Part, i \in Stage : StageMemory(p, part, i)

MemoryInv == \A p \in Pipeline : MemoryShape(p)

(* What the memory of a pipeline depends on. *)
MemoryOf(p) == <<identity[p], config[p], budgets[p], alive[p], op[p], outcome[p]>>

LEMMA MemoryShapeKept ==
  ASSUME NEW p \in Pipeline, MemoryShape(p), MemoryOf(p)' = MemoryOf(p)
  PROVE  MemoryShape(p)'
<1>1. /\ identity'[p] = identity[p] /\ config'[p] = config[p]
      /\ budgets'[p] = budgets[p] /\ alive'[p] = alive[p]
      /\ op'[p] = op[p] /\ outcome'[p] = outcome[p]
  BY DEF MemoryOf
<1>2. (identity[p] # 0 => Admitted(config[p]))'
  BY <1>1 DEF MemoryShape, Admitted, PreparedTotal, WorkerEach
<1>3. ASSUME NEW part \in Part, NEW i \in Stage
      PROVE  StageMemory(p, part, i)'
  <2>1. StageMemory(p, part, i)
    BY DEF MemoryShape
  <2>2. /\ HandedOut(p, part, i)' = HandedOut(p, part, i)
        /\ CleaningUp(p, part, i)' = CleaningUp(p, part, i)
        /\ Limit(p, part, i)' = Limit(p, part, i)
        /\ Underestimating(p, part)' = Underestimating(p, part)
    BY <1>1 DEF HandedOut, Building, CleaningUp, Limit, Underestimating
  <2>. QED
    BY <1>1, <2>1, <2>2 DEF StageMemory
<1>. QED
  BY <1>2, <1>3 DEF MemoryShape

(* A step of one pipeline leaves the memory of the others alone. *)
StepOf(p) ==
  \/ \E r \in Requests : Prepare(p, r)
  \/ Instantiate(p)
  \/ AllocatorCall(p)
  \/ StageBuilt(p)
  \/ \E err \in {"ResourceUnderestimated", "other"} : StageFails(p, err)
  \/ \E n \in 1 .. Len(issued) : DeinitWorker(p, issued[n])
  \/ Deinit(p)
  \/ BeginCleanup(p)
  \/ EndCleanup(p)
  \/ Finish(p)

LEMMA OthersMemory ==
  ASSUME LifeInv, NEW p \in Pipeline, StepOf(p), NEW q \in Pipeline, q # p
  PROVE  MemoryOf(q)' = MemoryOf(q)
<1>1. identity'[q] = identity[q]
  BY DEF StepOf, LifeInv, TypeOK, Prepare, Instantiate, AllocatorCall, Allocate,
         Free, StageBuilt, StageFails, DeinitWorker, Deinit, BeginCleanup,
         EndCleanup, Finish
<1>2. config'[q] = config[q]
  BY DEF StepOf, LifeInv, TypeOK, Prepare, Instantiate, AllocatorCall, Allocate,
         Free, StageBuilt, StageFails, DeinitWorker, Deinit, BeginCleanup,
         EndCleanup, Finish
<1>3. budgets'[q] = budgets[q]
  BY DEF StepOf, LifeInv, TypeOK, Prepare, Instantiate, AllocatorCall, Allocate,
         Free, StageBuilt, StageFails, DeinitWorker, Deinit, BeginCleanup,
         EndCleanup, Finish
<1>4. alive'[q] = alive[q]
  BY DEF StepOf, LifeInv, TypeOK, Prepare, Instantiate, AllocatorCall, Allocate,
         Free, StageBuilt, StageFails, DeinitWorker, Deinit, BeginCleanup,
         EndCleanup, Finish
<1>5. op'[q] = op[q]
  BY DEF StepOf, LifeInv, TypeOK, Prepare, Instantiate, AllocatorCall, Allocate,
         Free, StageBuilt, StageFails, DeinitWorker, Deinit, BeginCleanup,
         EndCleanup, Finish
<1>6. outcome'[q] = outcome[q]
  BY DEF StepOf, LifeInv, TypeOK, Prepare, Instantiate, AllocatorCall, Allocate,
         Free, StageBuilt, StageFails, DeinitWorker, Deinit, BeginCleanup,
         EndCleanup, Finish
<1>. QED
  BY <1>1, <1>2, <1>3, <1>4, <1>5, <1>6 DEF MemoryOf

(* Calls that only begin: nothing is counted for stages not there yet. *)
LEMMA PrepareMemory ==
  ASSUME LifeInv, NEW p \in Pipeline, MemoryShape(p),
         NEW r \in Requests, Prepare(p, r)
  PROVE  MemoryShape(p)'
<1>1. /\ identity[p] = 0 /\ config'[p] = r /\ Admitted(r)
      /\ op'[p].kind = "build" /\ UNCHANGED <<budgets, alive, outcome>>
  BY DEF Prepare, Call, LifeInv, TypeOK
<1>2. Admitted(config[p])'
  BY <1>1 DEF Admitted, PreparedTotal, WorkerEach
<1>3. op[p].kind = "none" /\ \A part \in Part : alive[p][part] = {}
  <2>1. op[p] = NoOp /\ slots[p] = EmptySlots
    BY <1>1 DEF LifeInv, Shape
  <2>2. op[p].kind = "none"
    BY <2>1 DEF NoOp, Call
  <2>3. ASSUME NEW part \in Part
        PROVE  alive[p][part] = {}
    BY <1>1, <2>1, <2>2, StagesFacts
       DEF LifeInv, Shape, ExpectedAlive, EmptySlots
  <2>. QED
    BY <2>2, <2>3
<1>4. ASSUME NEW part \in Part, NEW i \in Stage
      PROVE  StageMemory(p, part, i)'
  <2>1. budgets[p][part][i].current = 0
    BY <1>3 DEF MemoryShape, StageMemory, HandedOut, Building, Underestimating
  <2>2. Limit(p, part, i)' \in Nat
    <3>1. r.prepared[i] \in Nat /\ r.worker[i] \in Nat
      BY PipelineLifecycleAssumption DEF Request, Bytes
    <3>. QED
      BY <1>1, <3>1 DEF Limit
  <2>. QED
    BY <1>1, <1>3, <2>1, <2>2 DEF StageMemory
<1>. QED
  BY <1>2, <1>4 DEF MemoryShape

(* A call that begins or fails: who holds an allocator is the same, or     *)
(* fewer, the bytes and the limits are the same.                           *)
LEMMA CallMemory ==
  ASSUME NEW p \in Pipeline, MemoryShape(p),
         identity'[p] = identity[p], config'[p] = config[p],
         budgets'[p] = budgets[p], alive'[p] = alive[p],
         \A part \in Part, i \in Stage :
           (HandedOut(p, part, i) /\ ~ HandedOut(p, part, i)') =>
             budgets[p][part][i].current = 0 \/ Underestimating(p, part)',
         \A part \in Part : ~ Underestimating(p, part),
         \A part \in Part, i \in Stage : ~ CleaningUp(p, part, i)
  PROVE  MemoryShape(p)'
<1>1. (identity[p] # 0 => Admitted(config[p]))'
  BY DEF MemoryShape, Admitted, PreparedTotal, WorkerEach
<1>2. ASSUME NEW part \in Part, NEW i \in Stage
      PROVE  StageMemory(p, part, i)'
  <2>1. StageMemory(p, part, i)
    BY DEF MemoryShape
  <2>2. Limit(p, part, i)' = Limit(p, part, i)
    BY DEF Limit
  <2>. QED
    BY <2>1, <2>2 DEF StageMemory
<1>. QED
  BY <1>1, <1>2 DEF MemoryShape

LEMMA BeginsMemory ==
  ASSUME LifeInv, NEW p \in Pipeline, MemoryShape(p),
         \/ Instantiate(p)
         \/ \E n \in 1 .. Len(issued) : DeinitWorker(p, issued[n])
         \/ Deinit(p)
  PROVE  MemoryShape(p)'
<1>1. /\ op[p] = NoOp
      /\ UNCHANGED <<identity, config, budgets, alive>>
  BY DEF Instantiate, DeinitWorker, Deinit
<1>2. op[p].kind = "none"
  BY <1>1 DEF NoOp, Call
<1>3. \A part \in Part, i \in Stage :
        /\ HandedOut(p, part, i) => HandedOut(p, part, i)'
        /\ ~ CleaningUp(p, part, i) /\ ~ Underestimating(p, part)
  BY <1>1, <1>2 DEF HandedOut, Building, CleaningUp, Underestimating
<1>4. \A part \in Part : ~ Underestimating(p, part)
  BY <1>2 DEF Underestimating
<1>. QED
  BY <1>1, <1>3, <1>4, CallMemory

LEMMA StageFailsMemory ==
  ASSUME LifeInv, NEW p \in Pipeline, MemoryShape(p), NEW err,
         StageFails(p, err)
  PROVE  MemoryShape(p)'
<1>1. /\ op[p].kind = "build"
      /\ UNCHANGED <<identity, config, budgets, alive>>
  BY DEF StageFails
<1>2. \A part \in Part, i \in Stage :
        ~ CleaningUp(p, part, i) /\ ~ Underestimating(p, part)
  BY <1>1 DEF CleaningUp, Underestimating
<1>3. op[p] \in Op
  BY DEF LifeInv, TypeOK
<1>4. ASSUME NEW part \in Part, NEW i \in Stage,
             HandedOut(p, part, i), ~ HandedOut(p, part, i)'
      PROVE  budgets[p][part][i].current = 0 \/ Underestimating(p, part)'
  <2>1. Building(p, part, i)
    BY <1>1, <1>4 DEF HandedOut
  <2>2. op'[p].kind = "unwind" /\ op'[p].part = part
    BY <2>1 DEF StageFails, Call, Building, LifeInv, TypeOK
  <2>3. budgets[p][part][i].current # 0 => outcome'[p] = "underestimated"
    BY <2>1 DEF StageFails, Underestimated, Building, LifeInv, TypeOK
  <2>. QED
    BY <2>2, <2>3 DEF Underestimating
<1>5. \A part \in Part : ~ Underestimating(p, part)
  BY <1>1 DEF Underestimating
<1>. QED
  BY <1>1, <1>2, <1>4, <1>5, CallMemory

(* The stages whose allocator a step does not touch. *)
LEMMA OtherStage ==
  ASSUME NEW p \in Pipeline, NEW part \in Part, NEW i \in Stage,
         StageMemory(p, part, i),
         identity'[p] = identity[p], config'[p] = config[p],
         budgets'[p][part][i] = budgets[p][part][i],
         HandedOut(p, part, i) => HandedOut(p, part, i)',
         i \in alive'[p][part] => i \in alive[p][part],
         CleaningUp(p, part, i) => CleaningUp(p, part, i)',
         Underestimating(p, part) => Underestimating(p, part)'
  PROVE  StageMemory(p, part, i)'
<1>1. Limit(p, part, i)' = Limit(p, part, i)
  BY DEF Limit
<1>. QED
  BY <1>1 DEF StageMemory

LEMMA AdmittedKept ==
  ASSUME NEW p \in Pipeline, MemoryShape(p),
         identity'[p] = identity[p], config'[p] = config[p],
         \A part \in Part, i \in Stage : StageMemory(p, part, i)'
  PROVE  MemoryShape(p)'
BY DEF MemoryShape, Admitted, PreparedTotal, WorkerEach

(* What is done with an allocator leaves its phase and the calls alone. *)
LEMMA AllocatorStep ==
  ASSUME LifeInv, NEW p \in Pipeline, NEW k \in Part, NEW j \in Stage,
         NEW n \in 1 .. MaxSize, Allocate(p, k, j, n) \/ Free(p, k, j, n)
  PROVE  /\ UNCHANGED <<identity, config, alive, outcome>>
         /\ HandedOut(p, k, j)
         /\ \A part \in Part, i \in Stage :
              /\ HandedOut(p, part, i)' = HandedOut(p, part, i)
              /\ CleaningUp(p, part, i)' = CleaningUp(p, part, i)
              /\ Underestimating(p, part)' = Underestimating(p, part)
              /\ budgets'[p][part][i].phase = budgets[p][part][i].phase
              /\ (part # k \/ i # j) => budgets'[p][part][i] = budgets[p][part][i]
<1>1. UNCHANGED <<identity, config, alive, outcome>> /\ HandedOut(p, k, j)
  BY DEF Allocate, Free
<1>2. \A part \in Part, i \in Stage :
        /\ budgets'[p][part][i].phase = budgets[p][part][i].phase
        /\ (part # k \/ i # j) => budgets'[p][part][i] = budgets[p][part][i]
  <2>1. ASSUME NEW part \in Part, NEW i \in Stage
        PROVE  budgets[p][part][i] \in Budget
    BY DEF LifeInv, TypeOK
  <2>2. budgets \in [Pipeline -> [Part -> [Stage -> Budget]]]
    BY DEF LifeInv, TypeOK
  <2>3. CASE Free(p, k, j, n)
    <3>1. budgets' = [budgets EXCEPT ![p][k][j].current = @ - n]
      BY <2>3 DEF Free
    <3>. QED
      BY <2>1, <2>2, <3>1 DEF Budget
  <2>4. CASE Allocate(p, k, j, n)
    <3>1. \/ budgets' = budgets
          \/ budgets' = [budgets EXCEPT ![p][k][j].current = @ + n]
      BY <2>4 DEF Allocate
    <3>2. CASE budgets' = budgets
      BY <3>2
    <3>3. CASE budgets' = [budgets EXCEPT ![p][k][j].current = @ + n]
      BY <2>1, <2>2, <3>3 DEF Budget
    <3>. QED
      BY <3>1, <3>2, <3>3
  <2>. QED
    BY <2>3, <2>4
<1>3. /\ op'[p].kind = op[p].kind /\ op'[p].part = op[p].part
      /\ op'[p].stage = op[p].stage
  <2>1. op \in [Pipeline -> Op]
    BY DEF LifeInv, TypeOK
  <2>2. op' = op \/ op' = [op EXCEPT ![p].denied = TRUE]
    BY DEF Allocate, Free
  <2>. QED
    BY <2>1, <2>2 DEF Op
<1>4. \A part \in Part, i \in Stage :
        /\ HandedOut(p, part, i)' = HandedOut(p, part, i)
        /\ CleaningUp(p, part, i)' = CleaningUp(p, part, i)
        /\ Underestimating(p, part)' = Underestimating(p, part)
  BY <1>1, <1>3 DEF HandedOut, Building, CleaningUp, Underestimating
<1>. QED
  BY <1>1, <1>2, <1>4

LEMMA AllocatorMemory ==
  ASSUME LifeInv, NEW p \in Pipeline, MemoryShape(p),
         NEW k \in Part, NEW j \in Stage, NEW n \in 1 .. MaxSize,
         Allocate(p, k, j, n) \/ Free(p, k, j, n)
  PROVE  MemoryShape(p)'
<1>1. /\ UNCHANGED <<identity, config, alive, outcome>>
      /\ HandedOut(p, k, j)
      /\ \A part \in Part, i \in Stage :
           /\ HandedOut(p, part, i)' = HandedOut(p, part, i)
           /\ CleaningUp(p, part, i)' = CleaningUp(p, part, i)
           /\ Underestimating(p, part)' = Underestimating(p, part)
           /\ budgets'[p][part][i].phase = budgets[p][part][i].phase
           /\ (part # k \/ i # j) => budgets'[p][part][i] = budgets[p][part][i]
  BY AllocatorStep
<1>2. StageMemory(p, k, j)'
  <2>1. StageMemory(p, k, j)
    BY DEF MemoryShape
  <2>2. Limit(p, k, j) \in Nat /\ Limit(p, k, j)' = Limit(p, k, j)
    BY <1>1, HandedOutThere DEF Limit, Bytes
  <2>3. identity[p] # 0 /\ budgets[p][k][j].current <= Limit(p, k, j)
    BY <1>1, <2>1, HandedOutThere DEF StageMemory
  <2>4. budgets[p][k][j] \in Budget /\ budgets[p][k][j].current \in Nat
    BY DEF LifeInv, TypeOK, Budget, Bytes
  <2>5. budgets'[p][k][j].current <= Limit(p, k, j)
    <3>1. CASE Allocate(p, k, j, n)
      <4>1. CASE CanGrow(p, k, j, n)
        <5>1. budgets'[p][k][j].current = budgets[p][k][j].current + n
          BY <3>1, <4>1 DEF Allocate, LifeInv, TypeOK, Budget
        <5>. QED
          BY <4>1, <5>1 DEF CanGrow
      <4>2. CASE ~ CanGrow(p, k, j, n)
        BY <2>3, <3>1, <4>2 DEF Allocate
      <4>. QED
        BY <4>1, <4>2
    <3>2. CASE Free(p, k, j, n)
      <4>1. budgets'[p][k][j].current = budgets[p][k][j].current - n
        BY <3>2 DEF Free, LifeInv, TypeOK, Budget
      <4>. QED
        BY <2>2, <2>3, <2>4, <4>1
    <3>. QED
      BY <3>1, <3>2
  <2>. QED
    BY <1>1, <2>1, <2>2, <2>5 DEF StageMemory
<1>3. ASSUME NEW part \in Part, NEW i \in Stage, part # k \/ i # j
      PROVE  StageMemory(p, part, i)'
  BY <1>1, <1>3, OtherStage DEF MemoryShape
<1>. QED
  BY <1>1, <1>2, <1>3, AdmittedKept

(* The stage is sealed as it comes to stand. *)
LEMMA StageBuiltMemory ==
  ASSUME LifeInv, NEW p \in Pipeline, MemoryShape(p), StageBuilt(p)
  PROVE  MemoryShape(p)'
<1>1. PICK k \in Part, j \in Stage :
        op[p].kind = "build" /\ op[p].part = k /\ op[p].stage = j
  BY DEF StageBuilt, LifeInv, TypeOK, Shape, Op, Stage
<1>2. /\ UNCHANGED <<identity, config>>
      /\ alive'[p][k] = alive[p][k] \cup {j}
      /\ \A part \in Part \ {k} : alive'[p][part] = alive[p][part]
      /\ op'[p].kind \in {"build", "none"}
  BY <1>1 DEF StageBuilt, NoOp, Call, LifeInv, TypeOK
<1>3. /\ budgets'[p][k][j].current = budgets[p][k][j].current
      /\ budgets'[p][k][j].phase = "sealed"
      /\ \A part \in Part, i \in Stage :
           (part # k \/ i # j) => budgets'[p][part][i] = budgets[p][part][i]
  <2>1. budgets' = [budgets EXCEPT ![p][k][j] = Seal(@)]
    BY <1>1 DEF StageBuilt
  <2>. QED
    BY <2>1 DEF Seal, LifeInv, TypeOK, Budget
<1>4. StageMemory(p, k, j)'
  <2>1. StageMemory(p, k, j)
    BY DEF MemoryShape
  <2>2. j \in alive'[p][k] /\ Limit(p, k, j)' = Limit(p, k, j)
    BY <1>2 DEF Limit
  <2>. QED
    BY <1>2, <1>3, <2>1, <2>2 DEF StageMemory, HandedOut
<1>5. ASSUME NEW part \in Part, NEW i \in Stage, part # k \/ i # j
      PROVE  StageMemory(p, part, i)'
  <2>1. StageMemory(p, part, i)
    BY DEF MemoryShape
  <2>2. /\ HandedOut(p, part, i) => HandedOut(p, part, i)'
        /\ i \in alive'[p][part] => i \in alive[p][part]
        /\ ~ CleaningUp(p, part, i) /\ ~ Underestimating(p, part)
    BY <1>1, <1>2, <1>5 DEF HandedOut, Building, CleaningUp, Underestimating
  <2>. QED
    BY <1>2, <1>3, <1>5, <2>1, <2>2, OtherStage
<1>. QED
  BY <1>2, <1>4, <1>5, AdmittedKept

LEMMA BeginCleanupMemory ==
  ASSUME LifeInv, NEW p \in Pipeline, MemoryShape(p), BeginCleanup(p)
  PROVE  MemoryShape(p)'
<1>1. PICK k \in Part, j \in Stage :
        /\ op[p].kind \in {"unwind", "destroy"}
        /\ op[p].part = k /\ op[p].stage = j
  BY DEF BeginCleanup, LifeInv, TypeOK, Op, Stage
<1>2. UNCHANGED <<identity, config, alive, op, outcome>>
  BY DEF BeginCleanup
<1>3. /\ budgets'[p][k][j].current = budgets[p][k][j].current
      /\ \A part \in Part, i \in Stage :
           (part # k \/ i # j) => budgets'[p][part][i] = budgets[p][part][i]
  <2>1. budgets' = [budgets EXCEPT ![p][k][j] = OpenedForCleanup(@)]
    BY <1>1 DEF BeginCleanup
  <2>. QED
    BY <2>1 DEF OpenedForCleanup, LifeInv, TypeOK, Budget
<1>4. \A part \in Part, i \in Stage :
        /\ HandedOut(p, part, i)' = HandedOut(p, part, i)
        /\ CleaningUp(p, part, i)' = CleaningUp(p, part, i)
        /\ Underestimating(p, part)' = Underestimating(p, part)
  BY <1>2 DEF HandedOut, Building, CleaningUp, Underestimating
<1>5. StageMemory(p, k, j)'
  <2>1. StageMemory(p, k, j) /\ CleaningUp(p, k, j)
    BY <1>1 DEF MemoryShape, CleaningUp
  <2>2. Limit(p, k, j)' = Limit(p, k, j)
    BY <1>2 DEF Limit
  <2>. QED
    BY <1>2, <1>3, <1>4, <2>1, <2>2 DEF StageMemory
<1>6. ASSUME NEW part \in Part, NEW i \in Stage, part # k \/ i # j
      PROVE  StageMemory(p, part, i)'
  BY <1>2, <1>3, <1>4, <1>6, OtherStage DEF MemoryShape
<1>. QED
  BY <1>2, <1>5, <1>6, AdmittedKept

(* A destructor that returns has freed everything.                         *)
LEMMA EndCleanupMemory ==
  ASSUME LifeInv, NEW p \in Pipeline, MemoryShape(p), EndCleanup(p)
  PROVE  MemoryShape(p)'
<1>1. PICK k \in Part, j \in Stage :
        /\ op[p].kind \in {"unwind", "destroy"}
        /\ op[p].part = k /\ op[p].stage = j
  BY DEF EndCleanup, LifeInv, TypeOK, Op, Stage
<1>2. /\ UNCHANGED <<identity, config, outcome>>
      /\ alive'[p][k] = alive[p][k] \ {j}
      /\ \A part \in Part \ {k} : alive'[p][part] = alive[p][part]
      /\ op'[p].kind = op[p].kind /\ op'[p].part = k
  BY <1>1 DEF EndCleanup, Call, LifeInv, TypeOK
<1>3. /\ budgets'[p][k][j].current = 0
      /\ \A part \in Part, i \in Stage :
           (part # k \/ i # j) => budgets'[p][part][i] = budgets[p][part][i]
  <2>1. budgets' = [budgets EXCEPT ![p][k][j] = Seal(@)]
    BY <1>1 DEF EndCleanup
  <2>2. budgets[p][k][j] = [phase |-> "cleanup", current |-> 0]
    BY <1>1 DEF EndCleanup
  <2>. QED
    BY <2>1, <2>2 DEF Seal, LifeInv, TypeOK, Budget
<1>4. StageMemory(p, k, j)'
  <2>1. j \notin alive'[p][k]
    BY <1>2
  <2>2. identity[p] # 0 => Limit(p, k, j)' \in Nat
    <3>1. identity[p] # 0 => config[p] \in Requests
      BY DEF LifeInv, Shape
    <3>. QED
      BY <1>2, <3>1, PipelineLifecycleAssumption DEF Limit, Request, Bytes
  <2>. QED
    BY <1>2, <1>3, <2>1, <2>2 DEF StageMemory
<1>5. ASSUME NEW part \in Part, NEW i \in Stage, part # k \/ i # j
      PROVE  StageMemory(p, part, i)'
  <2>1. StageMemory(p, part, i)
    BY DEF MemoryShape
  <2>2. /\ HandedOut(p, part, i) => HandedOut(p, part, i)'
        /\ i \in alive'[p][part] => i \in alive[p][part]
        /\ ~ CleaningUp(p, part, i)
        /\ Underestimating(p, part) => Underestimating(p, part)'
    BY <1>1, <1>2, <1>5 DEF HandedOut, Building, CleaningUp, Underestimating
  <2>. QED
    BY <1>2, <1>3, <1>5, <2>1, <2>2, OtherStage
<1>. QED
  BY <1>2, <1>4, <1>5, AdmittedKept

(* The part that goes takes its allocators with it. *)
LEMMA FinishMemory ==
  ASSUME LifeInv, NEW p \in Pipeline, MemoryShape(p), Finish(p)
  PROVE  MemoryShape(p)'
<1>1. PICK k \in Part :
        /\ op[p].kind \in {"unwind", "destroy"}
        /\ op[p].part = k /\ op[p].stage = 0
  BY DEF Finish, LifeInv, TypeOK, Op
<1>2. /\ alive' = alive
      /\ budgets'[p][k] = [i \in Stage |-> Fresh]
      /\ \A part \in Part \ {k} : budgets'[p][part] = budgets[p][part]
      /\ op'[p].kind = "none"
  BY <1>1 DEF Finish, NoOp, Call, LifeInv, TypeOK
<1>3. \/ identity'[p] = 0
      \/ identity'[p] = identity[p] /\ config'[p] = config[p]
  BY DEF Finish, LifeInv, TypeOK
<1>4. alive[p][k] = {}
  BY <1>1, StagesFacts DEF LifeInv, Shape, ExpectedAlive
<1>5. ASSUME NEW part \in Part, NEW i \in Stage
      PROVE  StageMemory(p, part, i)'
  <2>1. StageMemory(p, part, i)
    BY DEF MemoryShape
  <2>2. identity'[p] # 0 =>
          Limit(p, part, i)' = Limit(p, part, i) /\ Limit(p, part, i) \in Nat
    <3>1. identity'[p] # 0 => config[p] \in Requests /\ config'[p] = config[p]
      BY <1>3 DEF LifeInv, Shape
    <3>. QED
      BY <3>1, PipelineLifecycleAssumption DEF Limit, Request, Bytes
  <2>3. CASE part = k
    <3>1. budgets'[p][k][i].current = 0
      BY <1>2 DEF Fresh
    <3>. QED
      BY <1>2, <1>4, <2>2, <2>3, <3>1 DEF StageMemory
  <2>4. CASE part # k
    <3>1. /\ ~ CleaningUp(p, part, i) /\ ~ Underestimating(p, part)
          /\ ~ HandedOut(p, part, i)' => ~ HandedOut(p, part, i)
      BY <1>1, <1>2, <2>4 DEF CleaningUp, Underestimating, HandedOut, Building
    <3>. QED
      BY <1>2, <1>3, <2>1, <2>2, <2>4, <3>1 DEF StageMemory
  <2>. QED
    BY <2>3, <2>4
<1>6. (identity[p] # 0 => Admitted(config[p]))'
  BY <1>3 DEF MemoryShape, Admitted, PreparedTotal, WorkerEach
<1>. QED
  BY <1>5, <1>6 DEF MemoryShape

LEMMA NextMemory == LifeInv /\ MemoryInv /\ [Next]_vars => MemoryInv'
<1> SUFFICES ASSUME LifeInv, MemoryInv, [Next]_vars, NEW q \in Pipeline
             PROVE  MemoryShape(q)'
  BY DEF MemoryInv
<1>1. MemoryShape(q)
  BY DEF MemoryInv
<1>2. CASE UNCHANGED vars
  BY <1>1, <1>2, MemoryShapeKept DEF vars, MemoryOf
<1>3. ASSUME NEW p \in Pipeline, StepOf(p), p # q
      PROVE  MemoryShape(q)'
  BY <1>1, <1>3, OthersMemory, MemoryShapeKept
<1>4. CASE StepOf(q)
  <2>1. CASE AllocatorCall(q)
    BY <1>1, <2>1, AllocatorMemory DEF AllocatorCall
  <2>. QED
    BY <1>1, <1>4, <2>1, PrepareMemory, BeginsMemory, StageBuiltMemory,
       StageFailsMemory, BeginCleanupMemory, EndCleanupMemory, FinishMemory
       DEF StepOf
<1>. QED
  BY <1>2, <1>3, <1>4 DEF Next, StepOf

LEMMA MemoryCorrect == Spec => [](LifeInv /\ MemoryInv)
<1>1. Init => MemoryInv
  BY DEF Init, MemoryInv, MemoryShape, StageMemory, Fresh
<1>. QED
  BY <1>1, InitLife, NextLife, NextMemory, PTL DEF Spec

-----------------------------------------------------------------------------
(* From one stage to sums. *)

LEMMA StagesFinite == IsFiniteSet(Stage)
BY FS_Interval, PipelineLifecycleAssumption DEF Stage

Counted(p, part) == [i \in Stage |-> budgets[p][part][i].current]

LEMMA CountedType ==
  ASSUME TypeOK, NEW p \in Pipeline, NEW part \in Part
  PROVE  /\ Counted(p, part) \in [Stage -> Nat]
         /\ PartBytes(p, part) = SumFunction(Counted(p, part))
         /\ PartBytes(p, part) \in Nat
<1>1. Counted(p, part) \in [Stage -> Nat]
  BY DEF TypeOK, Counted, Budget, Bytes
<1>2. PartBytes(p, part) = SumFunction(Counted(p, part))
  BY DEF PartBytes, Counted
<1>3. \A i \in Stage : Counted(p, part)[i] <= Counted(p, part)[i]
  BY <1>1
<1>. QED
  BY <1>1, <1>2, <1>3, StagesFinite, SumMonotone

(* A part takes no more than its stages' estimates together.               *)
LEMMA PartBounded ==
  ASSUME LifeInv, MemoryInv, NEW p \in Pipeline, identity[p] # 0,
         NEW part \in Part
  PROVE  LET estimate == IF part = Prepared THEN config[p].prepared
                                            ELSE config[p].worker
         IN  /\ SumFunction(estimate) \in Nat
             /\ PartBytes(p, part) <= SumFunction(estimate)
<1> DEFINE estimate == IF part = Prepared THEN config[p].prepared
                                          ELSE config[p].worker
<1>1. estimate \in [Stage -> Nat]
  <2>1. config[p] \in Request
    BY PipelineLifecycleAssumption DEF LifeInv, Shape
  <2>. QED
    BY <2>1 DEF Request, Bytes
<1>2. TypeOK /\ Counted(p, part) \in [Stage -> Nat]
      /\ PartBytes(p, part) = SumFunction(Counted(p, part))
  BY CountedType DEF LifeInv
<1>3. \A i \in Stage : Counted(p, part)[i] <= estimate[i]
  <2>1. \A i \in Stage : budgets[p][part][i].current <= Limit(p, part, i)
    BY DEF MemoryInv, MemoryShape, StageMemory
  <2>. QED
    BY <2>1 DEF Counted, Limit
<1>. HIDE DEF estimate
<1>4. /\ SumFunction(estimate) \in Nat
      /\ SumFunction(Counted(p, part)) <= SumFunction(estimate)
  BY <1>1, <1>2, <1>3, StagesFinite, SumMonotone
<1>. QED
  BY <1>2, <1>4 DEF estimate

(* Once a part has no stages left nothing is counted for it, but for what  *)
(* an underestimated stage left behind.                                    *)
LEMMA LossReported == LifeInv /\ MemoryInv => LossIsReported
<1> SUFFICES ASSUME LifeInv, MemoryInv, NEW p \in Pipeline,
                    op[p].kind \in {"unwind", "destroy"}, op[p].stage = 0,
                    ~ (op[p].kind = "unwind" /\ outcome[p] = "underestimated")
             PROVE  PartBytes(p, op[p].part) = 0
  BY DEF LossIsReported
<1>1. PICK part \in Part : op[p].part = part
  BY DEF LifeInv, TypeOK, Op
<1>2. alive[p][part] = {}
  BY <1>1, StagesFacts DEF LifeInv, Shape, ExpectedAlive
<1>3. ASSUME NEW i \in Stage
      PROVE  Counted(p, part)[i] = 0
  <2>1. ~ HandedOut(p, part, i) /\ ~ Underestimating(p, part)
    BY <1>2 DEF HandedOut, Building, Underestimating
  <2>2. StageMemory(p, part, i)
    BY DEF MemoryInv, MemoryShape
  <2>. QED
    BY <2>1, <2>2 DEF StageMemory, Counted
<1>4. /\ Counted(p, part) \in [Stage -> Nat]
      /\ PartBytes(p, part) = SumFunction(Counted(p, part))
  BY CountedType DEF LifeInv
<1>5. SumFunction(Counted(p, part)) = 0 * Cardinality(Stage)
  <2>1. \E k \in Nat : k = 0
    OBVIOUS
  <2>. QED
    BY <1>3, <1>4, <2>1, StagesFinite, SumOfEquals
<1>6. Cardinality(Stage) \in Nat
  BY StagesFinite, FS_CardinalityType
<1>. QED
  BY <1>1, <1>4, <1>5, <1>6

LEMMA WorkersWithinCapacity ==
  ASSUME LifeInv, NEW p \in Pipeline, identity[p] # 0
  PROVE  /\ config[p].workers \in Nat
         /\ IsFiniteSet(WorkersThere(p))
         /\ Cardinality(WorkersThere(p)) \in Nat
         /\ Cardinality(WorkersThere(p)) <= config[p].workers
         /\ WorkersThere(p) \subseteq Slot
<1>1. config[p].workers \in Nat
  BY PipelineLifecycleAssumption DEF LifeInv, Shape, Request, Slot
<1>2. WorkersThere(p) \subseteq 1 .. config[p].workers
  <2> SUFFICES ASSUME NEW w \in WorkersThere(p)
               PROVE  w \in 1 .. config[p].workers
    OBVIOUS
  <2>1. w \in Slot /\ w # Prepared /\ Shape(p)
    BY StagesFacts DEF WorkersThere, LifeInv
  <2>2. w <= config[p].workers
    <3>1. CASE slots[p][w].worker # 0
      BY <2>1, <3>1 DEF Shape, WorkersIn
    <3>2. CASE op[p].kind # "none" /\ op[p].part = w
      BY <2>1, <3>2 DEF Shape
    <3>. QED
      BY <3>1, <3>2 DEF WorkersThere
  <2>. QED
    BY <1>1, <2>1, <2>2, PipelineLifecycleAssumption DEF Slot
<1>3. /\ IsFiniteSet(1 .. config[p].workers)
      /\ Cardinality(1 .. config[p].workers) = config[p].workers
  <2>1. /\ IsFiniteSet(1 .. config[p].workers)
        /\ Cardinality(1 .. config[p].workers)
             = IF 1 > config[p].workers THEN 0 ELSE config[p].workers - 1 + 1
    BY <1>1, FS_Interval, 1 \in Int, config[p].workers \in Int
  <2>. QED
    BY <1>1, <2>1
<1>. QED
  BY <1>1, <1>2, <1>3, FS_Subset, FS_CardinalityType DEF WorkersThere

(* A worker takes no more than was admitted for each.                      *)
LEMMA WorkerBounded ==
  ASSUME LifeInv, MemoryInv, NEW p \in Pipeline, identity[p] # 0,
         NEW w \in Slot
  PROVE  /\ WorkerEach(config[p]) \in Nat /\ WorkerBytes(p, w) \in Nat
         /\ WorkerBytes(p, w) <= WorkerEach(config[p])
<1>1. FrameworkWorker \in Nat
  BY PipelineLifecycleAssumption
<1>2. w \in Part /\ w # Prepared
  BY StagesFacts
<1>3. /\ SumFunction(config[p].worker) \in Nat
      /\ PartBytes(p, w) <= SumFunction(config[p].worker)
  BY <1>2, PartBounded
<1>4. PartBytes(p, w) \in Nat
  BY <1>2, CountedType DEF LifeInv
<1>. QED
  BY <1>1, <1>3, <1>4 DEF WorkerEach, WorkerBytes

LEMMA ProductMonotone ==
  ASSUME NEW a \in Nat, NEW b \in Nat, NEW c \in Nat, b <= c
  PROVE  a * b <= a * c
<1>1. PICK d \in Nat : c = b + d
  <2>1. c - b \in Nat /\ c = b + (c - b)
    OBVIOUS
  <2>. QED
    BY <2>1
<1>2. a * (b + d) = a * b + a * d /\ a * d \in Nat /\ a * b \in Nat
  OBVIOUS
<1>. QED
  BY <1>1, <1>2

(* All workers together take no more than was admitted for as many as the  *)
(* pipeline has slots.                                                     *)
LEMMA WorkersBounded ==
  ASSUME LifeInv, MemoryInv, NEW p \in Pipeline, identity[p] # 0
  PROVE  SumFunction([w \in WorkersThere(p) |-> WorkerBytes(p, w)])
           <= WorkerEach(config[p]) * config[p].workers
<1> DEFINE D == WorkersThere(p)
           each == WorkerEach(config[p])
           taken == [w \in D |-> WorkerBytes(p, w)]
           most == [w \in D |-> each]
<1>1. /\ IsFiniteSet(D) /\ Cardinality(D) \in Nat
      /\ config[p].workers \in Nat /\ Cardinality(D) <= config[p].workers
  BY WorkersWithinCapacity
<1>2. \A w \in D : w \in Slot
  BY WorkersWithinCapacity
<1>3. \A w \in D : /\ each \in Nat /\ WorkerBytes(p, w) \in Nat
                   /\ WorkerBytes(p, w) <= each
  BY <1>2, WorkerBounded
<1>4. each \in Nat
  <2>1. Admitted(config[p])
    BY DEF MemoryInv, MemoryShape
  <2>2. WorkerEach(config[p]) \in Bytes
    BY <2>1 DEF Admitted
  <2>. QED
    BY <2>2 DEF Bytes
<1>. HIDE DEF D, each
<1>5. /\ taken \in [D -> Nat] /\ most \in [D -> Nat]
      /\ \A w \in D : taken[w] <= most[w] /\ most[w] = each
  BY <1>3, <1>4
<1>. HIDE DEF taken, most
<1>6. SumFunction(taken) \in Nat /\ SumFunction(taken) <= SumFunction(most)
  BY <1>1, <1>5, SumMonotone
<1>7. SumFunction(most) = each * Cardinality(D)
  BY <1>1, <1>4, <1>5, SumOfEquals
<1>8. each * Cardinality(D) <= each * config[p].workers
  BY <1>1, <1>4, ProductMonotone
<1>9. each * Cardinality(D) \in Nat /\ each * config[p].workers \in Nat
  BY <1>1, <1>4
<1>10. SumFunction(taken) <= each * config[p].workers
  BY <1>6, <1>7, <1>8, <1>9
<1>. QED
  BY <1>10 DEF taken, D, each

LEMMA MemoryBounded == LifeInv /\ MemoryInv => MemoryWithinLimits
<1> SUFFICES ASSUME LifeInv, MemoryInv, NEW p \in Pipeline, identity[p] # 0
             PROVE  /\ FrameworkPrepared + FrameworkSlot * config[p].workers
                         + PartBytes(p, Prepared) <= config[p].preparedLimit
                    /\ \A w \in WorkersThere(p) :
                         WorkerBytes(p, w) <= config[p].workerLimit
                    /\ SumFunction([w \in WorkersThere(p) |-> WorkerBytes(p, w)])
                         <= config[p].workersLimit
  BY LossReported DEF MemoryWithinLimits
<1> DEFINE r == config[p]
           each == WorkerEach(r)
           total == SumFunction([w \in WorkersThere(p) |-> WorkerBytes(p, w)])
<1>1. /\ Admitted(r)
      /\ r.preparedLimit \in Nat /\ r.workerLimit \in Nat
      /\ r.workersLimit \in Nat /\ r.workers \in Nat
  BY PipelineLifecycleAssumption
     DEF MemoryInv, MemoryShape, LifeInv, Shape, Request, Bytes, Slot
<1>2. /\ SumFunction(r.prepared) \in Nat
      /\ PartBytes(p, Prepared) <= SumFunction(r.prepared)
      /\ PartBytes(p, Prepared) \in Nat
  BY StagesFacts, PartBounded, CountedType DEF LifeInv
<1>3. FrameworkPrepared + FrameworkSlot * r.workers + PartBytes(p, Prepared)
        <= r.preparedLimit
  <2>1. FrameworkPrepared \in Nat /\ FrameworkSlot * r.workers \in Nat
    BY <1>1, PipelineLifecycleAssumption
  <2>2. FrameworkPrepared + FrameworkSlot * r.workers + SumFunction(r.prepared)
          <= r.preparedLimit
    BY <1>1 DEF Admitted, PreparedTotal
  <2>. HIDE DEF r
  <2>. QED
    BY <1>1, <1>2, <2>1, <2>2
<1>4. ASSUME NEW w \in WorkersThere(p)
      PROVE  WorkerBytes(p, w) <= r.workerLimit
  <2>1. w \in Slot
    BY DEF WorkersThere
  <2>2. /\ each \in Nat /\ WorkerBytes(p, w) \in Nat
        /\ WorkerBytes(p, w) <= each
    BY <2>1, WorkerBounded
  <2>3. each <= r.workerLimit
    BY <1>1 DEF Admitted
  <2>. HIDE DEF r, each
  <2>. QED
    BY <1>1, <2>2, <2>3
<1>5. total <= r.workersLimit
  <2>1. total <= each * r.workers
    BY WorkersBounded
  <2>2. each * r.workers \in Nat /\ each * r.workers <= r.workersLimit
    BY <1>1 DEF Admitted, Bytes
  <2>3. total \in Nat
    <3>1. /\ IsFiniteSet(WorkersThere(p))
          /\ \A w \in WorkersThere(p) : WorkerBytes(p, w) \in Nat
      BY WorkersWithinCapacity, WorkerBounded
    <3>. QED
      BY <3>1, SumMonotone
  <2>. HIDE DEF total, each, r
  <2>. QED
    BY <1>1, <2>1, <2>2, <2>3
<1>. QED
  BY <1>3, <1>4, <1>5

(* Whatever processors allocate, and whichever stage fails, a pipeline and *)
(* its workers stay within the limits the application gave, and memory     *)
(* lost to an underestimate was reported.                                  *)
THEOREM MemoryStaysWithinLimits == Spec => []MemoryWithinLimits
BY MemoryBounded, MemoryCorrect, PTL

(* Who moves the count of a stage: its constructor, its destructor, or the *)
(* storage of a part that goes with what an unwinding left behind.         *)
LEMMA CountMoves ==
  ASSUME LifeInv, MemoryInv, NEW p \in Pipeline, StepOf(p),
         NEW part \in Part, NEW i \in Stage,
         budgets'[p][part][i].current # budgets[p][part][i].current
  PROVE  \/ Building(p, part, i) \/ CleaningUp(p, part, i)
         \/ (op[p].kind = "unwind" /\ op[p].stage = 0)
<1>1. StageMemory(p, part, i)
  BY DEF MemoryInv, MemoryShape
<1>2. ASSUME NEW k \in Part, NEW j \in Stage, NEW n \in 1 .. MaxSize,
             Allocate(p, k, j, n) \/ Free(p, k, j, n)
      PROVE  Building(p, part, i) \/ CleaningUp(p, part, i)
  <2>1. part = k /\ i = j /\ HandedOut(p, part, i)
    BY <1>2, AllocatorStep
  <2>2. budgets[p][part][i].phase # "sealed"
    BY <1>2, <2>1 DEF Allocate, CanGrow, Free, CanFree
  <2>. QED
    BY <1>1, <2>1, <2>2 DEF StageMemory, HandedOut
<1>3. CASE StageBuilt(p) \/ BeginCleanup(p) \/ EndCleanup(p)
  <2>1. \/ budgets' = [budgets EXCEPT ![p][op[p].part][op[p].stage] = Seal(@)]
        \/ budgets' = [budgets EXCEPT
                         ![p][op[p].part][op[p].stage] = OpenedForCleanup(@)]
    BY <1>3 DEF StageBuilt, BeginCleanup, EndCleanup
  <2>2. budgets'[p][part][i].current = budgets[p][part][i].current
    <3>1. /\ budgets \in [Pipeline -> [Part -> [Stage -> Budget]]]
          /\ budgets[p][part][i] \in Budget
      BY DEF LifeInv, TypeOK
    <3>2. ASSUME budgets' = [budgets EXCEPT
                               ![p][op[p].part][op[p].stage] = Seal(@)]
          PROVE  budgets'[p][part][i].current = budgets[p][part][i].current
      BY <3>1, <3>2 DEF Seal, Budget
    <3>3. ASSUME budgets' = [budgets EXCEPT
                               ![p][op[p].part][op[p].stage] = OpenedForCleanup(@)]
          PROVE  budgets'[p][part][i].current = budgets[p][part][i].current
      BY <3>1, <3>3 DEF OpenedForCleanup, Budget
    <3>. QED
      BY <2>1, <3>2, <3>3
  <2>. QED
    BY <2>2
<1>4. CASE Finish(p)
  <2>1. op[p].stage = 0 /\ op[p].kind \in {"unwind", "destroy"}
    BY <1>4 DEF Finish
  <2>2. part = op[p].part /\ budgets'[p][part][i].current = 0
    BY <1>4 DEF Finish, Fresh, LifeInv, TypeOK
  <2>3. alive[p][part] = {}
    BY <2>1, <2>2, StagesFacts DEF LifeInv, Shape, ExpectedAlive
  <2>4. ~ HandedOut(p, part, i)
    BY <2>1, <2>3 DEF HandedOut, Building
  <2>. QED
    BY <1>1, <2>1, <2>2, <2>4 DEF StageMemory, Underestimating
<1>5. CASE \/ \E r \in Requests : Prepare(p, r)
           \/ Instantiate(p)
           \/ \E err \in {"ResourceUnderestimated", "other"} : StageFails(p, err)
           \/ \E n \in 1 .. Len(issued) : DeinitWorker(p, issued[n])
           \/ Deinit(p)
  BY <1>5 DEF Prepare, Instantiate, StageFails, DeinitWorker, Deinit
<1>. QED
  BY <1>2, <1>3, <1>4, <1>5 DEF StepOf, AllocatorCall

(* What is counted for a stage that stands does not move, whoever kept a   *)
(* copy of its allocator.                                                  *)
THEOREM SealedMemoryCorrect == Spec => SealedMemoryStands
<1>1. ASSUME LifeInv, MemoryInv, [Next]_vars,
             NEW p \in Pipeline, NEW part \in Part, NEW i \in Stage,
             budgets'[p][part][i].current # budgets[p][part][i].current
      PROVE  \/ Building(p, part, i) \/ CleaningUp(p, part, i)
             \/ (op[p].kind = "unwind" /\ op[p].stage = 0)
  <2>1. budgets' # budgets
    BY <1>1
  <2>2. PICK q \in Pipeline : StepOf(q)
    BY <1>1, <2>1 DEF vars, Next, StepOf
  <2>3. q = p
    <3>1. q # p => budgets'[p] = budgets[p]
      BY <1>1, <2>2, OthersMemory DEF MemoryOf
    <3>. QED
      BY <1>1, <3>1
  <2>. QED
    BY <1>1, <2>2, <2>3, CountMoves
<1>2. LifeInv /\ MemoryInv /\ [Next]_vars =>
        [\A p \in Pipeline, part \in Part, i \in Stage :
           budgets'[p][part][i].current # budgets[p][part][i].current =>
             \/ Building(p, part, i) \/ CleaningUp(p, part, i)
             \/ (op[p].kind = "unwind" /\ op[p].stage = 0)]_vars
  BY <1>1
<1>. QED
  BY <1>2, MemoryCorrect, PTL DEF Spec, SealedMemoryStands
=============================================================================
