---------------------------- MODULE MetadataFlow ----------------------------
(***************************************************************************)
(* The typed metadata of a worker: the store that processBatchOwned copies *)
(* from its caller's input before the stages run, what their callbacks do  *)
(* with it, and a callback that calls its own worker again.  The pipeline  *)
(* is one that the compiler accepts.                                       *)
(***************************************************************************)
EXTENDS ProcessorDeclarations

CONSTANTS
  StageChoices,         \* processors a pipeline is built of
  InputKeyChoices,      \* input metadata key lists
  LengthBound,          \* bound: packets of a batch, by how many stages there are
  MaxCalls,             \* bound: calls of processBatch
  MaxNested             \* bound: calls from inside a callback

ASSUME MetadataFlowAssumption ==
  /\ \A p \in StageChoices :
       \A field \in {"inputs", "outputs", "outputIds", "metrics", "events"} :
         field \in DOMAIN p /\ p[field] \in Seq(ToSet(p[field]))
  /\ \A keys \in InputKeyChoices : keys \in Seq(ToSet(keys))
  /\ \A n \in DOMAIN LengthBound : n \in Nat \ {0} /\ LengthBound[n] \in Nat
  /\ {MaxCalls, MaxNested} \subseteq Nat

VARIABLES
  stages,               \* the pipeline's processor types
  inputKeys,            \* its typed input metadata
  store,                \* WorkerPipeline.metadata
  stage,                \* the stage whose callback runs; 0 between calls
  batchLength,          \* of the batch being processed
  call,                 \* calls so far
  nested,               \* calls refused inside this call
  given                 \* history: what this call was given and produced, last of each

pipeline == <<stages, inputKeys>>

progress == <<stage, batchLength, call, nested>>

flow == <<pipeline, store, progress, given>>

-----------------------------------------------------------------------------
(* MetadataStore.  A slot's values are undefined where it is not valid.    *)

Layout == AllMetadataKeys(stages, inputKeys)

Lengths == 1 .. LengthBound[Len(stages)]

Empty(length) == [length |-> length, valid |-> {}, values |-> << >>]

(* find: the slot of the key's id, if the type of its value is the key's.  *)
Slot(key) == {i \in KeyIndex(Layout, key) : Layout[i].value = key.value}

With(values, at, value) ==
  [x \in {at} \cup DOMAIN values |-> IF x = at THEN value ELSE values[x]]

Put(metadata, key, packet, value) ==
  LET at == <<CHOOSE i \in Slot(key) : TRUE, packet>>
  IN  [metadata EXCEPT !.values = With(@, at, value), !.valid = @ \cup {at}]

Refused(metadata, key, packet) == packet >= metadata.length \/ Slot(key) = {}

(* get: null where the slot holds nothing for the packet.                  *)
Null == [by |-> -1, call |-> 0]

Get(metadata, key, packet) ==
  LET at == <<CHOOSE i \in Slot(key) : TRUE, packet>>
  IN  IF at \in metadata.valid THEN metadata.values[at] ELSE Null

-----------------------------------------------------------------------------
(* A value is who wrote it, 0 for the caller, and in which call.           *)
Value(by) == [by |-> by, call |-> call']

FlowInit ==
  /\ inputKeys \in InputKeyChoices
  /\ \E n \in DOMAIN LengthBound :
       stages \in {[s \in 1 .. n |-> [list[s] EXCEPT !.id = s]] :
                     list \in [1 .. n -> StageChoices]}
  /\ Accepted(stages, inputKeys)
  /\ store = Empty(0)
  /\ stage = 0
  /\ batchLength = 0
  /\ call = 0
  /\ nested = 0
  /\ given = << >>

(* InputMetadata: reset for a length, then put for some keys and packets.  *)
InputMetadata(length, puts, by) ==
  FoldLeft(LAMBDA metadata, put : Put(metadata, put[1], put[2], by), Empty(length), puts)

Puts(length) ==
  {SetToSeq(chosen) : chosen \in SUBSET (ToSet(inputKeys) \X (0 .. length - 1))}

(* Deviation: the input is not copied where the caller has put nothing.    *)
Started_KeepsStore(input) == IF input.valid = {} THEN [store EXCEPT !.length = input.length] ELSE input

(* self.metadata = input_metadata.store                                    *)
Started(input) == input

(* processBatchOwned up to the first callback.  Metadata of another length *)
(* than the batch's is refused before anything is written.                 *)
BeginBatch ==
  /\ stage = 0
  /\ call < MaxCalls
  /\ call' = call + 1
  /\ \E length \in Lengths : \E puts \in Puts(length) :
       /\ store' = Started(InputMetadata(length, puts, Value(0)))
       /\ batchLength' = length
       /\ given' = [at \in {<<puts[i][1].id, puts[i][2]>> : i \in DOMAIN puts} |-> Value(0)]
  /\ stage' = 1
  /\ nested' = 0
  /\ UNCHANGED pipeline

(* context.produceMetadata in a callback: any output key, any packet; an   *)
(* error leaves everything as it is.                                       *)
Produce ==
  /\ stage # 0
  /\ \E key \in ToSet(stages[stage].outputs), packet \in 0 .. batchLength - 1 :
       /\ ~Refused(store, key, packet)
       /\ call' = call
       /\ store' = Put(store, key, packet, Value(stage))
       /\ given' = With(given, <<key.id, packet>>, Value(stage))
  /\ UNCHANGED <<pipeline, stage, batchLength, nested>>

(* The callback calls processBatch of its own worker with another batch:   *)
(* the store is copied before begin finds the invocation active and fails. *)
NestedCall ==
  /\ stage # 0
  /\ nested < MaxNested
  /\ nested' = nested + 1
  /\ call' = call
  /\ \E length \in Lengths : \E puts \in Puts(length) :
       store' = Started(InputMetadata(length, puts, [by |-> 0, call |-> 0]))
  /\ UNCHANGED <<pipeline, stage, batchLength, given>>

(* The callback returns; the next stage runs, or no further one does: all  *)
(* have run, no packet is active, a stage asked to stop, or the call fails.*)
StageReturns ==
  /\ stage # 0
  /\ \E next \in {0} \cup (IF stage < Len(stages) THEN {stage + 1} ELSE {}) :
       stage' = next
  /\ UNCHANGED <<pipeline, store, batchLength, call, nested, given>>

Flow == BeginBatch \/ Produce \/ NestedCall \/ StageReturns

FlowSpec == FlowInit /\ [][Flow]_flow

-----------------------------------------------------------------------------
Undisturbed == stage # 0 /\ nested = 0

(* What the compiler accepts does not fail at run time: every access to a  *)
(* declared key of a packet of the batch finds a slot of its type, however *)
(* keys of one id and several types are spread over stages and input.      *)
DeclaredAccessNeverFails ==
  Undisturbed =>
    \A key \in ToSet(stages[stage].inputs \o stages[stage].outputs),
       packet \in 0 .. batchLength - 1 :
         ~Refused(store, key, packet)

(* A stage reads what its caller, itself or an earlier stage has last put  *)
(* under the key's id in this very call, and null if nobody has, whatever  *)
(* earlier calls left in the worker.  Only a refused call of the same      *)
(* worker from inside a callback can take it away.                         *)
StagesReadThisCall ==
  Undisturbed =>
    \A key \in ToSet(stages[stage].inputs), packet \in 0 .. batchLength - 1 :
      Get(store, key, packet) =
        IF <<key.id, packet>> \in DOMAIN given THEN given[<<key.id, packet>>] ELSE Null

(* Of the stages of an accepted pipeline, none overwrites what another     *)
(* holds exclusively: once a stage has produced an exclusive key, the      *)
(* value stays its own to the end of the call.                             *)
ExclusiveValuesStand ==
  [][ \A s \in DOMAIN stages : \A key \in ToSet(stages[s].outputs) : \A packet \in 0 .. batchLength - 1 :
        /\ key.exclusive
        /\ <<key.id, packet>> \in DOMAIN given
        /\ given[<<key.id, packet>>].by = s
        /\ call' = call
        => given'[<<key.id, packet>>].by = s ]_flow
=============================================================================
