---------------------------- MODULE RetentionPool ----------------------------
(***************************************************************************)
(* The bounded retention pool.  A record is reused as soon as its lease is *)
(* completed; a lease is told apart from its successors in the same record *)
(* by a pool-wide generation only.  One pool: its identity is left out.    *)
(*                                                                         *)
(* MaxLeaseGeneration is 2^56 - 1 in the code; acquisition then fails with *)
(* GenerationExhausted.                                                    *)
(***************************************************************************)
EXTENDS BatchOwner

CONSTANTS
  PoolCapacity,         \* records.len
  MaxLeaseGeneration

ASSUME RetentionPoolAssumption ==
  /\ PoolCapacity \in Nat
  /\ MaxLeaseGeneration \in Nat

VARIABLES
  records,              \* RetentionRecord by record index
  nextLeaseGeneration

poolVars == <<records, nextLeaseGeneration>>

RecordIndex == 1 .. PoolCapacity

(* token and the packet position stand for the copied slot. 0: never set. *)
RetentionRecord ==
  [generation : 0 .. MaxLeaseGeneration,
   state : {"free", "live", "completed"},
   batchGeneration : 0 .. MaxGeneration,
   packetIndex : 0 .. MaxBatch,
   token : 0 .. NumTokens]

Lease == [index : RecordIndex, generation : 1 .. MaxLeaseGeneration]

PoolTypeOK ==
  /\ records \in [RecordIndex -> RetentionRecord]
  /\ nextLeaseGeneration \in 0 .. MaxLeaseGeneration

PoolInit ==
  /\ records = [k \in RecordIndex |->
                  [generation |-> 0, state |-> "free", batchGeneration |-> 0,
                   packetIndex |-> 0, token |-> 0]]
  /\ nextLeaseGeneration = 0

(* Deviation: only the record's state is looked at. *)
LeaseLive_IgnoresGeneration(l) == records[l.index].state = "live"

(* checkedRecord and liveRecord: the lease still names a live record. *)
LeaseLive(l) ==
  /\ records[l.index].generation = l.generation
  /\ records[l.index].state = "live"

(* Deviation: the first record, whatever it holds. *)
FirstFree_IgnoresState(k) == k = 1

(* The first record that is not live. *)
FirstFree(k) ==
  /\ records[k].state # "live"
  /\ \A j \in 1 .. k - 1 : records[j].state = "live"

(***************************************************************************)
(* acquireBound for slot i of batch generation g into record k.  All the   *)
(* failure checks come first; the token transfer, the record, the slot and *)
(* its raw authority then change together.                                 *)
(***************************************************************************)
AcquireBound(g, i, k) ==
  /\ Resolves(g, i)
  /\ ~ escaped[i]
  /\ FirstFree(k)
  /\ nextLeaseGeneration < MaxLeaseGeneration
  /\ RetainToken(slots[i])
  /\ nextLeaseGeneration' = nextLeaseGeneration + 1
  /\ records' = [records EXCEPT ![k] =
                   [generation |-> nextLeaseGeneration + 1,
                    state |-> "live",
                    batchGeneration |-> liveGeneration,
                    packetIndex |-> i,
                    token |-> slots[i]]]
  /\ SurrenderSlot(i)

(* The handle AcquireBound(g, i, k) returns: the generation of its record. *)
AcquiredLease(k) == [index |-> k, generation |-> nextLeaseGeneration']

(* RetentionLease.complete. *)
CompleteLease(l) ==
  /\ LeaseLive(l)
  /\ CompleteRetention(records[l.index].token)
  /\ records' = [records EXCEPT ![l.index].state = "completed"]
  /\ UNCHANGED nextLeaseGeneration

(* verifyShutdown succeeds. *)
NoLeakedRetention == \A k \in RecordIndex : records[k].state # "live"
=============================================================================
