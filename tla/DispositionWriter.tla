-------------------------- MODULE DispositionWriter --------------------------
(***************************************************************************)
(* The terminal-disposition recorder of one batch.  It lives in the owner  *)
(* and is reached through an opaque handle that carries a generation of    *)
(* its own: the recorder is opened at most once per batch, and begin       *)
(* clears it.                                                              *)
(***************************************************************************)
EXTENDS RetentionPool

CONSTANTS
  Terminal,             \* dispositions other than Continue and Retain
  MaxWriterGeneration   \* bound of next_disposition_generation (2^64 - 1)

ASSUME DispositionWriterAssumption ==
  /\ "continue" \notin Terminal
  /\ "retain" \notin Terminal
  /\ MaxWriterGeneration \in Nat

VARIABLES
  disposition,          \* DispositionWriterState of the owner
  nextWriter            \* next_disposition_generation

writerVars == <<disposition, nextWriter>>

(* PacketDisposition: a routing destination, or the lease of a retention. *)
Value == [kind : Terminal \cup {"continue"}] \cup [kind : {"retain"}, lease : Lease]

Continue == [kind |-> "continue"]

NoWriter == [handle |-> 0, batch |-> 0, length |-> 0, active |-> {},
             values |-> [i \in Slot |-> Continue]]

Disposition == [handle : 0 .. MaxWriterGeneration,
                batch : 0 .. MaxGeneration,
                length : 0 .. MaxBatch,
                active : SUBSET Slot,
                values : [Slot -> Value]]

WriterTypeOK ==
  /\ disposition \in Disposition
  /\ nextWriter \in 0 .. MaxWriterGeneration

WriterInit ==
  /\ disposition = NoWriter
  /\ nextWriter = 0

(* init: once per generation, every packet active. *)
InitWriter(g) ==
  /\ BatchLive(g)
  /\ disposition.handle = 0
  /\ nextWriter < MaxWriterGeneration
  /\ nextWriter' = nextWriter + 1
  /\ disposition' = [handle |-> nextWriter + 1,
                     batch |-> liveGeneration,
                     length |-> Len(slots),
                     active |-> 1 .. Len(slots),
                     values |-> [i \in Slot |-> Continue]]

(* checkedState: the writer handle w still reaches the recorder. *)
WriterLive(w) ==
  /\ w # 0
  /\ disposition.handle = w
  /\ liveGeneration # 0
  /\ disposition.batch = liveGeneration

(* Deviation: the selection may hold packets that are no longer active. *)
RecordTerminal_NoStaleCheck(w, S, kind) ==
  /\ WriterLive(w)
  /\ kind \in Terminal
  /\ S # {}
  /\ S \subseteq 1 .. disposition.length
  /\ disposition' = [disposition EXCEPT
       !.values = [i \in Slot |-> IF i \in S THEN [kind |-> kind] ELSE @[i]],
       !.active = @ \ S]
  /\ UNCHANGED nextWriter

(* setSelection, and set for a singleton: all of S or none of it. *)
RecordTerminal(w, S, kind) ==
  /\ WriterLive(w)
  /\ kind \in Terminal
  /\ S # {}
  /\ S \subseteq 1 .. disposition.length
  /\ S \subseteq disposition.active
  /\ disposition' = [disposition EXCEPT
       !.values = [i \in Slot |-> IF i \in S THEN [kind |-> kind] ELSE @[i]],
       !.active = @ \ S]
  /\ UNCHANGED nextWriter

(* retain of slot i of generation g into record k of the pool. *)
RetainPacket(w, g, i, k) ==
  /\ WriterLive(w)
  /\ BatchLive(g)
  /\ Len(slots) = disposition.length
  /\ g = disposition.batch
  /\ i \in 1 .. disposition.length
  /\ disposition.values[i].kind = "continue"
  /\ AcquireBound(g, i, k)
  /\ disposition' = [disposition EXCEPT
       !.values[i] = [kind |-> "retain", lease |-> AcquiredLease(k)],
       !.active = @ \ {i}]
  /\ UNCHANGED nextWriter
=============================================================================
