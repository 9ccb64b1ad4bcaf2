------------------------ MODULE PacketOwnership_proofs ------------------------
(***************************************************************************)
(* Theorems about PacketOwnership, for every capacity, batch size and      *)
(* generation bound.                                                       *)
(***************************************************************************)
EXTENDS PacketOwnership, FiniteSetTheorems, SequenceTheorems, TLAPS

-----------------------------------------------------------------------------
(***************************************************************************)
(* Type correctness, one component at a time.                              *)
(***************************************************************************)

(* A transition keeps the registry well typed, for any finite set of tokens. *)
LEMMA TransferType ==
  ASSUME TrackerTypeOK,
         NEW S, IsFiniteSet(S),
         NEW from, NEW to \in TokenState,
         Transfer(S, from, to)
  PROVE  TrackerTypeOK'
<1>1. Cardinality(S) \in Nat
  BY FS_CardinalityType
<1>. QED
  BY <1>1, NumTokensAssumption DEF TrackerTypeOK, Transfer

LEMMA RegisterType ==
  ASSUME TrackerTypeOK, RegisterInput
  PROVE  TrackerTypeOK'
BY NumTokensAssumption
   DEF TrackerTypeOK, RegisterInput, TokenState, Token

(* The single-token transitions. *)
LEMMA SingleTransferType ==
  ASSUME TrackerTypeOK, NEW t,
         \/ SubmitOutput(t)
         \/ ReturnToInput(t)
         \/ RetainToken(t)
         \/ CompleteOutput(t)
         \/ CompleteRetention(t)
         \/ SubmitAndComplete(t)
  PROVE  TrackerTypeOK'
<1>1. IsFiniteSet({t})
  BY FS_Singleton
<1>2. {"output_owned", "returned_to_input", "retained", "completed"}
        \subseteq TokenState
  BY DEF TokenState, OutstandingState, FinalState
<1>. QED
  BY <1>1, <1>2, TransferType
     DEF SubmitOutput, ReturnToInput, RetainToken, CompleteOutput,
         CompleteRetention, SubmitAndComplete

LEMMA BeginType ==
  ASSUME OwnerTypeOK, NEW s \in Seq(Token), Begin(s)
  PROVE  OwnerTypeOK'
<1>1. NoAuthority \in Authority
  BY BatchOwnerAssumption DEF NoAuthority, Authority
<1>2. Len(s) \in Nat
  OBVIOUS
<1>. QED
  BY <1>1, <1>2, BatchOwnerAssumption
     DEF OwnerTypeOK, Begin, Slot, SlotAccess, Journal

LEMMA InvalidateType ==
  ASSUME OwnerTypeOK, NEW g, Invalidate(g)
  PROVE  OwnerTypeOK'
BY DEF OwnerTypeOK, Invalidate

(* Every owner operation reached through a packet handle. *)
LEMMA PacketAccessType ==
  ASSUME OwnerTypeOK, NEW g, NEW i \in Slot,
         \/ Borrow(g, i)
         \/ Edit(g, i)
         \/ Finalize(g, i)
         \/ MintRawFails(g, i)
  PROVE  OwnerTypeOK'
<1>1. CASE Borrow(g, i)
  BY <1>1 DEF OwnerTypeOK, Borrow, MarkEscaped
<1>2. CASE Edit(g, i)
  BY <1>2 DEF OwnerTypeOK, Edit, JournalStep, Written, Journal
<1>3. CASE Finalize(g, i)
  BY <1>3 DEF OwnerTypeOK, Finalize, JournalStep, Finalized, Journal
<1>4. CASE MintRawFails(g, i)
  BY <1>4, BatchOwnerAssumption DEF MintRawFails, OwnerTypeOK, RawAttempts
<1>. QED
  BY <1>1, <1>2, <1>3, <1>4

LEMMA MintRawType ==
  ASSUME OwnerTypeOK, NEW g, NEW i \in Slot, NEW r \in RawToken, MintRaw(g, i, r)
  PROVE  OwnerTypeOK'
<1>1. PICK attempts \in 1 .. RawAttempts :
        /\ mintCounter + attempts <= MaxMint
        /\ mintCounter' = mintCounter + attempts
  BY DEF MintRaw
<1>2. g \in 0 .. MaxGeneration
  BY BatchOwnerAssumption DEF MintRaw, Resolves, BatchLive, OwnerTypeOK
<1>3. [token |-> {r}, generation |-> g] \in Authority
  BY <1>2 DEF Authority
<1>4. authority' \in [Slot -> Authority]
  BY <1>3 DEF OwnerTypeOK, MintRaw
<1>5. mintCounter' \in 0 .. MaxMint
  BY <1>1, BatchOwnerAssumption DEF OwnerTypeOK, RawAttempts
<1>. QED
  BY <1>4, <1>5 DEF MintRaw, OwnerTypeOK

LEMMA RawWriteType ==
  ASSUME OwnerTypeOK, NEW r, RawWrite(r)
  PROVE  OwnerTypeOK'
BY DEF OwnerTypeOK, RawWrite, JournalStep, Written, Journal

LEMMA SurrenderType ==
  ASSUME OwnerTypeOK, NEW i, SurrenderSlot(i)
  PROVE  OwnerTypeOK'
<1>1. NoAuthority \in Authority
  BY BatchOwnerAssumption DEF NoAuthority, Authority
<1>. QED
  BY <1>1 DEF OwnerTypeOK, SurrenderSlot, SlotAccess

(* A retention leaves registry, owner and pool well typed and hands out a  *)
(* well-formed lease on a token of the registry.                           *)
LEMMA AcquireType ==
  ASSUME TrackerTypeOK, OwnerTypeOK, PoolTypeOK,
         NEW g, NEW i \in Slot, NEW k \in RecordIndex, AcquireBound(g, i, k)
  PROVE  /\ TrackerTypeOK'
         /\ OwnerTypeOK'
         /\ PoolTypeOK'
         /\ AcquiredLease(k) \in Lease
         /\ slots[i] \in Token
<1>1. slots[i] \in Token
  BY DEF OwnerTypeOK, AcquireBound, Resolves
<1>2. TrackerTypeOK'
  BY SingleTransferType DEF AcquireBound
<1>3. OwnerTypeOK'
  BY SurrenderType DEF AcquireBound
<1>4. nextLeaseGeneration' \in 1 .. MaxLeaseGeneration
  BY RetentionPoolAssumption DEF AcquireBound, PoolTypeOK
<1>5. [generation |-> nextLeaseGeneration + 1, state |-> "live",
       batchGeneration |-> liveGeneration, packetIndex |-> i,
       token |-> slots[i]] \in RetentionRecord
  BY <1>1, <1>4, BatchOwnerAssumption, NumTokensAssumption
     DEF AcquireBound, RetentionRecord, OwnerTypeOK, Slot, Token
<1>6. PoolTypeOK'
  BY <1>4, <1>5 DEF AcquireBound, PoolTypeOK
<1>7. AcquiredLease(k) \in Lease
  BY <1>4 DEF AcquiredLease, Lease
<1>. QED
  BY <1>1, <1>2, <1>3, <1>6, <1>7

LEMMA CompleteLeaseType ==
  ASSUME TrackerTypeOK, PoolTypeOK, NEW l \in Lease, CompleteLease(l)
  PROVE  TrackerTypeOK' /\ PoolTypeOK'
<1>1. TrackerTypeOK'
  BY SingleTransferType DEF CompleteLease
<1>2. [records[l.index] EXCEPT !.state = "completed"] \in RetentionRecord
  BY DEF PoolTypeOK, RetentionRecord, Lease
<1>3. records' \in [RecordIndex -> RetentionRecord]
  BY <1>2 DEF CompleteLease, PoolTypeOK, Lease, RetentionRecord
<1>. QED
  BY <1>1, <1>3 DEF CompleteLease, PoolTypeOK

LEMMA InitType == Init => TypeOK
<1>. SUFFICES ASSUME Init PROVE TypeOK
  OBVIOUS
<1>1. TrackerTypeOK
  BY NumTokensAssumption DEF Init, WriterInit, TrackerInit, TrackerTypeOK,
                             TokenState
<1>2. OwnerTypeOK
  BY BatchOwnerAssumption
     DEF Init, OwnerInit, OwnerTypeOK, NoAuthority, Authority, SlotAccess,
         Journal
<1>3. PoolTypeOK
  BY RetentionPoolAssumption, BatchOwnerAssumption, NumTokensAssumption
     DEF Init, PoolInit, PoolTypeOK, RetentionRecord
<1>4. NoWriter \in Disposition
  BY DispositionWriterAssumption, BatchOwnerAssumption
     DEF NoWriter, Disposition, Continue, Value
<1>. QED
  BY <1>1, <1>2, <1>3, <1>4, DispositionWriterAssumption,
     PacketOwnershipAssumption
     DEF Init, WriterInit, TrackerInit, TypeOK, WriterTypeOK

(* The disposition writer stays well typed. *)
LEMMA OpenWriterType ==
  ASSUME TypeOK, NEW g \in 1 .. MaxGeneration, OpenWriter(g)
  PROVE  TypeOK'
<1>1. disposition' \in Disposition
  BY DispositionWriterAssumption, BatchOwnerAssumption
     DEF OpenWriter, InitWriter, TypeOK, WriterTypeOK, OwnerTypeOK,
         Disposition, Continue, Value, Slot
<1>2. nextWriter' \in 0 .. MaxWriterGeneration
  BY DispositionWriterAssumption DEF OpenWriter, InitWriter, TypeOK,
                                     WriterTypeOK
<1>3. disposition'.handle \in 1 .. MaxWriterGeneration
  BY DispositionWriterAssumption DEF OpenWriter, InitWriter, TypeOK,
                                     WriterTypeOK
<1>4. writers' \in Seq([handle : 1 .. MaxWriterGeneration,
                        generation : 1 .. MaxGeneration])
  BY <1>3 DEF OpenWriter, InitWriter, TypeOK, WriterTypeOK
<1>. QED
  BY <1>1, <1>2, <1>4
     DEF OpenWriter, InitWriter, TypeOK, WriterTypeOK, TrackerTypeOK,
         OwnerTypeOK, PoolTypeOK, trackerVars, ownerVars, poolVars

LEMMA SetSelectionType ==
  ASSUME TypeOK, NEW w, NEW S \in SUBSET Slot, NEW kind \in Terminal,
         SetSelection(w, S, kind)
  PROVE  TypeOK'
<1>1. [kind |-> kind] \in Value
  BY DEF Value
<1>2. disposition' \in Disposition
  BY <1>1 DEF SetSelection, RecordTerminal, TypeOK, WriterTypeOK, Disposition
<1>. QED
  BY <1>2
     DEF SetSelection, RecordTerminal, TypeOK, WriterTypeOK, TrackerTypeOK,
         OwnerTypeOK, PoolTypeOK, trackerVars, ownerVars, poolVars, issuedVars

LEMMA RetainType ==
  ASSUME TypeOK, NEW w, NEW g, NEW i \in Slot, NEW k \in RecordIndex,
         Retain(w, g, i, k)
  PROVE  TypeOK'
<1>1. /\ TrackerTypeOK'
      /\ OwnerTypeOK'
      /\ PoolTypeOK'
      /\ AcquiredLease(k) \in Lease
      /\ slots[i] \in Token
  BY AcquireType DEF Retain, RetainPacket, TypeOK, WriterTypeOK
<1>2. [kind |-> "retain", lease |-> AcquiredLease(k)] \in Value
  BY <1>1 DEF Value
<1>3. disposition' \in Disposition
  BY <1>2 DEF Retain, RetainPacket, TypeOK, WriterTypeOK, Disposition
<1>4. leases' \in Seq([lease : Lease, token : Token])
  BY <1>1 DEF Retain, RetainPacket, TypeOK, WriterTypeOK
<1>5. nextReceive' \in 0 .. registered'
  BY DEF Retain, RetainPacket, TypeOK, WriterTypeOK, AcquireBound,
         RetainToken, Transfer
<1>. QED
  BY <1>1, <1>3, <1>4, <1>5 DEF Retain, RetainPacket, TypeOK, WriterTypeOK

LEMMA SubmitType ==
  ASSUME TypeOK, NEW g, NEW i \in Slot, Submit(g, i) \/ SubmitFails(g, i)
  PROVE  TypeOK'
<1>0. Resolves(g, i)
  BY DEF Submit, SubmitFails, ValidForOutput
<1>1. slots[i] \in Token
  BY <1>0 DEF TypeOK, WriterTypeOK, OwnerTypeOK, Resolves
<1>2. OwnerTypeOK'
  BY DEF TypeOK, WriterTypeOK, OwnerTypeOK, Submit, SubmitFails, MarkEscaped
<1>3. PoolTypeOK'
  BY DEF TypeOK, WriterTypeOK, PoolTypeOK, Submit, SubmitFails, poolVars
<1>4. CASE Submit(g, i)
  <2>1. TrackerTypeOK'
    BY <1>4, SingleTransferType DEF TypeOK, WriterTypeOK, Submit
  <2>2. PICK pending \in BOOLEAN : Observe(slots[i], pending)
    BY <1>4 DEF Submit
  <2>3. [token |-> slots[i], pending |-> pending] \in Observation
    BY <1>1 DEF Observation
  <2>4. /\ observations' \in Seq(Observation)
        /\ Len(observations') = Len(observations) + 1
    BY <2>2, <2>3 DEF TypeOK, WriterTypeOK, Observe
  <2>5. Len(observations') <= OutputCapacity
    BY <1>4, <2>4, PacketOwnershipAssumption DEF TypeOK, WriterTypeOK, Submit
  <2>6. registered' = registered
    BY <1>4 DEF Submit, SubmitOutput, SubmitAndComplete, Transfer
  <2>. QED
    BY <1>2, <1>3, <1>4, <2>1, <2>4, <2>5, <2>6
       DEF TypeOK, WriterTypeOK, Submit, writerVars, issuedVars
<1>5. CASE SubmitFails(g, i)
  BY <1>2, <1>3, <1>5
     DEF TypeOK, WriterTypeOK, SubmitFails, TrackerTypeOK, trackerVars,
         writerVars, issuedVars
<1>. QED
  BY <1>4, <1>5

LEMMA OutputDoneType ==
  ASSUME TypeOK, NEW n \in 1 .. Len(observations), OutputDone(n)
  PROVE  TypeOK'
<1>1. TrackerTypeOK'
  BY SingleTransferType DEF TypeOK, WriterTypeOK, OutputDone
<1>2. [observations[n] EXCEPT !.pending = FALSE] \in Observation
  <2>1. observations[n] \in Observation
    BY DEF TypeOK, WriterTypeOK
  <2>. QED
    BY <2>1, Zenon DEF Observation
<1>3. observations' = [observations EXCEPT
                         ![n] = [observations[n] EXCEPT !.pending = FALSE]]
  BY DEF OutputDone
<1>4. observations' \in Seq(Observation) /\ Len(observations') = Len(observations)
  BY <1>2, <1>3, ExceptSeq DEF TypeOK, WriterTypeOK
<1>. QED
  BY <1>1, <1>4
     DEF OutputDone, TypeOK, WriterTypeOK, OwnerTypeOK, PoolTypeOK,
         CompleteOutput, Transfer, ownerVars, poolVars, writerVars, issuedVars

(* The slots a batch may begin with are a sequence of registered tokens. *)
LEMMA BatchSlotsType ==
  ASSUME TypeOK, NEW s \in BatchSlots
  PROVE  s \in Seq(Token)
<1>1. PICK n \in 0 .. MaxBatch : s \in [1 .. n -> 1 .. nextReceive]
  BY DEF BatchSlots
<1>2. 1 .. nextReceive \subseteq Token
  BY NumTokensAssumption DEF TypeOK, WriterTypeOK, TrackerTypeOK, Token
<1>3. n \in Nat
  BY BatchOwnerAssumption
<1>. QED
  BY <1>1, <1>2, <1>3, SeqDef

LEMMA BeginBatchType ==
  ASSUME TypeOK, NEW s \in BatchSlots, BeginBatch(s)
  PROVE  TypeOK'
<1>1. s \in Seq(Token)
  BY BatchSlotsType
<1>2. OwnerTypeOK'
  BY <1>1, BeginType DEF BeginBatch, TypeOK, WriterTypeOK
<1>3. NoWriter \in Disposition
  BY DispositionWriterAssumption, BatchOwnerAssumption
     DEF NoWriter, Disposition, Continue, Value
<1>4. liveGeneration' \in 1 .. MaxGeneration
  BY BatchOwnerAssumption DEF BeginBatch, Begin, TypeOK, WriterTypeOK,
                              OwnerTypeOK
<1>5. batches' \in Seq([generation : 1 .. MaxGeneration, slots : Seq(Token)])
  BY <1>1, <1>4 DEF BeginBatch, TypeOK, WriterTypeOK
<1>. QED
  BY <1>2, <1>3, <1>5
     DEF BeginBatch, TypeOK, WriterTypeOK, TrackerTypeOK, PoolTypeOK,
         trackerVars, poolVars

LEMMA IssuedTypes ==
  ASSUME TypeOK
  PROVE  /\ IssuedGeneration \subseteq 1 .. MaxGeneration
         /\ IssuedWriter \subseteq 1 .. MaxWriterGeneration
         /\ IssuedLease \subseteq Lease
<1>1. ASSUME NEW n \in 1 .. Len(batches)
      PROVE  batches[n].generation \in 1 .. MaxGeneration
  <2>1. batches[n] \in [generation : 1 .. MaxGeneration, slots : Seq(Token)]
    BY ElementOfSeq DEF TypeOK, WriterTypeOK
  <2>. QED
    BY <2>1
<1>2. ASSUME NEW n \in 1 .. Len(writers)
      PROVE  writers[n].handle \in 1 .. MaxWriterGeneration
  <2>1. writers[n] \in [handle : 1 .. MaxWriterGeneration,
                        generation : 1 .. MaxGeneration]
    BY ElementOfSeq DEF TypeOK, WriterTypeOK
  <2>. QED
    BY <2>1
<1>3. ASSUME NEW n \in 1 .. Len(leases)
      PROVE  leases[n].lease \in Lease
  <2>1. leases[n] \in [lease : Lease, token : Token]
    BY ElementOfSeq DEF TypeOK, WriterTypeOK
  <2>. QED
    BY <2>1
<1>. QED
  BY <1>1, <1>2, <1>3 DEF IssuedGeneration, IssuedWriter, IssuedLease

LEMMA OpenRawEditorType ==
  ASSUME TypeOK, NEW g \in IssuedGeneration, NEW i \in Slot, NEW r \in RawToken,
         OpenRawEditor(g, i, r)
  PROVE  TypeOK'
<1>1. OwnerTypeOK'
  BY MintRawType DEF OpenRawEditor, TypeOK, WriterTypeOK
<1>2. g \in 1 .. MaxGeneration /\ slots[i] \in Token
  BY IssuedTypes
     DEF OpenRawEditor, MintRaw, Resolves, TypeOK, WriterTypeOK, OwnerTypeOK
<1>3. rawHandles' \in Seq([value : RawToken, generation : 1 .. MaxGeneration,
                           slot : Slot, token : Token])
  BY <1>2 DEF OpenRawEditor, TypeOK, WriterTypeOK
<1>. QED
  BY <1>1, <1>3
     DEF OpenRawEditor, TypeOK, WriterTypeOK, TrackerTypeOK, PoolTypeOK,
         trackerVars, poolVars, writerVars

LEMMA NextType == TypeOK /\ [Next]_vars => TypeOK'
<1>. SUFFICES ASSUME TypeOK, [Next]_vars PROVE TypeOK'
  OBVIOUS
<1>1. CASE Enqueue
  BY <1>1, RegisterType
     DEF Enqueue, TypeOK, WriterTypeOK, OwnerTypeOK, PoolTypeOK,
         RegisterInput, TrackerTypeOK, ownerVars, poolVars, writerVars,
         issuedVars
<1>2. ASSUME NEW count \in 1 .. MaxBatch, Receive(count)
      PROVE  TypeOK'
  <2>1. IsFiniteSet(nextReceive + 1 .. nextReceive + count)
    BY FS_Interval, BatchOwnerAssumption DEF TypeOK, WriterTypeOK,
                                             TrackerTypeOK
  <2>2. TrackerTypeOK'
    BY <1>2, <2>1, TransferType
       DEF Receive, ReceiveTokens, TypeOK, WriterTypeOK, TokenState,
           OutstandingState
  <2>3. nextReceive' \in 0 .. registered'
    BY <1>2, BatchOwnerAssumption
       DEF Receive, ReceiveTokens, Transfer, TypeOK, WriterTypeOK,
           TrackerTypeOK
  <2>. QED
    BY <1>2, <2>2, <2>3
       DEF Receive, TypeOK, WriterTypeOK, OwnerTypeOK, PoolTypeOK, ownerVars,
           poolVars, writerVars, issuedVars
<1>3. ASSUME NEW s \in BatchSlots, BeginBatch(s)
      PROVE  TypeOK'
  BY <1>3, BeginBatchType
<1>4. ASSUME NEW g \in IssuedGeneration, EndBatch(g)
      PROVE  TypeOK'
  BY <1>4, InvalidateType
     DEF EndBatch, TypeOK, WriterTypeOK, TrackerTypeOK, PoolTypeOK,
         trackerVars, poolVars, writerVars, issuedVars
<1>5. ASSUME NEW g \in IssuedGeneration, OpenWriter(g)
      PROVE  TypeOK'
  BY <1>5, OpenWriterType, IssuedTypes
<1>6. ASSUME NEW g \in IssuedGeneration, NEW i \in Slot, PacketAccess(g, i)
      PROVE  TypeOK'
  BY <1>6, PacketAccessType
     DEF PacketAccess, TypeOK, WriterTypeOK, TrackerTypeOK, PoolTypeOK,
         trackerVars, poolVars, writerVars, issuedVars
<1>7. ASSUME NEW g \in IssuedGeneration, NEW i \in Slot,
             Submit(g, i) \/ SubmitFails(g, i)
      PROVE  TypeOK'
  BY <1>7, SubmitType
<1>8. ASSUME NEW r, RawAccess(r)
      PROVE  TypeOK'
  BY <1>8, RawWriteType
     DEF RawAccess, TypeOK, WriterTypeOK, TrackerTypeOK, PoolTypeOK,
         trackerVars, poolVars, writerVars, issuedVars
<1>9. ASSUME NEW w \in IssuedWriter, NEW S \in SUBSET Slot,
             NEW kind \in Terminal, SetSelection(w, S, kind)
      PROVE  TypeOK'
  BY <1>9, SetSelectionType
<1>10. ASSUME NEW w \in IssuedWriter, NEW g \in IssuedGeneration,
              NEW i \in Slot, NEW k \in RecordIndex, Retain(w, g, i, k)
       PROVE  TypeOK'
  BY <1>10, RetainType
<1>11. ASSUME NEW l \in IssuedLease, FinishLease(l)
       PROVE  TypeOK'
  <2>1. TrackerTypeOK' /\ PoolTypeOK'
    BY <1>11, CompleteLeaseType, IssuedTypes DEF FinishLease, TypeOK,
                                                 WriterTypeOK
  <2>. QED
    BY <1>11, <2>1
       DEF FinishLease, CompleteLease, CompleteRetention, Transfer, TypeOK,
           WriterTypeOK, OwnerTypeOK, ownerVars, writerVars, issuedVars
<1>12. ASSUME NEW t \in 1 .. nextReceive, GiveBack(t)
       PROVE  TypeOK'
  <2>1. TrackerTypeOK'
    BY <1>12, SingleTransferType DEF GiveBack, TypeOK, WriterTypeOK
  <2>. QED
    BY <1>12, <2>1
       DEF GiveBack, ReturnToInput, Transfer, TypeOK, WriterTypeOK,
           OwnerTypeOK, PoolTypeOK, ownerVars, poolVars, writerVars,
           issuedVars
<1>13. ASSUME NEW n \in 1 .. Len(observations), OutputDone(n)
       PROVE  TypeOK'
  BY <1>13, OutputDoneType
<1>15. ASSUME NEW g \in IssuedGeneration, NEW i \in Slot, NEW r \in RawToken,
              OpenRawEditor(g, i, r)
       PROVE  TypeOK'
  BY <1>15, OpenRawEditorType
<1>14. CASE UNCHANGED vars
  BY <1>14
     DEF vars, TypeOK, WriterTypeOK, TrackerTypeOK, OwnerTypeOK, PoolTypeOK,
         trackerVars, ownerVars, poolVars, writerVars, issuedVars
<1>. QED
  BY <1>1, <1>2, <1>3, <1>4, <1>5, <1>6, <1>7, <1>8, <1>9, <1>10, <1>11,
     <1>12, <1>13, <1>14, <1>15 DEF Next

(* Every variable of the composition keeps its type: counters and          *)
(* generations never pass the bounds their guards model, and every handle  *)
(* held by a caller is well formed.                                        *)
THEOREM TypeCorrect == Spec => []TypeOK
BY InitType, NextType, PTL DEF Spec

-----------------------------------------------------------------------------
(***************************************************************************)
(* Who holds a token.  The registry's state, the lease records and the     *)
(* output's observations are written by different operations; the          *)
(* invariant says they never disagree.                                     *)
(***************************************************************************)

OwnershipInv ==
  /\ TypeOK
  /\ TokenCursors
  /\ CompletionAccounting
  /\ LeaseHoldsToken
  /\ OutputHoldsToken

(* The tokens whose state under f is one of Q. *)
In(f, Q) == {t \in Token : f[t] \in Q}

(* Counting the tokens in a set of states across one transition. *)
LEMMA TransferCount ==
  ASSUME TrackerTypeOK, NEW S \in SUBSET Token, NEW from, NEW to,
         Transfer(S, from, to), NEW P
  PROVE  /\ (from \in P <=> to \in P) => In(tokenState', P) = In(tokenState, P)
         /\ from \notin P /\ to \in P =>
              Cardinality(In(tokenState', P)) =
                Cardinality(In(tokenState, P)) + Cardinality(S)
<1> DEFINE before == In(tokenState, P)
           after == In(tokenState', P)
<1>1. IsFiniteSet(Token)
  BY FS_Interval, NumTokensAssumption DEF Token
<1>2. IsFiniteSet(S) /\ IsFiniteSet(before)
  BY <1>1, FS_Subset DEF In
<1>3. /\ \A t \in S : tokenState[t] = from /\ tokenState'[t] = to
      /\ \A t \in Token \ S : tokenState'[t] = tokenState[t]
  BY DEF Transfer
<1>4. (from \in P <=> to \in P) => after = before
  BY <1>3 DEF In
<1>5. ASSUME from \notin P, to \in P
      PROVE  Cardinality(after) = Cardinality(before) + Cardinality(S)
  <2>1. after = before \cup S /\ before \cap S = {}
    BY <1>3, <1>5 DEF In
  <2>2. Cardinality(before \cup S) =
          Cardinality(before) + Cardinality(S) - Cardinality(before \cap S)
    BY <1>2, FS_Union
  <2>3. Cardinality(before) \in Nat /\ Cardinality(S) \in Nat
    BY <1>2, FS_CardinalityType
  <2>4. Cardinality(before \cap S) = 0
    BY <2>1, FS_EmptySet
  <2>. HIDE DEF before, after
  <2>. QED
    BY <2>1, <2>2, <2>3, <2>4
<1>. QED
  BY <1>4, <1>5

(* A transition keeps the counters equal to the populations they count. *)
LEMMA TransferAccounting ==
  ASSUME TrackerTypeOK, CompletionAccounting, NEW S \in SUBSET Token,
         NEW from, NEW to, Transfer(S, from, to),
         \/ from = "input_owned" /\ to = "worker_owned"
         \/ from = "worker_owned" /\ to \in {"output_owned", "retained"}
         \/ from \in OutstandingState /\ to \in FinalState
  PROVE  CompletionAccounting'
<1> DEFINE P == OutstandingState \cup FinalState
<1>1. /\ (from \in P <=> to \in P) => In(tokenState', P) = In(tokenState, P)
      /\ from \notin P /\ to \in P =>
           Cardinality(In(tokenState', P)) =
             Cardinality(In(tokenState, P)) + Cardinality(S)
  <2>. HIDE DEF P
  <2>. QED  BY TransferCount
<1>2. /\ (from \in FinalState <=> to \in FinalState) =>
           In(tokenState', FinalState) = In(tokenState, FinalState)
      /\ from \notin FinalState /\ to \in FinalState =>
           Cardinality(In(tokenState', FinalState)) =
             Cardinality(In(tokenState, FinalState)) + Cardinality(S)
  BY TransferCount
<1>3. /\ received' = IF to = "worker_owned" THEN received + Cardinality(S)
                                            ELSE received
      /\ finalCompletions' = IF to \in FinalState
                               THEN finalCompletions + Cardinality(S)
                               ELSE finalCompletions
  BY DEF Transfer
<1>4. /\ received = Cardinality(In(tokenState, P))
      /\ finalCompletions = Cardinality(In(tokenState, FinalState))
  BY DEF CompletionAccounting, In
<1>5. /\ to = "worker_owned" => from \notin P /\ to \in P
      /\ to # "worker_owned" => (from \in P <=> to \in P)
      /\ to \in FinalState => from \notin FinalState
      /\ to \notin FinalState => (from \in FinalState <=> to \in FinalState)
  BY DEF OutstandingState, FinalState
<1>6. received' = Cardinality(In(tokenState', P))
  <2>. HIDE DEF P
  <2>. QED  BY <1>1, <1>3, <1>4, <1>5
<1>7. finalCompletions' = Cardinality(In(tokenState', FinalState))
  BY <1>2, <1>3, <1>4, <1>5
<1>. QED
  BY <1>6, <1>7 DEF CompletionAccounting, In

(* Registration adds a token to neither population. *)
LEMMA RegisterAccounting ==
  ASSUME TypeOK, TokenCursors, CompletionAccounting, RegisterInput
  PROVE  CompletionAccounting'
<1>1. registered + 1 \in Token
  BY NumTokensAssumption DEF RegisterInput, TypeOK, WriterTypeOK,
                             TrackerTypeOK, Token
<1>2. tokenState[registered + 1] = "unregistered"
  BY <1>1 DEF TokenCursors, TypeOK, WriterTypeOK, TrackerTypeOK
<1>3. \A t \in Token : tokenState'[t] =
        IF t = registered + 1 THEN "input_owned" ELSE tokenState[t]
  BY DEF RegisterInput, TypeOK, WriterTypeOK, TrackerTypeOK
<1>4. \A P : "unregistered" \notin P /\ "input_owned" \notin P =>
        {t \in Token : tokenState'[t] \in P} = {t \in Token : tokenState[t] \in P}
  BY <1>2, <1>3
<1>5. /\ {t \in Token : tokenState'[t] \in FinalState} =
           {t \in Token : tokenState[t] \in FinalState}
      /\ {t \in Token : tokenState'[t] \in OutstandingState \cup FinalState} =
           {t \in Token : tokenState[t] \in OutstandingState \cup FinalState}
  BY <1>4 DEF FinalState, OutstandingState
<1>. QED
  BY <1>5 DEF CompletionAccounting, RegisterInput

(* A transition changes nobody's membership in a state it does not touch. *)
LEMMA TransferKeeps ==
  ASSUME TrackerTypeOK, NEW S \in SUBSET Token, NEW from, NEW to,
         Transfer(S, from, to), NEW q, q # from, q # to
  PROVE  \A t \in Token : tokenState'[t] = q <=> tokenState[t] = q
BY DEF Transfer

(* Every transition of one token out of worker, output or lease keeps the  *)
(* cursors and the accounting, and moves the token and no other.           *)
LEMMA SingleTransfer ==
  ASSUME TypeOK, TokenCursors, CompletionAccounting, nextReceive' = nextReceive,
         NEW t \in Token, NEW from, NEW to, Transfer({t}, from, to),
         \/ from = "worker_owned" /\ to \in {"output_owned", "retained"}
         \/ from \in OutstandingState /\ to \in FinalState
  PROVE  /\ TokenCursors'
         /\ CompletionAccounting'
         /\ tokenState[t] = from
         /\ tokenState'[t] = to
         /\ \A u \in Token \ {t} : tokenState'[u] = tokenState[u]
<1>1. TrackerTypeOK
  BY DEF TypeOK, WriterTypeOK
<1>2. CompletionAccounting'
  <2>. {t} \in SUBSET Token
    OBVIOUS
  <2>. QED
    BY <1>1, TransferAccounting
<1>3. /\ tokenState[t] = from
      /\ tokenState'[t] = to
      /\ \A u \in Token \ {t} : tokenState'[u] = tokenState[u]
      /\ registered' = registered
  BY DEF Transfer
<1>4. /\ from \notin {"unregistered", "input_owned"}
      /\ to \notin {"unregistered", "input_owned"}
  BY DEF OutstandingState, FinalState
<1>5. TokenCursors'
  BY <1>3, <1>4 DEF TokenCursors
<1>. QED
  BY <1>2, <1>3, <1>5

(* The lease records pin a token as long as neither changes. *)
LEMMA LeaseFrame ==
  ASSUME LeaseHoldsToken, records' = records,
         \A t \in Token :
           tokenState'[t] = "retained" <=> tokenState[t] = "retained"
  PROVE  LeaseHoldsToken'
<1>1. \A t : LeaseHolders(t)' = LeaseHolders(t)
  BY DEF LeaseHolders
<1>. QED
  BY <1>1 DEF LeaseHoldsToken

LEMMA OutputFrame ==
  ASSUME OutputHoldsToken, observations' = observations,
         \A t \in Token :
           tokenState'[t] = "output_owned" <=> tokenState[t] = "output_owned"
  PROVE  OutputHoldsToken'
<1>1. \A t : OutputHolders(t)' = OutputHolders(t)
  BY DEF OutputHolders
<1>. QED
  BY <1>1 DEF OutputHoldsToken

(* A step that leaves registry, pool, output and input cursor alone. *)
LEMMA OwnershipFrame ==
  ASSUME OwnershipInv, TypeOK', UNCHANGED trackerVars, records' = records,
         nextReceive' = nextReceive, observations' = observations
  PROVE  OwnershipInv'
<1>1. TokenCursors' /\ CompletionAccounting'
  BY DEF OwnershipInv, TokenCursors, CompletionAccounting, trackerVars
<1>2. LeaseHoldsToken' /\ OutputHoldsToken'
  BY LeaseFrame, OutputFrame DEF OwnershipInv, trackerVars
<1>. QED
  BY <1>1, <1>2 DEF OwnershipInv

(* Acquiring a lease: the token had no record, and now has exactly one. *)
LEMMA AcquireHolds ==
  ASSUME OwnershipInv, NEW g, NEW i \in Slot, NEW k \in RecordIndex,
         AcquireBound(g, i, k)
  PROVE  LeaseHoldsToken'
<1>1. PICK t \in Token : t = slots[i]
  BY DEF OwnershipInv, TypeOK, WriterTypeOK, OwnerTypeOK, AcquireBound,
         Resolves
<1>2. /\ tokenState[t] = "worker_owned"
      /\ tokenState'[t] = "retained"
      /\ \A u \in Token \ {t} : tokenState'[u] = tokenState[u]
  BY <1>1 DEF AcquireBound, RetainToken, Transfer
<1>3. /\ records[k].state # "live"
      /\ records'[k].state = "live" /\ records'[k].token = t
      /\ \A j \in RecordIndex \ {k} : records'[j] = records[j]
  BY <1>1 DEF AcquireBound, FirstFree, OwnershipInv, TypeOK, WriterTypeOK,
              PoolTypeOK
<1>4. LeaseHolders(t) = {}
  BY <1>1, <1>2 DEF OwnershipInv, LeaseHoldsToken
<1>5. LeaseHolders(t)' = {k}
  BY <1>3, <1>4 DEF LeaseHolders
<1>6. \A u \in Token \ {t} : LeaseHolders(u)' = LeaseHolders(u)
  BY <1>3 DEF LeaseHolders
<1>. QED
  BY <1>1, <1>2, <1>5, <1>6 DEF OwnershipInv, LeaseHoldsToken

(* Completing a lease: the one record that held the token lets it go. *)
LEMMA CompleteLeaseHolds ==
  ASSUME OwnershipInv, NEW l \in Lease, CompleteLease(l)
  PROVE  LeaseHoldsToken'
<1>0. PICK k \in RecordIndex : k = l.index /\ records[k].state = "live"
  BY DEF Lease, CompleteLease, LeaseLive
<1>1. PICK t :
        k = l.index /\ t = records[k].token /\ records[k].state = "live"
  BY <1>0
<1>2. /\ records'[k].state = "completed"
      /\ \A j \in RecordIndex \ {k} : records'[j] = records[j]
  BY <1>1 DEF CompleteLease, OwnershipInv, TypeOK, WriterTypeOK, PoolTypeOK,
              RetentionRecord
<1>3. /\ tokenState'[t] = "completed" \/ t \notin Token
      /\ \A u \in Token \ {t} : tokenState'[u] = tokenState[u]
  BY <1>1 DEF CompleteLease, CompleteRetention, Transfer
<1>4. \A u \in Token \ {t} : LeaseHolders(u)' = LeaseHolders(u)
  BY <1>1, <1>2 DEF LeaseHolders
<1>5. t \in Token => LeaseHolders(t)' = {}
  <2>1. t \in Token => LeaseHolders(t) = {k}
    BY <1>1 DEF LeaseHolders, OwnershipInv, LeaseHoldsToken
  <2>. QED
    BY <1>1, <1>2, <2>1 DEF LeaseHolders
<1>. QED
  BY <1>3, <1>4, <1>5 DEF OwnershipInv, LeaseHoldsToken

(* Submitting a packet: its token gets an observation, pending exactly if  *)
(* the output keeps the token.                                             *)
LEMMA SubmitHolds ==
  ASSUME OwnershipInv, NEW g, NEW i \in Slot, Submit(g, i)
  PROVE  OwnershipInv'
<1>1. PICK t \in Token : t = slots[i]
  BY DEF Submit, ValidForOutput, Resolves, OwnershipInv, TypeOK, WriterTypeOK,
         OwnerTypeOK
<1>2. PICK pending \in BOOLEAN, to \in {"output_owned", "completed"} :
        /\ Transfer({t}, "worker_owned", to)
        /\ Observe(t, pending)
        /\ pending <=> to = "output_owned"
  BY <1>1 DEF Submit, SubmitOutput, SubmitAndComplete
<1>3. TypeOK'
  BY SubmitType DEF OwnershipInv
<1>4. /\ TokenCursors' /\ CompletionAccounting'
      /\ tokenState[t] = "worker_owned"
      /\ tokenState'[t] = to
      /\ \A u \in Token \ {t} : tokenState'[u] = tokenState[u]
  <2>1. nextReceive' = nextReceive
    BY DEF Submit
  <2>. QED
    BY <1>2, <2>1, SingleTransfer
       DEF OwnershipInv, OutstandingState, FinalState
<1>5. LeaseHoldsToken'
  <2>1. records' = records
    BY DEF Submit, poolVars
  <2>. QED
    BY <1>4, <2>1, LeaseFrame DEF OwnershipInv
<1>6. OutputHoldsToken'
  <2>1. /\ Len(observations') = Len(observations) + 1
        /\ observations'[Len(observations) + 1] =
             [token |-> t, pending |-> pending]
        /\ \A n \in 1 .. Len(observations) : observations'[n] = observations[n]
        /\ Len(observations) \in Nat
    BY <1>2 DEF Observe, OwnershipInv, TypeOK, WriterTypeOK
  <2>2. OutputHolders(t) = {}
    BY <1>4 DEF OwnershipInv, OutputHoldsToken
  <2>3. OutputHolders(t)' = IF pending THEN {Len(observations) + 1} ELSE {}
    BY <2>1, <2>2 DEF OutputHolders
  <2>4. \A u \in Token \ {t} : OutputHolders(u)' = OutputHolders(u)
    BY <2>1 DEF OutputHolders
  <2>. QED
    BY <1>2, <1>4, <2>3, <2>4 DEF OwnershipInv, OutputHoldsToken
<1>. QED
  BY <1>3, <1>4, <1>5, <1>6 DEF OwnershipInv

(* A delayed completion: the one observation that held the token lets go. *)
LEMMA OutputDoneHolds ==
  ASSUME OwnershipInv, NEW n \in 1 .. Len(observations), OutputDone(n)
  PROVE  OwnershipInv'
<1>1. PICK t \in Token : t = observations[n].token
  <2>1. observations[n] \in Observation
    BY ElementOfSeq DEF OwnershipInv, TypeOK, WriterTypeOK
  <2>. QED
    BY <2>1 DEF Observation
<1>2. TypeOK'
  BY OutputDoneType DEF OwnershipInv
<1>3. /\ TokenCursors' /\ CompletionAccounting'
      /\ tokenState[t] = "output_owned"
      /\ tokenState'[t] = "completed"
      /\ \A u \in Token \ {t} : tokenState'[u] = tokenState[u]
  <2>1. nextReceive' = nextReceive /\ Transfer({t}, "output_owned", "completed")
    BY <1>1 DEF OutputDone, CompleteOutput
  <2>. QED
    BY <2>1, SingleTransfer DEF OwnershipInv, OutstandingState, FinalState
<1>4. LeaseHoldsToken'
  <2>1. records' = records
    BY DEF OutputDone, poolVars
  <2>. QED
    BY <1>3, <2>1, LeaseFrame DEF OwnershipInv
<1>5. OutputHoldsToken'
  <2>1. observations[n] \in Observation /\ observations[n].pending
    BY ElementOfSeq DEF OwnershipInv, TypeOK, WriterTypeOK, OutputDone
  <2>2. /\ Len(observations') = Len(observations)
        /\ observations'[n] = [observations[n] EXCEPT !.pending = FALSE]
        /\ \A m \in 1 .. Len(observations) :
             m # n => observations'[m] = observations[m]
    <3>1. [observations[n] EXCEPT !.pending = FALSE] \in Observation
      BY <2>1, Zenon DEF Observation
    <3>2. observations' = [observations EXCEPT
                             ![n] = [observations[n] EXCEPT !.pending = FALSE]]
      BY DEF OutputDone
    <3>3. observations \in Seq(Observation)
      BY DEF OwnershipInv, TypeOK, WriterTypeOK
    <3>4. PICK o \in Observation : o = [observations[n] EXCEPT !.pending = FALSE]
      BY <3>1
    <3>5. observations' = [observations EXCEPT ![n] = o]
      BY <3>2, <3>4
    <3>6. /\ Len(observations') = Len(observations)
          /\ \A m \in 1 .. Len(observations) :
               observations'[m] = IF m = n THEN o ELSE observations[m]
      BY <3>3, <3>5, ExceptSeq
    <3>7. observations'[n] = o
      BY <3>6
    <3>8. observations'[n] = [observations[n] EXCEPT !.pending = FALSE]
      BY <3>4, <3>7, Zenon
    <3>. QED
      BY <3>6, <3>8, Zenon
  <2>3. ~ observations'[n].pending
    BY <2>1, <2>2, Zenon DEF Observation
  <2>4. observations'[n].token = t
    BY <1>1, <2>1, <2>2, Zenon DEF Observation
  <2>5. OutputHolders(t) = {n}
    BY <1>1, <2>1 DEF OutputHolders, OwnershipInv, OutputHoldsToken
  <2>6. OutputHolders(t)' = {}
    BY <2>2, <2>3, <2>5 DEF OutputHolders
  <2>7. \A u \in Token \ {t} : OutputHolders(u)' = OutputHolders(u)
    BY <1>1, <2>2, <2>4 DEF OutputHolders
  <2>. QED
    BY <1>3, <2>6, <2>7 DEF OwnershipInv, OutputHoldsToken
<1>. QED
  BY <1>2, <1>3, <1>4, <1>5 DEF OwnershipInv

(* A burst moves exactly the tokens the cursor passes over. *)
LEMMA ReceiveHolds ==
  ASSUME OwnershipInv, NEW count \in 1 .. MaxBatch, Receive(count)
  PROVE  TokenCursors' /\ CompletionAccounting' /\ LeaseHoldsToken'
         /\ OutputHoldsToken'
<1> DEFINE S == nextReceive + 1 .. nextReceive + count
<1>0. /\ count \in Nat /\ nextReceive \in Nat /\ registered \in 0 .. NumTokens
      /\ nextReceive + count <= registered
      /\ nextReceive' = nextReceive + count
      /\ registered' = registered
      /\ records' = records /\ observations' = observations
      /\ TrackerTypeOK
  BY BatchOwnerAssumption
     DEF Receive, ReceiveTokens, Transfer, OwnershipInv, TypeOK, WriterTypeOK,
         TrackerTypeOK, poolVars
<1>1. S \in SUBSET Token
  BY <1>0, NumTokensAssumption DEF Token
<1>2. Transfer(S, "input_owned", "worker_owned")
  BY DEF Receive, ReceiveTokens
<1>. HIDE DEF S
<1>3. CompletionAccounting'
  BY <1>0, <1>1, <1>2, TransferAccounting DEF OwnershipInv
<1>4. LeaseHoldsToken' /\ OutputHoldsToken'
  BY <1>0, <1>1, <1>2, TransferKeeps, LeaseFrame, OutputFrame DEF OwnershipInv
<1>5. \A t \in Token : tokenState'[t] =
        IF t \in S THEN "worker_owned" ELSE tokenState[t]
  BY <1>2 DEF Transfer
<1>6. TokenCursors'
  BY <1>0, <1>5, NumTokensAssumption DEF S, TokenCursors, OwnershipInv, Token
<1>. QED
  BY <1>3, <1>4, <1>6

(* A newly queued token is the input's and nobody else's. *)
LEMMA EnqueueHolds ==
  ASSUME OwnershipInv, Enqueue
  PROVE  TokenCursors' /\ CompletionAccounting' /\ LeaseHoldsToken'
         /\ OutputHoldsToken'
<1>0. /\ registered' = registered + 1 /\ registered \in 0 .. NumTokens
      /\ registered < NumTokens
      /\ nextReceive' = nextReceive /\ nextReceive \in 0 .. registered
      /\ records' = records /\ observations' = observations
  BY DEF Enqueue, RegisterInput, OwnershipInv, TypeOK, WriterTypeOK,
         TrackerTypeOK, poolVars
<1>1. registered + 1 \in Token
  BY <1>0, NumTokensAssumption DEF Token
<1>2. \A t \in Token : tokenState'[t] =
        IF t = registered + 1 THEN "input_owned" ELSE tokenState[t]
  BY DEF Enqueue, RegisterInput, OwnershipInv, TypeOK, WriterTypeOK,
         TrackerTypeOK
<1>3. tokenState[registered + 1] = "unregistered"
  BY <1>0, <1>1 DEF OwnershipInv, TokenCursors
<1>4. TokenCursors'
  BY <1>0, <1>1, <1>2, NumTokensAssumption DEF OwnershipInv, TokenCursors,
                                               Token
<1>5. CompletionAccounting'
  BY RegisterAccounting DEF OwnershipInv, Enqueue
<1>6. LeaseHoldsToken' /\ OutputHoldsToken'
  BY <1>0, <1>2, <1>3, LeaseFrame, OutputFrame DEF OwnershipInv
<1>. QED
  BY <1>4, <1>5, <1>6

LEMMA InitOwnership == Init => OwnershipInv
<1>. SUFFICES ASSUME Init PROVE OwnershipInv
  OBVIOUS
<1>1. TypeOK
  BY InitType
<1>2. \A t \in Token : tokenState[t] = "unregistered"
  BY DEF Init, WriterInit, TrackerInit
<1>3. TokenCursors
  BY <1>2, NumTokensAssumption DEF Init, WriterInit, TrackerInit,
                                   TokenCursors, Token
<1>4. CompletionAccounting
  <2>1. /\ {t \in Token : tokenState[t] \in OutstandingState \cup FinalState} = {}
        /\ {t \in Token : tokenState[t] \in FinalState} = {}
    BY <1>2 DEF OutstandingState, FinalState
  <2>. QED
    BY <2>1, FS_EmptySet DEF Init, WriterInit, TrackerInit,
                             CompletionAccounting
<1>5. LeaseHoldsToken /\ OutputHoldsToken
  BY <1>2 DEF Init, PoolInit, LeaseHoldsToken, OutputHoldsToken, LeaseHolders,
              OutputHolders
<1>. QED
  BY <1>1, <1>3, <1>4, <1>5 DEF OwnershipInv

LEMMA NextOwnership == OwnershipInv /\ [Next]_vars => OwnershipInv'
<1>. SUFFICES ASSUME OwnershipInv, [Next]_vars PROVE OwnershipInv'
  OBVIOUS
<1>0. TypeOK'
  BY NextType DEF OwnershipInv
<1>1. CASE Enqueue
  BY <1>0, <1>1, EnqueueHolds DEF OwnershipInv
<1>2. ASSUME NEW count \in 1 .. MaxBatch, Receive(count)
      PROVE  OwnershipInv'
  BY <1>0, <1>2, ReceiveHolds DEF OwnershipInv
<1>3. ASSUME NEW s \in BatchSlots, BeginBatch(s)
      PROVE  OwnershipInv'
  BY <1>0, <1>3, OwnershipFrame DEF BeginBatch, poolVars
<1>4. ASSUME NEW g \in IssuedGeneration, EndBatch(g) \/ OpenWriter(g)
      PROVE  OwnershipInv'
  BY <1>0, <1>4, OwnershipFrame DEF EndBatch, OpenWriter, InitWriter, poolVars
<1>5. ASSUME NEW g \in IssuedGeneration, NEW i \in Slot,
             PacketAccess(g, i) \/ SubmitFails(g, i)
      PROVE  OwnershipInv'
  BY <1>0, <1>5, OwnershipFrame DEF PacketAccess, SubmitFails, poolVars
<1>6. ASSUME NEW g \in IssuedGeneration, NEW i \in Slot, Submit(g, i)
      PROVE  OwnershipInv'
  BY <1>6, SubmitHolds
<1>7. ASSUME NEW r, RawAccess(r)
      PROVE  OwnershipInv'
  BY <1>0, <1>7, OwnershipFrame DEF RawAccess, poolVars
<1>8. ASSUME NEW w \in IssuedWriter, NEW S \in SUBSET Slot,
             NEW kind \in Terminal, SetSelection(w, S, kind)
      PROVE  OwnershipInv'
  BY <1>0, <1>8, OwnershipFrame DEF SetSelection, RecordTerminal, poolVars
<1>9. ASSUME NEW w \in IssuedWriter, NEW g \in IssuedGeneration,
             NEW i \in Slot, NEW k \in RecordIndex, Retain(w, g, i, k)
      PROVE  OwnershipInv'
  <2>1. LeaseHoldsToken'
    BY <1>9, AcquireHolds DEF Retain, RetainPacket
  <2>2. /\ slots[i] \in Token
        /\ Transfer({slots[i]}, "worker_owned", "retained")
        /\ nextReceive' = nextReceive
        /\ observations' = observations
    BY <1>9 DEF Retain, RetainPacket, AcquireBound, RetainToken, Resolves,
                OwnershipInv, TypeOK, WriterTypeOK, OwnerTypeOK
  <2>3. TokenCursors' /\ CompletionAccounting'
    BY <2>2, SingleTransfer DEF OwnershipInv
  <2>4. OutputHoldsToken'
    <3>1. \A t \in Token :
            tokenState'[t] = "output_owned" <=> tokenState[t] = "output_owned"
      BY <2>2 DEF Transfer
    <3>. QED
      BY <2>2, <3>1, OutputFrame DEF OwnershipInv
  <2>. QED
    BY <1>0, <2>1, <2>3, <2>4 DEF OwnershipInv
<1>10. ASSUME NEW l \in IssuedLease, FinishLease(l)
       PROVE  OwnershipInv'
  <2>1. l \in Lease
    BY IssuedTypes DEF OwnershipInv
  <2>2. LeaseHoldsToken'
    BY <1>10, <2>1, CompleteLeaseHolds DEF FinishLease
  <2>3. PICK t : t = records[l.index].token
    OBVIOUS
  <2>4. /\ Transfer({t}, "retained", "completed")
        /\ nextReceive' = nextReceive
        /\ observations' = observations
    BY <1>10, <2>3 DEF FinishLease, CompleteLease, CompleteRetention
  <2>5. t \in Token
    BY <2>4, NumTokensAssumption
       DEF Transfer, Token, OwnershipInv, TypeOK, WriterTypeOK, TrackerTypeOK
  <2>6. TokenCursors' /\ CompletionAccounting'
    BY <2>4, <2>5, SingleTransfer DEF OwnershipInv, OutstandingState,
                                      FinalState
  <2>7. OutputHoldsToken'
    <3>1. \A u \in Token :
            tokenState'[u] = "output_owned" <=> tokenState[u] = "output_owned"
      BY <2>4 DEF Transfer
    <3>. QED
      BY <2>4, <3>1, OutputFrame DEF OwnershipInv
  <2>. QED
    BY <1>0, <2>2, <2>6, <2>7 DEF OwnershipInv
<1>11. ASSUME NEW t \in 1 .. nextReceive, GiveBack(t)
       PROVE  OwnershipInv'
  <2>1. t \in Token
    BY NumTokensAssumption DEF OwnershipInv, TypeOK, WriterTypeOK,
                               TrackerTypeOK, Token
  <2>2. /\ Transfer({t}, "worker_owned", "returned_to_input")
        /\ nextReceive' = nextReceive
        /\ observations' = observations
        /\ records' = records
    BY <1>11 DEF GiveBack, ReturnToInput, poolVars
  <2>3. TokenCursors' /\ CompletionAccounting'
    BY <2>1, <2>2, SingleTransfer DEF OwnershipInv, OutstandingState,
                                      FinalState
  <2>4. \A u \in Token :
          /\ tokenState'[u] = "output_owned" <=> tokenState[u] = "output_owned"
          /\ tokenState'[u] = "retained" <=> tokenState[u] = "retained"
    BY <2>2 DEF Transfer
  <2>5. LeaseHoldsToken' /\ OutputHoldsToken'
    BY <2>2, <2>4, LeaseFrame, OutputFrame DEF OwnershipInv
  <2>. QED
    BY <1>0, <2>3, <2>5 DEF OwnershipInv
<1>12. ASSUME NEW n \in 1 .. Len(observations), OutputDone(n)
       PROVE  OwnershipInv'
  BY <1>12, OutputDoneHolds
<1>13. CASE UNCHANGED vars
  BY <1>0, <1>13, OwnershipFrame DEF vars, poolVars
<1>14. ASSUME NEW g, NEW i, NEW r, OpenRawEditor(g, i, r)
       PROVE  OwnershipInv'
  BY <1>0, <1>14, OwnershipFrame DEF OpenRawEditor, poolVars
<1>. QED
  BY <1>1, <1>2, <1>3, <1>4, <1>5, <1>6, <1>7, <1>8, <1>9, <1>10, <1>11,
     <1>12, <1>13, <1>14 DEF Next

LEMMA OwnershipInvariant == Spec => []OwnershipInv
BY InitOwnership, NextOwnership, PTL DEF Spec

(* The counters shutdown verification compares are exact at every moment,  *)
(* for every number of tokens and every interleaving of their holders.     *)
THEOREM AccountingCorrect == Spec => []CompletionAccounting
BY OwnershipInvariant, PTL DEF OwnershipInv

(* A retained token has exactly one live lease record.                     *)
THEOREM LeasesCorrect == Spec => []LeaseHoldsToken
BY OwnershipInvariant, PTL DEF OwnershipInv

(* An output-owned token has exactly one pending observation.              *)
THEOREM OutputsCorrect == Spec => []OutputHoldsToken
BY OwnershipInvariant, PTL DEF OwnershipInv

(* Together: at every moment each token a worker took is finished, with    *)
(* the worker, or in exactly one lease record or output observation, and   *)
(* the counters of shutdown verification say so.                           *)
THEOREM TokensAccounted == Spec => []TokensAccountedFor
BY AccountingCorrect, LeasesCorrect, OutputsCorrect, PTL
   DEF TokensAccountedFor

-----------------------------------------------------------------------------
(***************************************************************************)
(* Refinement.  Under the invariant the holder read from records,          *)
(* observations and the cursor is a function of the registry's state.      *)
(***************************************************************************)
HolderOfState(state) ==
  IF state = "retained" THEN "lease"
  ELSE IF state = "output_owned" THEN "output"
  ELSE IF state \in {"unregistered", "input_owned"} THEN "input"
  ELSE IF state \in FinalState THEN "done"
  ELSE "worker"

LEMMA HolderIsState ==
  ASSUME OwnershipInv
  PROVE  \A t \in Token : HolderOf(t) = HolderOfState(tokenState[t])
<1>. SUFFICES ASSUME NEW t \in Token
              PROVE  HolderOf(t) = HolderOfState(tokenState[t])
  OBVIOUS
<1>1. /\ LeaseHolders(t) # {} <=> tokenState[t] = "retained"
      /\ OutputHolders(t) # {} <=> tokenState[t] = "output_owned"
  BY DEF OwnershipInv, LeaseHoldsToken, OutputHoldsToken
<1>2. t > nextReceive <=> tokenState[t] \in {"unregistered", "input_owned"}
  <2>1. t \in Nat /\ registered \in Nat /\ nextReceive \in 0 .. registered
    BY NumTokensAssumption DEF Token, OwnershipInv, TypeOK, WriterTypeOK,
                               TrackerTypeOK
  <2>2. /\ tokenState[t] = "unregistered" <=> t > registered
        /\ tokenState[t] = "input_owned" <=> nextReceive < t /\ t <= registered
    BY DEF OwnershipInv, TokenCursors
  <2>. QED
    BY <2>1, <2>2
<1>. QED
  BY <1>1, <1>2 DEF HolderOf, HolderOfState

(* Shutdown verification succeeds exactly when nothing is outstanding. *)
LEMMA CleanMeansNothingHeld ==
  ASSUME OwnershipInv
  PROVE  ReceivedCompleted <=> \A t \in Token : HolderOf(t) \in {"input", "done"}
<1>1. \A t \in Token :
        HolderOf(t) \in {"input", "done"} <=> tokenState[t] \notin OutstandingState
  <2>1. \A t \in Token : tokenState[t] \in TokenState
    BY DEF OwnershipInv, TypeOK, WriterTypeOK, TrackerTypeOK
  <2>. QED
    BY <2>1, HolderIsState
       DEF HolderOfState, TokenState, OutstandingState, FinalState
<1>2. ASSUME ReceivedCompleted, NEW t \in Token
      PROVE  tokenState[t] \notin OutstandingState
  <2>1. CASE t \in 1 .. registered
    BY <1>2, <2>1 DEF ReceivedCompleted
  <2>2. CASE t \notin 1 .. registered
    <3>1. tokenState[t] = "unregistered"
      BY <2>2, NumTokensAssumption
         DEF OwnershipInv, TokenCursors, Token, TypeOK, WriterTypeOK,
             TrackerTypeOK
    <3>. QED
      BY <3>1 DEF OutstandingState
  <2>. QED
    BY <2>1, <2>2
<1>3. ASSUME \A t \in Token : tokenState[t] \notin OutstandingState
      PROVE  ReceivedCompleted
  <2>1. {t \in Token : tokenState[t] \in OutstandingState \cup FinalState}
          = {t \in Token : tokenState[t] \in FinalState}
    BY <1>3
  <2>2. finalCompletions = received
    BY <2>1 DEF OwnershipInv, CompletionAccounting
  <2>3. 1 .. registered \subseteq Token
    BY NumTokensAssumption DEF OwnershipInv, TypeOK, WriterTypeOK,
                               TrackerTypeOK, Token
  <2>. QED
    BY <1>3, <2>2, <2>3 DEF ReceivedCompleted
<1>. QED
  BY <1>1, <1>2, <1>3

LEMMA VerdictIsNothingHeld ==
  ASSUME OwnershipInv
  PROVE  ReceivedCompleted = Lifecycle!NothingHeld
<1>1. Lifecycle!NothingHeld <=> \A t \in Token : HolderOf(t) \in {"input", "done"}
  BY DEF Lifecycle!NothingHeld
<1>2. ReceivedCompleted <=> Lifecycle!NothingHeld
  BY <1>1, CleanMeansNothingHeld
<1>3. ReceivedCompleted \in BOOLEAN /\ Lifecycle!NothingHeld \in BOOLEAN
  BY DEF ReceivedCompleted, Lifecycle!NothingHeld
<1>. QED
  BY <1>2, <1>3

(* What a step must show about the mapped variables: holders follow the    *)
(* registry, and the verdict follows the holders.                          *)
LEMMA MappedStep ==
  ASSUME OwnershipInv, OwnershipInv'
  PROVE  /\ \A t \in Token : HolderOf(t) = HolderOfState(tokenState[t])
         /\ \A t \in Token : HolderOf(t)' = HolderOfState(tokenState'[t])
         /\ ReceivedCompleted = Lifecycle!NothingHeld
         /\ ReceivedCompleted' = Lifecycle!NothingHeld'
<1>1. \A t \in Token : HolderOf(t) = HolderOfState(tokenState[t])
  BY HolderIsState
<1>2. (\A t \in Token : HolderOf(t) = HolderOfState(tokenState[t]))'
  BY HolderIsState, PTL
<1>3. ReceivedCompleted = Lifecycle!NothingHeld
  BY VerdictIsNothingHeld
<1>4. (ReceivedCompleted = Lifecycle!NothingHeld)'
  BY VerdictIsNothingHeld, PTL
<1>. QED
  BY <1>1, <1>2, <1>3, <1>4

LEMMA HolderFrame ==
  ASSUME OwnershipInv, OwnershipInv',
         \A t \in Token :
           HolderOfState(tokenState'[t]) = HolderOfState(tokenState[t])
  PROVE  UNCHANGED Lifecycle!vars
<1>1. \A t \in Token : HolderOf(t)' = HolderOf(t)
  BY MappedStep
<1>2. Lifecycle!NothingHeld' = Lifecycle!NothingHeld
  BY <1>1 DEF Lifecycle!NothingHeld
<1>3. ReceivedCompleted' = ReceivedCompleted
  BY <1>2, MappedStep
<1>. QED
  BY <1>1, <1>3 DEF Lifecycle!vars

(* A transition of the registry is a move of the mapped holders. *)
LEMMA TransferMaps ==
  ASSUME OwnershipInv, OwnershipInv',
         NEW S \in SUBSET Token, NEW from, NEW to, Transfer(S, from, to),
         \/ from = "input_owned" /\ to = "worker_owned"
         \/ /\ \E t \in Token : S = {t}
            /\ \/ from = "worker_owned" /\ to \in {"output_owned", "retained"}
               \/ from \in OutstandingState /\ to \in FinalState
  PROVE  Lifecycle!Next
<1>1. /\ \A t \in Token : HolderOf(t) = HolderOfState(tokenState[t])
      /\ \A t \in Token : HolderOf(t)' = HolderOfState(tokenState'[t])
      /\ ReceivedCompleted' = Lifecycle!NothingHeld'
  BY MappedStep
<1>2. \A t \in Token : HolderOf(t)' =
        IF t \in S THEN HolderOfState(to) ELSE HolderOf(t)
  BY <1>1 DEF Transfer
<1>3. \A t \in S : HolderOf(t) = HolderOfState(from)
  BY <1>1 DEF Transfer
<1>4. CASE from = "input_owned" /\ to = "worker_owned"
  <2>1. Lifecycle!Take(S)
    BY <1>2, <1>3, <1>4 DEF Lifecycle!Take, HolderOfState, FinalState
  <2>. QED
    BY <1>1, <2>1 DEF Lifecycle!Next
<1>5. ASSUME NEW t \in Token, S = {t}, from = "worker_owned",
             to \in {"output_owned", "retained"}
      PROVE  Lifecycle!Next
  <2>1. PICK h \in {"output", "lease"} : h = HolderOfState(to)
    BY <1>5 DEF HolderOfState
  <2>2. Lifecycle!HandOn(t, h)
    BY <1>2, <1>3, <1>5, <2>1
       DEF Lifecycle!HandOn, HolderOfState, FinalState
  <2>. QED
    BY <1>1, <2>2 DEF Lifecycle!Next
<1>6. ASSUME NEW t \in Token, S = {t}, from \in OutstandingState, to \in FinalState
      PROVE  Lifecycle!Next
  <2>1. Lifecycle!Finish(t)
    BY <1>2, <1>3, <1>6
       DEF Lifecycle!Finish, HolderOfState, FinalState, OutstandingState
  <2>. QED
    BY <1>1, <2>1 DEF Lifecycle!Next
<1>. QED
  BY <1>4, <1>5, <1>6

LEMMA NextMaps ==
  OwnershipInv /\ OwnershipInv' /\ [Next]_vars
    => [Lifecycle!Next]_(Lifecycle!vars)
<1>. SUFFICES ASSUME OwnershipInv, OwnershipInv', [Next]_vars
              PROVE  [Lifecycle!Next]_(Lifecycle!vars)
  OBVIOUS
<1>0. TypeOK /\ TrackerTypeOK /\ OwnerTypeOK /\ PoolTypeOK
  BY DEF OwnershipInv, TypeOK, WriterTypeOK
<1>1. CASE Enqueue
  <2>1. registered + 1 \in Token /\ tokenState[registered + 1] = "unregistered"
    BY <1>0, <1>1, NumTokensAssumption
       DEF Enqueue, RegisterInput, TrackerTypeOK, Token, OwnershipInv,
           TokenCursors
  <2>. QED
    BY <1>0, <1>1, <2>1, HolderFrame
       DEF Enqueue, RegisterInput, TrackerTypeOK, HolderOfState
<1>2. ASSUME NEW count \in 1 .. MaxBatch, Receive(count)
      PROVE  Lifecycle!Next
  <2>1. Transfer(nextReceive + 1 .. nextReceive + count, "input_owned",
                 "worker_owned")
    BY <1>2 DEF Receive, ReceiveTokens
  <2>2. nextReceive + 1 .. nextReceive + count \in SUBSET Token
    BY <1>0, <2>1, NumTokensAssumption DEF Transfer, TrackerTypeOK, Token
  <2>. QED
    BY <2>1, <2>2, TransferMaps
<1>3. ASSUME UNCHANGED tokenState
      PROVE  UNCHANGED Lifecycle!vars
  BY <1>3, HolderFrame
<1>4. ASSUME NEW t, NEW from, NEW to, Transfer({t}, from, to),
             \/ from = "worker_owned" /\ to \in {"output_owned", "retained"}
             \/ from \in OutstandingState /\ to \in FinalState
      PROVE  Lifecycle!Next
  <2>1. t \in Token /\ {t} \in SUBSET Token
    BY <1>0, <1>4, NumTokensAssumption DEF Transfer, TrackerTypeOK, Token
  <2>. QED
    BY <1>4, <2>1, TransferMaps
<1>5. ASSUME NEW g, NEW i, Submit(g, i)
      PROVE  Lifecycle!Next
  BY <1>4, <1>5
     DEF Submit, SubmitOutput, SubmitAndComplete, OutstandingState, FinalState
<1>6. ASSUME NEW w, NEW g, NEW i, NEW k, Retain(w, g, i, k)
      PROVE  Lifecycle!Next
  BY <1>4, <1>6 DEF Retain, RetainPacket, AcquireBound, RetainToken
<1>7. ASSUME NEW l, FinishLease(l)
      PROVE  Lifecycle!Next
  BY <1>4, <1>7
     DEF FinishLease, CompleteLease, CompleteRetention, OutstandingState,
         FinalState
<1>8. ASSUME NEW t, GiveBack(t)
      PROVE  Lifecycle!Next
  BY <1>4, <1>8 DEF GiveBack, ReturnToInput, OutstandingState, FinalState
<1>9. ASSUME NEW n, OutputDone(n)
      PROVE  Lifecycle!Next
  BY <1>4, <1>9 DEF OutputDone, CompleteOutput, OutstandingState, FinalState
<1>10. ASSUME NEW s, BeginBatch(s)
       PROVE  UNCHANGED tokenState
  BY <1>10 DEF BeginBatch, trackerVars
<1>11. ASSUME NEW g, EndBatch(g) \/ OpenWriter(g)
       PROVE  UNCHANGED tokenState
  BY <1>11 DEF EndBatch, OpenWriter, InitWriter, trackerVars
<1>12. ASSUME NEW g, NEW i, PacketAccess(g, i) \/ SubmitFails(g, i)
       PROVE  UNCHANGED tokenState
  BY <1>12 DEF PacketAccess, SubmitFails, trackerVars
<1>13. ASSUME NEW r, RawAccess(r)
       PROVE  UNCHANGED tokenState
  BY <1>13 DEF RawAccess, trackerVars
<1>14. ASSUME NEW w, NEW S, NEW kind, SetSelection(w, S, kind)
       PROVE  UNCHANGED tokenState
  BY <1>14 DEF SetSelection, RecordTerminal, trackerVars
<1>15. CASE UNCHANGED vars
  BY <1>3, <1>15 DEF vars, trackerVars
<1>16. ASSUME NEW g, NEW i, NEW r, OpenRawEditor(g, i, r)
       PROVE  UNCHANGED tokenState
  BY <1>16 DEF OpenRawEditor, trackerVars
<1>. QED
  BY <1>1, <1>2, <1>3, <1>5, <1>6, <1>7, <1>8, <1>9, <1>10, <1>11, <1>12,
     <1>13, <1>14, <1>15, <1>16 DEF Next

LEMMA InitMaps == Init => Lifecycle!Init
<1>. SUFFICES ASSUME Init PROVE Lifecycle!Init
  OBVIOUS
<1>1. OwnershipInv
  BY InitOwnership
<1>2. \A t \in Token : HolderOf(t) = "input"
  BY <1>1, HolderIsState DEF Init, WriterInit, TrackerInit, HolderOfState
<1>3. ReceivedCompleted
  BY <1>1, <1>2, CleanMeansNothingHeld
<1>4. ReceivedCompleted = TRUE
  BY <1>3 DEF ReceivedCompleted
<1>. QED
  BY <1>2, <1>4 DEF Lifecycle!Init

(* The whole ownership machinery implements the token lifecycle: exactly   *)
(* one holder at a time, hand-offs along the promised arrows only, and a   *)
(* shutdown verdict that is right in every state (INV-PKT-001).            *)
THEOREM OwnershipRefinesLifecycle == Spec => ImplementsLifecycle
<1>1. Spec => Lifecycle!Spec
  BY InitMaps, NextMaps, OwnershipInvariant, PTL DEF Spec, Lifecycle!Spec
<1>. QED
  BY <1>1 DEF ImplementsLifecycle

-----------------------------------------------------------------------------
(***************************************************************************)
(* The handles: what is kept of an ended batch, a closed recorder or a     *)
(* completed lease reaches nothing, a raw authority reaches one packet     *)
(* only, and what a recorder has decided stays decided.                    *)
(***************************************************************************)

(* What the properties of handles speak of.                                *)
handleVars == <<nextGeneration, liveGeneration, slots, slotAccess, escaped,
                authority, poolVars, writerVars, issuedVars>>

(* Whose escape flag goes up is in its batch.                              *)
Escape(g, i) ==
  /\ Resolves(g, i)
  /\ MarkEscaped(i)
  /\ UNCHANGED <<nextGeneration, liveGeneration, slots, slotAccess, authority,
                 poolVars, writerVars, issuedVars>>

Mint(g, i, r) ==
  /\ MintRaw(g, i, r)
  /\ rawHandles' = Append(rawHandles, [value |-> r, generation |-> g,
                                       slot |-> i, token |-> slots[i]])
  /\ UNCHANGED <<poolVars, writerVars, batches, writers, leases>>

(* Every step is one of eight that matter here, or changes none of it.     *)
LEMMA HandleSteps ==
  ASSUME [Next]_vars
  PROVE  \/ \E s \in BatchSlots : BeginBatch(s)
         \/ \E g \in IssuedGeneration : EndBatch(g) \/ OpenWriter(g)
         \/ \E g \in IssuedGeneration, i \in Slot : Escape(g, i)
         \/ \E g \in IssuedGeneration, i \in Slot, r \in RawToken : Mint(g, i, r)
         \/ \E w \in IssuedWriter, S \in SUBSET Slot, kind \in Terminal :
              SetSelection(w, S, kind)
         \/ \E w \in IssuedWriter, g \in IssuedGeneration, i \in Slot,
               k \in RecordIndex : Retain(w, g, i, k)
         \/ \E l \in IssuedLease : FinishLease(l)
         \/ UNCHANGED handleVars
<1>1. CASE Enqueue
  BY <1>1 DEF Enqueue, ownerVars, handleVars
<1>2. ASSUME NEW count, Receive(count)
      PROVE  UNCHANGED handleVars
  BY <1>2 DEF Receive, ownerVars, handleVars
<1>3. ASSUME NEW g \in IssuedGeneration, NEW i \in Slot, PacketAccess(g, i)
      PROVE  Escape(g, i) \/ UNCHANGED handleVars
  <2>1. CASE Borrow(g, i)
    BY <1>3, <2>1 DEF PacketAccess, Borrow, Escape
  <2>2. CASE Edit(g, i) \/ Finalize(g, i)
    BY <1>3, <2>2 DEF PacketAccess, Edit, Finalize, JournalStep, handleVars
  <2>3. CASE MintRawFails(g, i)
    BY <1>3, <2>3 DEF PacketAccess, MintRawFails, handleVars
  <2>. QED
    BY <1>3, <2>1, <2>2, <2>3 DEF PacketAccess
<1>4. ASSUME NEW g \in IssuedGeneration, NEW i \in Slot,
             Submit(g, i) \/ SubmitFails(g, i)
      PROVE  Escape(g, i)
  BY <1>4 DEF Submit, SubmitFails, ValidForOutput, Escape
<1>5. ASSUME NEW r, RawAccess(r)
      PROVE  UNCHANGED handleVars
  BY <1>5 DEF RawAccess, RawWrite, JournalStep, handleVars
<1>6. ASSUME NEW t, GiveBack(t)
      PROVE  UNCHANGED handleVars
  BY <1>6 DEF GiveBack, ownerVars, handleVars
<1>7. ASSUME NEW n, OutputDone(n)
      PROVE  UNCHANGED handleVars
  BY <1>7 DEF OutputDone, ownerVars, handleVars
<1>8. CASE UNCHANGED vars
  BY <1>8 DEF vars, ownerVars, handleVars
<1>9. ASSUME NEW g, NEW i, NEW r, OpenRawEditor(g, i, r)
      PROVE  Mint(g, i, r)
  BY <1>9 DEF OpenRawEditor, Mint
<1>. QED
  BY <1>1, <1>2, <1>3, <1>4, <1>5, <1>6, <1>7, <1>8, <1>9 DEF Next

-----------------------------------------------------------------------------
(***************************************************************************)
(* Raw authorities.                                                        *)
(***************************************************************************)

(* Handle n is the last one minted for its slot, and its value came out of *)
(* the hash no more.                                                       *)
LastMint(n) ==
  \A k \in n + 1 .. Len(rawHandles) :
    /\ rawHandles[k].value # rawHandles[n].value
    /\ rawHandles[k].slot = rawHandles[n].slot =>
         rawHandles[k].generation # rawHandles[n].generation

(* The authority of slot i was set for handle n.                           *)
AuthorityFrom(i, n) ==
  /\ rawHandles[n].slot = i
  /\ rawHandles[n].generation = nextGeneration
  /\ rawHandles[n].token = slots[i]
  /\ authority[i] = [token |-> {rawHandles[n].value}, generation |-> nextGeneration]
  /\ LastMint(n)

(* A retained slot has no authority at all, no two slots of a batch have   *)
(* the same one, and each is that of the last handle minted for its slot;  *)
(* a handle of the latest batch is for one of its slots, which still has   *)
(* the authority if no other was minted and the packet was not retained.   *)
RawInv ==
  /\ \A i \in Slot : slotAccess[i] = "retained" =>
       ~ escaped[i] /\ authority[i].token = {}
  /\ \A i, j \in 1 .. Len(slots) :
       authority[i] = authority[j] /\ authority[i].token # {} => i = j
  /\ \A i \in 1 .. Len(slots) : authority[i].token # {} =>
       \E n \in 1 .. Len(rawHandles) : AuthorityFrom(i, n)
  /\ \A n \in 1 .. Len(rawHandles) :
       /\ rawHandles[n].generation <= nextGeneration
       /\ rawHandles[n].generation = nextGeneration =>
            /\ rawHandles[n].slot \in 1 .. Len(slots)
            /\ rawHandles[n].token = slots[rawHandles[n].slot]
            /\ \/ slotAccess[rawHandles[n].slot] # "batch_owned"
               \/ authority[rawHandles[n].slot] =
                    [token |-> {rawHandles[n].value}, generation |-> nextGeneration]
               \/ \E k \in n + 1 .. Len(rawHandles) :
                    /\ rawHandles[k].slot = rawHandles[n].slot
                    /\ rawHandles[k].generation = rawHandles[n].generation

LEMMA SlotsAreSlots ==
  ASSUME TypeOK
  PROVE  /\ Len(slots) \in Nat
         /\ 1 .. Len(slots) \subseteq Slot
BY BatchOwnerAssumption DEF TypeOK, WriterTypeOK, OwnerTypeOK, Slot

LEMMA RawHandleTypes ==
  ASSUME TypeOK
  PROVE  /\ Len(rawHandles) \in Nat
         /\ \A n \in 1 .. Len(rawHandles) :
              /\ rawHandles[n] \in [value : RawToken, generation : 1 .. MaxGeneration,
                                    slot : Slot, token : Token]
              /\ rawHandles[n].generation \in Nat
              /\ rawHandles[n].generation # 0
<1>1. Len(rawHandles) \in Nat
  BY DEF TypeOK, WriterTypeOK
<1>2. ASSUME NEW n \in 1 .. Len(rawHandles)
      PROVE  /\ rawHandles[n] \in [value : RawToken, generation : 1 .. MaxGeneration,
                                   slot : Slot, token : Token]
             /\ rawHandles[n].generation \in Nat
             /\ rawHandles[n].generation # 0
  <2>1. rawHandles[n] \in [value : RawToken, generation : 1 .. MaxGeneration,
                           slot : Slot, token : Token]
    BY ElementOfSeq DEF TypeOK, WriterTypeOK
  <2>. QED
    BY <2>1, BatchOwnerAssumption
<1>. QED
  BY <1>1, <1>2

(* Nothing of the authorities changes where nothing they depend on does.   *)
LEMMA RawFrame ==
  ASSUME RawInv,
         UNCHANGED <<nextGeneration, slots, slotAccess, authority, rawHandles>>,
         \A i \in Slot : slotAccess[i] = "retained" => escaped'[i] = escaped[i]
  PROVE  RawInv'
<1>1. /\ nextGeneration' = nextGeneration
      /\ slots' = slots
      /\ slotAccess' = slotAccess
      /\ authority' = authority
      /\ rawHandles' = rawHandles
  OBVIOUS
<1>2. \A i, n : AuthorityFrom(i, n) => AuthorityFrom(i, n)'
  BY <1>1 DEF AuthorityFrom, LastMint
<1>3. \A i \in Slot : slotAccess'[i] = "retained" =>
        ~ escaped'[i] /\ authority'[i].token = {}
  BY <1>1 DEF RawInv
<1>4. \A i, j \in 1 .. Len(slots') :
        authority'[i] = authority'[j] /\ authority'[i].token # {} => i = j
  BY <1>1 DEF RawInv
<1>5. \A i \in 1 .. Len(slots') : authority'[i].token # {} =>
        \E n \in 1 .. Len(rawHandles') : AuthorityFrom(i, n)'
  BY <1>1, <1>2 DEF RawInv
<1>. QED
  BY <1>1, <1>3, <1>4, <1>5 DEF RawInv

LEMMA RawMintStep ==
  ASSUME TypeOK, RawInv,
         NEW g, NEW i \in Slot, NEW r \in RawToken, Mint(g, i, r)
  PROVE  RawInv'
<1>0. /\ Len(slots) \in Nat
      /\ 1 .. Len(slots) \subseteq Slot
      /\ slotAccess \in [Slot -> SlotAccess]
      /\ escaped \in [Slot -> BOOLEAN]
      /\ authority \in [Slot -> Authority]
      /\ nextGeneration \in Nat
  <2>1. OwnerTypeOK
    BY DEF TypeOK, WriterTypeOK
  <2>2. nextGeneration \in Nat
    BY <2>1, BatchOwnerAssumption DEF OwnerTypeOK
  <2>. QED
    BY <2>1, <2>2, SlotsAreSlots DEF OwnerTypeOK
<1>1. /\ authority' = [authority EXCEPT ![i] = [token |-> {r}, generation |-> g]]
      /\ RawTokenAvailable(r)
  BY DEF Mint, MintRaw
<1>2. /\ slotAccess[i] = "batch_owned"
      /\ i \in 1 .. Len(slots)
      /\ g = liveGeneration
      /\ g = nextGeneration
      /\ UNCHANGED <<slots, slotAccess, escaped, nextGeneration>>
  BY DEF Mint, MintRaw, Resolves, BatchLive, TypeOK, WriterTypeOK, OwnerTypeOK
<1>3. \A j \in 1 .. Len(slots) : authority[j] # [token |-> {r}, generation |-> g]
  BY <1>1, <1>2 DEF RawTokenAvailable
<1>4. ASSUME NEW j \in Slot, slotAccess'[j] = "retained"
      PROVE  ~ escaped'[j] /\ authority'[j].token = {}
  BY <1>0, <1>1, <1>2, <1>4 DEF RawInv
<1>5. ASSUME NEW j \in 1 .. Len(slots), NEW k \in 1 .. Len(slots),
             authority'[j] = authority'[k], authority'[j].token # {}
      PROVE  j = k
  <2>1. CASE j = i \/ k = i
    BY <1>0, <1>1, <1>3, <1>5, <2>1
  <2>2. CASE j # i /\ k # i
    BY <1>0, <1>1, <1>5, <2>2 DEF RawInv
  <2>. QED
    BY <2>1, <2>2
<1>. DEFINE new == [value |-> r, generation |-> g, slot |-> i, token |-> slots[i]]
<1>9. PICK N \in Nat : N = Len(rawHandles)
  BY DEF TypeOK, WriterTypeOK
<1>6. /\ N \in Nat
      /\ Len(rawHandles') = N + 1
      /\ rawHandles'[N + 1] = new
      /\ \A n \in 1 .. N : rawHandles'[n] = rawHandles[n]
  BY <1>9 DEF Mint, TypeOK, WriterTypeOK
<1>7. ASSUME NEW j \in 1 .. Len(slots), authority'[j].token # {}
      PROVE  \E n \in 1 .. N + 1 : AuthorityFrom(j, n)'
  <2>1. CASE j = i
    <3>1. LastMint(N + 1)'
      BY <1>6 DEF LastMint
    <3>2. authority'[i] = [token |-> {r}, generation |-> nextGeneration]
      BY <1>0, <1>1, <1>2
    <3>3. AuthorityFrom(j, N + 1)'
      BY <1>2, <1>6, <2>1, <3>1, <3>2 DEF AuthorityFrom
    <3>4. N + 1 \in 1 .. N + 1
      BY <1>6
    <3>. QED
      BY <3>3, <3>4
  <2>2. CASE j # i
    <3>1. authority'[j] = authority[j]
      BY <1>0, <1>1, <2>2
    <3>2. PICK n \in 1 .. N : AuthorityFrom(j, n)
      BY <1>9, <1>7, <3>1 DEF RawInv
    <3>3. rawHandles[n].value # r
      BY <1>2, <1>3, <3>2 DEF AuthorityFrom
    <3>4. rawHandles[n].slot # i
      BY <2>2, <3>2 DEF AuthorityFrom
    <3>5. ASSUME NEW k \in n + 1 .. N + 1
          PROVE  /\ rawHandles'[k].value # rawHandles[n].value
                 /\ rawHandles'[k].slot = rawHandles[n].slot =>
                      rawHandles'[k].generation # rawHandles[n].generation
      <4>1. CASE k = N + 1
        BY <1>6, <3>3, <3>4, <4>1
      <4>2. CASE k \in n + 1 .. N
        <5>1. rawHandles'[k] = rawHandles[k]
          BY <1>6, <4>2
        <5>. QED
          BY <1>9, <3>2, <4>2, <5>1 DEF AuthorityFrom, LastMint
      <4>. QED
        BY <1>6, <4>1, <4>2
    <3>6. rawHandles'[n] = rawHandles[n]
      BY <1>6
    <3>7. LastMint(n)'
      BY <1>6, <3>5, <3>6 DEF LastMint
    <3>8. AuthorityFrom(j, n)'
      BY <1>2, <3>1, <3>2, <3>6, <3>7 DEF AuthorityFrom
    <3>. QED
      BY <1>6, <3>8
  <2>. QED
    BY <2>1, <2>2
<1>8. ASSUME NEW n \in 1 .. N + 1
      PROVE  /\ rawHandles'[n].generation <= nextGeneration
             /\ rawHandles'[n].generation = nextGeneration =>
                  /\ rawHandles'[n].slot \in 1 .. Len(slots)
                  /\ rawHandles'[n].token = slots[rawHandles'[n].slot]
                  /\ \/ slotAccess[rawHandles'[n].slot] # "batch_owned"
                     \/ authority'[rawHandles'[n].slot] =
                          [token |-> {rawHandles'[n].value},
                           generation |-> nextGeneration]
                     \/ \E k \in n + 1 .. N + 1 :
                          /\ rawHandles'[k].slot = rawHandles'[n].slot
                          /\ rawHandles'[k].generation = rawHandles'[n].generation
  <2>1. CASE n = N + 1
    <3>1. authority'[i] = [token |-> {r}, generation |-> nextGeneration]
      BY <1>0, <1>1, <1>2
    <3>2. rawHandles'[n] = new
      BY <1>6, <2>1
    <3>. QED
      BY <1>0, <1>2, <3>1, <3>2
  <2>2. CASE n \in 1 .. N
    <3>1. rawHandles'[n] = rawHandles[n]
      BY <1>6, <2>2
    <3>2. /\ rawHandles[n].generation <= nextGeneration
          /\ rawHandles[n].generation = nextGeneration =>
               /\ rawHandles[n].slot \in 1 .. Len(slots)
               /\ rawHandles[n].token = slots[rawHandles[n].slot]
      BY <1>9, <2>2 DEF RawInv
    <3>3. ASSUME rawHandles[n].generation = nextGeneration
          PROVE  \/ slotAccess[rawHandles[n].slot] # "batch_owned"
                 \/ authority'[rawHandles[n].slot] =
                      [token |-> {rawHandles[n].value}, generation |-> nextGeneration]
                 \/ \E k \in n + 1 .. N + 1 :
                      /\ rawHandles'[k].slot = rawHandles[n].slot
                      /\ rawHandles'[k].generation = rawHandles[n].generation
      <4>1. CASE rawHandles[n].slot = i
        <5>1. N + 1 \in n + 1 .. N + 1
          BY <1>6, <2>2
        <5>. QED
          BY <1>2, <1>6, <3>3, <4>1, <5>1
      <4>2. CASE rawHandles[n].slot # i
        <5>1. authority'[rawHandles[n].slot] = authority[rawHandles[n].slot]
          BY <1>0, <1>1, <3>2, <3>3, <4>2
        <5>2. CASE \E k \in n + 1 .. N :
                      /\ rawHandles[k].slot = rawHandles[n].slot
                      /\ rawHandles[k].generation = rawHandles[n].generation
          <6>1. PICK k \in n + 1 .. N :
                  /\ rawHandles[k].slot = rawHandles[n].slot
                  /\ rawHandles[k].generation = rawHandles[n].generation
            BY <5>2
          <6>2. k \in 1 .. N /\ k \in n + 1 .. N + 1
            BY <1>6, <2>2
          <6>. QED
            BY <1>6, <6>1, <6>2
        <5>. QED
          BY <1>9, <2>2, <3>3, <5>1, <5>2 DEF RawInv
      <4>. QED
        BY <4>1, <4>2
    <3>. QED
      BY <3>1, <3>2, <3>3
  <2>. QED
    BY <1>6, <2>1, <2>2
<1>. QED
  BY <1>2, <1>4, <1>5, <1>6, <1>7, <1>8, <1>9 DEF RawInv

LEMMA RawRetainStep ==
  ASSUME TypeOK, RawInv,
         NEW w, NEW g, NEW i \in Slot, NEW k, Retain(w, g, i, k)
  PROVE  RawInv'
<1>0. /\ Len(slots) \in Nat
      /\ 1 .. Len(slots) \subseteq Slot
      /\ slotAccess \in [Slot -> SlotAccess]
      /\ authority \in [Slot -> Authority]
  BY SlotsAreSlots DEF TypeOK, WriterTypeOK, OwnerTypeOK
<1>1. /\ ~ escaped[i]
      /\ slotAccess' = [slotAccess EXCEPT ![i] = "retained"]
      /\ authority' = [authority EXCEPT ![i] = NoAuthority]
      /\ UNCHANGED <<slots, escaped, nextGeneration, rawHandles>>
  BY DEF Retain, RetainPacket, AcquireBound, SurrenderSlot
<1>2. authority'[i].token = {} /\ slotAccess'[i] # "batch_owned"
  BY <1>0, <1>1 DEF NoAuthority
<1>3. \A j \in Slot \ {i} :
        authority'[j] = authority[j] /\ slotAccess'[j] = slotAccess[j]
  BY <1>0, <1>1
<1>4. ASSUME NEW j \in 1 .. Len(slots), NEW m \in 1 .. Len(slots),
             authority'[j] = authority'[m], authority'[j].token # {}
      PROVE  j = m
  <2>1. j # i /\ m # i
    BY <1>2, <1>4
  <2>. QED
    BY <1>0, <1>3, <1>4, <2>1 DEF RawInv
<1>5. ASSUME NEW j \in 1 .. Len(slots), authority'[j].token # {}
      PROVE  \E n \in 1 .. Len(rawHandles) : AuthorityFrom(j, n)'
  <2>1. authority'[j] = authority[j]
    BY <1>0, <1>2, <1>3, <1>5
  <2>2. PICK n \in 1 .. Len(rawHandles) : AuthorityFrom(j, n)
    BY <1>5, <2>1 DEF RawInv
  <2>3. AuthorityFrom(j, n)'
    BY <1>1, <2>1, <2>2 DEF AuthorityFrom, LastMint
  <2>. QED
    BY <2>3
<1>6. ASSUME NEW n \in 1 .. Len(rawHandles)
      PROVE  /\ rawHandles[n].generation <= nextGeneration
             /\ rawHandles[n].generation = nextGeneration =>
                  /\ rawHandles[n].slot \in 1 .. Len(slots)
                  /\ rawHandles[n].token = slots[rawHandles[n].slot]
                  /\ \/ slotAccess'[rawHandles[n].slot] # "batch_owned"
                     \/ authority'[rawHandles[n].slot] =
                          [token |-> {rawHandles[n].value},
                           generation |-> nextGeneration]
                     \/ \E m \in n + 1 .. Len(rawHandles) :
                          /\ rawHandles[m].slot = rawHandles[n].slot
                          /\ rawHandles[m].generation = rawHandles[n].generation
  <2>1. CASE rawHandles[n].slot = i
    BY <1>2, <2>1 DEF RawInv
  <2>2. CASE rawHandles[n].slot # i
    <3>1. rawHandles[n].slot \in 1 .. Len(slots) =>
            /\ authority'[rawHandles[n].slot] = authority[rawHandles[n].slot]
            /\ slotAccess'[rawHandles[n].slot] = slotAccess[rawHandles[n].slot]
      BY <1>0, <1>3, <2>2
    <3>. QED
      BY <3>1 DEF RawInv
  <2>. QED
    BY <2>1, <2>2
<1>7. \A j \in Slot : slotAccess'[j] = "retained" =>
        ~ escaped'[j] /\ authority'[j].token = {}
  BY <1>1, <1>2, <1>3 DEF RawInv
<1>. QED
  BY <1>1, <1>4, <1>5, <1>6, <1>7 DEF RawInv

LEMMA RawBeginStep ==
  ASSUME TypeOK, RawInv, NEW s \in BatchSlots, BeginBatch(s)
  PROVE  RawInv'
<1>1. /\ slotAccess' = [i \in Slot |-> IF i <= Len(s) THEN "batch_owned"
                                                      ELSE "unavailable"]
      /\ authority' = [i \in Slot |-> NoAuthority]
      /\ slots' = s
      /\ nextGeneration' = nextGeneration + 1
      /\ nextGeneration \in Nat
      /\ rawHandles' = rawHandles
  BY BatchOwnerAssumption DEF BeginBatch, Begin, TypeOK, WriterTypeOK, OwnerTypeOK
<1>2. Len(s) \in Nat /\ 1 .. Len(s) \subseteq Slot
  BY BatchSlotsType, BatchOwnerAssumption DEF BeginBatch, Begin, Slot
<1>3. \A n \in 1 .. Len(rawHandles) : rawHandles[n].generation < nextGeneration'
  <2>1. ASSUME NEW n \in 1 .. Len(rawHandles)
        PROVE  rawHandles[n].generation < nextGeneration + 1
    <3>1. rawHandles[n].generation \in Nat
      BY RawHandleTypes
    <3>2. rawHandles[n].generation <= nextGeneration
      BY DEF RawInv
    <3>. QED
      BY <1>1, <3>1, <3>2
  <2>. QED
    BY <1>1, <2>1
<1>4. \A i \in Slot : authority'[i].token = {} /\ slotAccess'[i] # "retained"
  BY <1>1 DEF NoAuthority
<1>5. \A n \in 1 .. Len(rawHandles) :
        /\ rawHandles[n].generation <= nextGeneration'
        /\ rawHandles[n].generation # nextGeneration'
  BY <1>1, <1>3, RawHandleTypes
<1>. QED
  BY <1>1, <1>2, <1>4, <1>5 DEF RawInv

LEMMA RawStep ==
  ASSUME TypeOK, TypeOK', RawInv, [Next]_vars
  PROVE  RawInv'
<1>1. ASSUME NEW s \in BatchSlots, BeginBatch(s)
      PROVE  RawInv'
  BY <1>1, RawBeginStep
<1>2. ASSUME NEW g, EndBatch(g)
      PROVE  RawInv'
  BY <1>2, RawFrame DEF EndBatch, Invalidate, issuedVars
<1>3. ASSUME NEW g, OpenWriter(g)
      PROVE  RawInv'
  BY <1>3, RawFrame DEF OpenWriter, ownerVars
<1>4. ASSUME NEW g, NEW i \in Slot, Escape(g, i)
      PROVE  RawInv'
  <2>1. escaped \in [Slot -> BOOLEAN] /\ slotAccess[i] = "batch_owned"
    BY <1>4 DEF Escape, Resolves, TypeOK, WriterTypeOK, OwnerTypeOK
  <2>2. \A j \in Slot : slotAccess[j] = "retained" => escaped'[j] = escaped[j]
    BY <1>4, <2>1 DEF Escape, MarkEscaped
  <2>. QED
    BY <1>4, <2>2, RawFrame DEF Escape, issuedVars
<1>5. ASSUME NEW g, NEW i \in Slot, NEW r \in RawToken, Mint(g, i, r)
      PROVE  RawInv'
  BY <1>5, RawMintStep
<1>6. ASSUME NEW w, NEW S, NEW kind, SetSelection(w, S, kind)
      PROVE  RawInv'
  BY <1>6, RawFrame DEF SetSelection, ownerVars, issuedVars
<1>7. ASSUME NEW w, NEW g, NEW i \in Slot, NEW k, Retain(w, g, i, k)
      PROVE  RawInv'
  BY <1>7, RawRetainStep
<1>8. ASSUME NEW l, FinishLease(l)
      PROVE  RawInv'
  BY <1>8, RawFrame DEF FinishLease, ownerVars, issuedVars
<1>9. CASE UNCHANGED handleVars
  BY <1>9, RawFrame DEF handleVars, issuedVars
<1>. QED
  BY HandleSteps, <1>1, <1>2, <1>3, <1>4, <1>5, <1>6, <1>7, <1>8, <1>9

LEMMA RawInvariant == Spec => []RawInv
<1>1. Init => RawInv
  BY BatchOwnerAssumption DEF Init, OwnerInit, RawInv, NoAuthority
<1>. QED
  BY <1>1, RawStep, TypeCorrect, PTL DEF Spec

LEMMA RawReaches ==
  ASSUME TypeOK, RawInv, NEW n \in 1 .. Len(rawHandles), NEW i \in Slot
  PROVE  RawResolves(rawHandles[n].value, i) <=>
           \E m \in n .. Len(rawHandles) :
             /\ RawCurrent(m)
             /\ rawHandles[m].value = rawHandles[n].value
             /\ rawHandles[m].slot = i
             /\ rawHandles[m].token = slots[i]
<1>0. /\ liveGeneration \in {0, nextGeneration}
      /\ Len(rawHandles) \in Nat
      /\ Len(slots) \in Nat
  BY RawHandleTypes, SlotsAreSlots DEF TypeOK, WriterTypeOK, OwnerTypeOK
<1>1. ASSUME RawResolves(rawHandles[n].value, i)
      PROVE  \E m \in n .. Len(rawHandles) :
               /\ RawCurrent(m)
               /\ rawHandles[m].value = rawHandles[n].value
               /\ rawHandles[m].slot = i
               /\ rawHandles[m].token = slots[i]
  <2>1. /\ liveGeneration # 0
        /\ liveGeneration = nextGeneration
        /\ i \in 1 .. Len(slots)
        /\ authority[i] = [token |-> {rawHandles[n].value},
                           generation |-> liveGeneration]
        /\ slotAccess[i] = "batch_owned"
    BY <1>0, <1>1 DEF RawResolves, RawMatches
  <2>6. authority[i].token = {rawHandles[n].value}
    BY <2>1
  <2>7. authority[i].token # {}
    BY <2>6
  <2>2. PICK m \in 1 .. Len(rawHandles) : AuthorityFrom(i, m)
    BY <2>1, <2>7 DEF RawInv
  <2>8. authority[i] = [token |-> {rawHandles[m].value}, generation |-> nextGeneration]
    BY <2>2 DEF AuthorityFrom
  <2>9. authority[i].token = {rawHandles[m].value}
    BY <2>8
  <2>3. rawHandles[m].value = rawHandles[n].value
    BY <2>6, <2>9
  <2>4. m \in n .. Len(rawHandles)
    <3>1. ~ n \in m + 1 .. Len(rawHandles)
      BY <2>2, <2>3 DEF AuthorityFrom, LastMint
    <3>. QED
      BY <1>0, <3>1
  <2>5. RawCurrent(m)
    BY <2>1, <2>2 DEF RawCurrent, Resolves, BatchLive, AuthorityFrom, LastMint
  <2>. QED
    BY <2>2, <2>3, <2>4, <2>5 DEF AuthorityFrom
<1>2. ASSUME NEW m \in n .. Len(rawHandles),
             RawCurrent(m),
             rawHandles[m].value = rawHandles[n].value,
             rawHandles[m].slot = i
      PROVE  RawResolves(rawHandles[n].value, i)
  <2>1. /\ liveGeneration # 0
        /\ rawHandles[m].generation = liveGeneration
        /\ liveGeneration = nextGeneration
        /\ i \in 1 .. Len(slots)
        /\ slotAccess[i] = "batch_owned"
    BY <1>0, <1>2 DEF RawCurrent, Resolves, BatchLive
  <2>2. ~ \E k \in m + 1 .. Len(rawHandles) :
            /\ rawHandles[k].slot = rawHandles[m].slot
            /\ rawHandles[k].generation = rawHandles[m].generation
    BY <1>2 DEF RawCurrent
  <2>3. m \in 1 .. Len(rawHandles)
    BY <1>0
  <2>4. authority[i] = [token |-> {rawHandles[m].value}, generation |-> nextGeneration]
    BY <1>2, <2>1, <2>2, <2>3 DEF RawInv
  <2>5. i \in RawMatches(rawHandles[n].value)
    BY <1>2, <2>1, <2>4 DEF RawMatches
  <2>6. authority[i].token # {}
    BY <2>4
  <2>7. \A j \in RawMatches(rawHandles[n].value) : j = i
    BY <1>2, <2>1, <2>4, <2>6 DEF RawMatches, RawInv
  <2>. QED
    BY <2>1, <2>5, <2>7 DEF RawResolves
<1>. QED
  BY <1>1, <1>2

(* rawEditorContext, over kept handles: a raw editor reaches the packet of *)
(* the last mint of its value, while that is the last for its slot in the  *)
(* batch in progress and the packet was not retained, and no other; a      *)
(* retained packet has no raw editor and never gave its bytes away.        *)
THEOREM RawAuthorityCorrect == Spec => []RawAuthorityExact
<1>1. TypeOK /\ RawInv => RawAuthorityExact
  <2>. SUFFICES ASSUME TypeOK, RawInv PROVE RawAuthorityExact
    OBVIOUS
  <2>1. RetainedSlotSealed
    BY SlotsAreSlots DEF RetainedSlotSealed, RawMatches, RawInv
  <2>2. RawReachesItsPacket
    BY RawReaches DEF RawReachesItsPacket
  <2>. QED
    BY <2>1, <2>2 DEF RawAuthorityExact
<1>. QED
  BY <1>1, RawInvariant, TypeCorrect, PTL

-----------------------------------------------------------------------------
(***************************************************************************)
(* Batch handles.                                                          *)
(***************************************************************************)

(* No handle is ahead of the owner, and those of the generation in         *)
(* progress were issued for the slots that are there.                      *)
BatchHandles ==
  \A n \in 1 .. Len(batches) :
    /\ batches[n].generation <= nextGeneration
    /\ batches[n].generation = liveGeneration => batches[n].slots = slots

LEMMA BatchHandlesStep ==
  ASSUME TypeOK, TypeOK', BatchHandles, [Next]_vars
  PROVE  BatchHandles'
<1>0. /\ batches \in Seq([generation : 1 .. MaxGeneration, slots : Seq(Token)])
      /\ nextGeneration \in Nat
      /\ \A n \in 1 .. Len(batches) : batches[n].generation \in 1 .. MaxGeneration
  <2>1. ASSUME NEW n \in 1 .. Len(batches)
        PROVE  batches[n] \in [generation : 1 .. MaxGeneration, slots : Seq(Token)]
    BY ElementOfSeq DEF TypeOK, WriterTypeOK
  <2>2. \A n \in 1 .. Len(batches) : batches[n].generation \in 1 .. MaxGeneration
    BY <2>1
  <2>3. batches \in Seq([generation : 1 .. MaxGeneration, slots : Seq(Token)])
    BY DEF TypeOK
  <2>4. nextGeneration \in Nat
    BY BatchOwnerAssumption DEF TypeOK, OwnerTypeOK
  <2>. QED
    BY <2>2, <2>3, <2>4
<1>1. ASSUME NEW s \in BatchSlots, BeginBatch(s)
      PROVE  BatchHandles'
  <2>1. /\ batches' = Append(batches, [generation |-> liveGeneration', slots |-> s])
        /\ nextGeneration' = nextGeneration + 1
        /\ liveGeneration' = nextGeneration + 1
        /\ slots' = s
    BY <1>1 DEF BeginBatch, Begin
  <2>2. Len(batches') = Len(batches) + 1
    BY <1>0, <2>1
  <2>3. ASSUME NEW n \in 1 .. Len(batches')
        PROVE  /\ batches'[n].generation <= nextGeneration'
               /\ batches'[n].generation = liveGeneration' => batches'[n].slots = slots'
    <3>1. CASE n \in 1 .. Len(batches)
      <4>1. batches'[n] = batches[n]
        BY <1>0, <2>1, <3>1
      <4>. QED
        BY <1>0, <2>1, <3>1, <4>1, BatchOwnerAssumption DEF BatchHandles
    <3>2. CASE n = Len(batches) + 1
      <4>1. batches'[n] = [generation |-> liveGeneration', slots |-> s]
        BY <1>0, <2>1, <3>2
      <4>. QED
        BY <1>0, <2>1, <4>1
    <3>. QED
      BY <1>0, <2>2, <3>1, <3>2
  <2>. QED
    BY <2>3 DEF BatchHandles
<1>2. ASSUME NEW g, EndBatch(g)
      PROVE  BatchHandles'
  <2>1. /\ liveGeneration' = 0
        /\ UNCHANGED <<nextGeneration, slots, batches>>
    BY <1>2 DEF EndBatch, Invalidate, issuedVars
  <2>. QED
    BY <1>0, <2>1 DEF BatchHandles
<1>3. ASSUME UNCHANGED <<nextGeneration, liveGeneration, slots, batches>>
      PROVE  BatchHandles'
  BY <1>3 DEF BatchHandles
<1>4. ASSUME NEW g, OpenWriter(g)
      PROVE  BatchHandles'
  BY <1>3, <1>4 DEF OpenWriter, ownerVars
<1>5. ASSUME NEW g, NEW i, Escape(g, i) \/ \E r : Mint(g, i, r)
      PROVE  BatchHandles'
  BY <1>3, <1>5 DEF Escape, Mint, MintRaw, issuedVars
<1>6. ASSUME NEW w, NEW S, NEW kind, SetSelection(w, S, kind)
      PROVE  BatchHandles'
  BY <1>3, <1>6 DEF SetSelection, ownerVars, issuedVars
<1>7. ASSUME NEW w, NEW g, NEW i, NEW k, Retain(w, g, i, k)
      PROVE  BatchHandles'
  BY <1>3, <1>7 DEF Retain, RetainPacket, AcquireBound, SurrenderSlot
<1>8. ASSUME NEW l, FinishLease(l)
      PROVE  BatchHandles'
  BY <1>3, <1>8 DEF FinishLease, ownerVars, issuedVars
<1>9. CASE UNCHANGED handleVars
  BY <1>3, <1>9 DEF handleVars, issuedVars
<1>. QED
  BY HandleSteps, <1>1, <1>2, <1>4, <1>5, <1>6, <1>7, <1>8, <1>9

-----------------------------------------------------------------------------
(***************************************************************************)
(* Leases.                                                                 *)
(***************************************************************************)

(* No lease is ahead of the pool, and the record whose generation a lease  *)
(* carries still has the token the lease was made for.                     *)
LeaseHandles ==
  \A n \in 1 .. Len(leases) :
    LET l == leases[n].lease
    IN  /\ l.generation <= nextLeaseGeneration
        /\ records[l.index].generation = l.generation =>
             records[l.index].token = leases[n].token

LEMMA LeaseTypes ==
  ASSUME TypeOK
  PROVE  /\ leases \in Seq([lease : Lease, token : Token])
         /\ nextLeaseGeneration \in Nat
         /\ records \in [RecordIndex -> RetentionRecord]
         /\ \A n \in 1 .. Len(leases) :
              /\ leases[n].lease.index \in RecordIndex
              /\ leases[n].lease.generation \in Nat
<1>1. ASSUME NEW n \in 1 .. Len(leases)
      PROVE  leases[n] \in [lease : Lease, token : Token]
  BY ElementOfSeq DEF TypeOK, WriterTypeOK
<1>. QED
  BY <1>1, RetentionPoolAssumption DEF TypeOK, WriterTypeOK, PoolTypeOK, Lease

LEMMA LeaseHandlesStep ==
  ASSUME TypeOK, TypeOK', LeaseHandles, [Next]_vars
  PROVE  LeaseHandles'
<1>1. ASSUME UNCHANGED <<leases, poolVars>>
      PROVE  LeaseHandles'
  BY <1>1 DEF LeaseHandles, poolVars
<1>2. ASSUME NEW s, BeginBatch(s)
      PROVE  LeaseHandles'
  BY <1>1, <1>2 DEF BeginBatch
<1>3. ASSUME NEW g, EndBatch(g) \/ OpenWriter(g)
      PROVE  LeaseHandles'
  BY <1>1, <1>3 DEF EndBatch, OpenWriter, issuedVars
<1>4. ASSUME NEW g, NEW i, Escape(g, i) \/ \E r : Mint(g, i, r)
      PROVE  LeaseHandles'
  BY <1>1, <1>4 DEF Escape, Mint, issuedVars
<1>5. ASSUME NEW w, NEW S, NEW kind, SetSelection(w, S, kind)
      PROVE  LeaseHandles'
  BY <1>1, <1>5 DEF SetSelection, issuedVars
<1>6. ASSUME NEW w, NEW g, NEW i, NEW k \in RecordIndex, Retain(w, g, i, k)
      PROVE  LeaseHandles'
  <2> DEFINE record == [generation |-> nextLeaseGeneration + 1,
                        state |-> "live",
                        batchGeneration |-> liveGeneration,
                        packetIndex |-> i,
                        token |-> slots[i]]
             issued == [lease |-> AcquiredLease(k), token |-> slots[i]]
  <2>1. /\ nextLeaseGeneration' = nextLeaseGeneration + 1
        /\ records' = [records EXCEPT ![k] = record]
        /\ leases' = Append(leases, issued)
    BY <1>6 DEF Retain, RetainPacket, AcquireBound
  <2>2. issued.lease = [index |-> k, generation |-> nextLeaseGeneration + 1]
    BY <2>1 DEF AcquiredLease
  <2>. HIDE DEF record, issued
  <2>3. /\ records'[k] = record
        /\ \A j \in RecordIndex \ {k} : records'[j] = records[j]
    BY <2>1, LeaseTypes
  <2>4. /\ Len(leases') = Len(leases) + 1
        /\ leases'[Len(leases) + 1] = issued
        /\ \A n \in 1 .. Len(leases) : leases'[n] = leases[n]
    BY <2>1, LeaseTypes
  <2>5. ASSUME NEW n \in 1 .. Len(leases')
        PROVE  /\ leases'[n].lease.generation <= nextLeaseGeneration'
               /\ records'[leases'[n].lease.index].generation = leases'[n].lease.generation
                    => records'[leases'[n].lease.index].token = leases'[n].token
    <3>1. CASE n = Len(leases) + 1
      BY <2>1, <2>2, <2>3, <2>4, <3>1, LeaseTypes DEF record, issued
    <3>2. CASE n \in 1 .. Len(leases)
      <4>1. leases'[n].lease.generation <= nextLeaseGeneration
        BY <2>4, <3>2 DEF LeaseHandles
      <4>2. CASE leases'[n].lease.index = k
        BY <2>1, <2>3, <2>4, <3>2, <4>1, <4>2, LeaseTypes DEF record
      <4>3. CASE leases'[n].lease.index # k
        <5>1. records'[leases'[n].lease.index] = records[leases[n].lease.index]
          BY <2>3, <2>4, <3>2, <4>3, LeaseTypes
        <5>. QED
          BY <2>1, <2>4, <3>2, <4>1, <5>1, LeaseTypes DEF LeaseHandles
      <4>. QED
        BY <4>2, <4>3
    <3>. QED
      BY <2>4, <3>1, <3>2, LeaseTypes
  <2>. QED
    BY <2>5 DEF LeaseHandles
<1>7. ASSUME NEW l \in IssuedLease, FinishLease(l)
      PROVE  LeaseHandles'
  <2>1. /\ records' = [records EXCEPT ![l.index].state = "completed"]
        /\ nextLeaseGeneration' = nextLeaseGeneration
        /\ leases' = leases
    BY <1>7 DEF FinishLease, CompleteLease, issuedVars
  <2>2. \A k \in RecordIndex : /\ records'[k].generation = records[k].generation
                               /\ records'[k].token = records[k].token
    BY <2>1, LeaseTypes DEF RetentionRecord
  <2>. QED
    BY <2>1, <2>2, LeaseTypes DEF LeaseHandles
<1>8. CASE UNCHANGED handleVars
  BY <1>1, <1>8 DEF handleVars, issuedVars
<1>. QED
  BY HandleSteps, <1>2, <1>3, <1>4, <1>5, <1>6, <1>7, <1>8

-----------------------------------------------------------------------------
(***************************************************************************)
(* The recorder.                                                           *)
(***************************************************************************)

(* What each operation does to the fields of the recorder.                 *)
LEMMA SelectionFields ==
  ASSUME WriterTypeOK, NEW w, NEW S, NEW kind, RecordTerminal(w, S, kind)
  PROVE  /\ disposition'.handle = disposition.handle
         /\ disposition'.batch = disposition.batch
         /\ disposition'.length = disposition.length
         /\ disposition'.active = disposition.active \ S
         /\ \A i \in S : disposition'.values[i] = [kind |-> kind]
         /\ \A i \in Slot \ S : disposition'.values[i] = disposition.values[i]
         /\ S \subseteq disposition.active
         /\ S \subseteq Slot
         /\ kind \in Terminal
         /\ nextWriter' = nextWriter
<1>1. disposition' = [disposition EXCEPT
        !.values = [i \in Slot |-> IF i \in S THEN [kind |-> kind]
                                              ELSE disposition.values[i]],
        !.active = disposition.active \ S]
  BY DEF RecordTerminal
<1>2. /\ S \subseteq disposition.active
      /\ kind \in Terminal
      /\ nextWriter' = nextWriter
  BY DEF RecordTerminal
<1>3. S \subseteq Slot
  BY <1>2 DEF WriterTypeOK, Disposition
<1>4. disposition \in [handle : 0 .. MaxWriterGeneration,
                       batch : 0 .. MaxGeneration,
                       length : 0 .. MaxBatch,
                       active : SUBSET Slot,
                       values : [Slot -> Value]]
  BY DEF WriterTypeOK, Disposition
<1>5. disposition'.values = [i \in Slot |-> IF i \in S THEN [kind |-> kind]
                                                    ELSE disposition.values[i]]
  BY <1>1, <1>4
<1>6. /\ disposition'.handle = disposition.handle
      /\ disposition'.batch = disposition.batch
      /\ disposition'.length = disposition.length
      /\ disposition'.active = disposition.active \ S
  BY <1>1, <1>4
<1>. QED
  BY <1>2, <1>3, <1>5, <1>6

LEMMA RetainFields ==
  ASSUME WriterTypeOK, NEW w, NEW g, NEW i \in Slot, NEW k,
         RetainPacket(w, g, i, k)
  PROVE  /\ disposition'.handle = disposition.handle
         /\ disposition'.batch = disposition.batch
         /\ disposition'.length = disposition.length
         /\ disposition'.active = disposition.active \ {i}
         /\ disposition'.values[i] =
              [kind |-> "retain",
               lease |-> [index |-> k, generation |-> nextLeaseGeneration']]
         /\ \A j \in Slot : j # i => disposition'.values[j] = disposition.values[j]
         /\ disposition.values[i].kind = "continue"
         /\ disposition.handle # 0
         /\ nextWriter' = nextWriter
<1> DEFINE new == [kind |-> "retain",
                   lease |-> [index |-> k, generation |-> nextLeaseGeneration']]
<1>1. disposition' = [disposition EXCEPT
        !.values = [disposition.values EXCEPT ![i] = new],
        !.active = disposition.active \ {i}]
  BY DEF RetainPacket, AcquiredLease
<1>2. /\ disposition.values[i].kind = "continue"
      /\ disposition.handle # 0
      /\ nextWriter' = nextWriter
  BY DEF RetainPacket, WriterLive
<1> HIDE DEF new
<1>3. disposition \in [handle : 0 .. MaxWriterGeneration,
                       batch : 0 .. MaxGeneration,
                       length : 0 .. MaxBatch,
                       active : SUBSET Slot,
                       values : [Slot -> Value]]
  BY DEF WriterTypeOK, Disposition
<1>4. disposition'.values = [disposition.values EXCEPT ![i] = new]
  BY <1>1, <1>3
<1>5. /\ disposition'.handle = disposition.handle
      /\ disposition'.batch = disposition.batch
      /\ disposition'.length = disposition.length
      /\ disposition'.active = disposition.active \ {i}
  BY <1>1, <1>3
<1>6. disposition.values \in [Slot -> Value]
  BY <1>3
<1>7. /\ disposition'.values[i] = new
      /\ \A j \in Slot : j # i => disposition'.values[j] = disposition.values[j]
  BY <1>4, <1>6
<1>. QED
  BY <1>2, <1>5, <1>7 DEF new

LEMMA OpenFields ==
  ASSUME NEW g, InitWriter(g)
  PROVE  /\ disposition'.handle = nextWriter + 1
         /\ disposition'.batch = liveGeneration
         /\ disposition'.length = Len(slots)
         /\ disposition'.active = 1 .. Len(slots)
         /\ \A i \in Slot : disposition'.values[i].kind = "continue"
         /\ disposition.handle = 0
         /\ nextWriter' = nextWriter + 1
         /\ liveGeneration = g
         /\ g # 0
BY DEF InitWriter, BatchLive, Continue

LEMMA NoWriterFields ==
  /\ NoWriter.handle = 0
  /\ NoWriter.active = {}
  /\ \A i \in Slot : NoWriter.values[i].kind = "continue"
BY DEF NoWriter, Continue

(* No writer handle is ahead of the owner, and the one that matches the    *)
(* recorder was opened for the recorder's batch.                           *)
WriterHandles ==
  \A n \in 1 .. Len(writers) :
    /\ writers[n].handle <= nextWriter
    /\ writers[n].handle = disposition.handle =>
         writers[n].generation = disposition.batch

LEMMA WriterTypes ==
  ASSUME TypeOK
  PROVE  /\ writers \in Seq([handle : 1 .. MaxWriterGeneration,
                             generation : 1 .. MaxGeneration])
         /\ nextWriter \in Nat
         /\ \A n \in 1 .. Len(writers) : writers[n].handle \in Nat \ {0}
<1>1. ASSUME NEW n \in 1 .. Len(writers)
      PROVE  writers[n].handle \in Nat \ {0}
  <2>1. writers[n] \in [handle : 1 .. MaxWriterGeneration,
                        generation : 1 .. MaxGeneration]
    BY ElementOfSeq DEF TypeOK, WriterTypeOK
  <2>. QED
    BY <2>1, DispositionWriterAssumption
<1>2. writers \in Seq([handle : 1 .. MaxWriterGeneration,
                       generation : 1 .. MaxGeneration])
  BY DEF TypeOK
<1>3. nextWriter \in Nat
  BY DispositionWriterAssumption DEF TypeOK, WriterTypeOK
<1>. QED
  BY <1>1, <1>2, <1>3

LEMMA WriterHandlesStep ==
  ASSUME TypeOK, TypeOK', WriterHandles, [Next]_vars
  PROVE  WriterHandles'
<1>0. WriterTypeOK
  BY DEF TypeOK
<1>1. ASSUME writers' = writers, nextWriter' = nextWriter,
             disposition'.handle = disposition.handle,
             disposition'.batch = disposition.batch
      PROVE  WriterHandles'
  BY <1>1 DEF WriterHandles
<1>2. ASSUME UNCHANGED <<writers, writerVars>>
      PROVE  WriterHandles'
  BY <1>1, <1>2 DEF writerVars
<1>3. ASSUME NEW s, BeginBatch(s)
      PROVE  WriterHandles'
  <2>1. /\ writers' = writers
        /\ nextWriter' = nextWriter
        /\ disposition'.handle = 0
    BY <1>3, NoWriterFields DEF BeginBatch
  <2>. QED
    BY <2>1, WriterTypes DEF WriterHandles
<1>4. ASSUME NEW g, OpenWriter(g)
      PROVE  WriterHandles'
  <2>1. InitWriter(g)
    BY <1>4 DEF OpenWriter
  <2>2. /\ disposition'.handle = nextWriter + 1
        /\ disposition'.batch = g
        /\ nextWriter' = nextWriter + 1
    BY <2>1, OpenFields
  <2>3. writers' = Append(writers, [handle |-> nextWriter + 1, generation |-> g])
    BY <1>4, <2>2 DEF OpenWriter
  <2>4. /\ Len(writers') = Len(writers) + 1
        /\ writers'[Len(writers) + 1] = [handle |-> nextWriter + 1, generation |-> g]
        /\ \A n \in 1 .. Len(writers) : writers'[n] = writers[n]
    BY <2>3, WriterTypes
  <2>5. ASSUME NEW n \in 1 .. Len(writers')
        PROVE  /\ writers'[n].handle <= nextWriter'
               /\ writers'[n].handle = disposition'.handle =>
                    writers'[n].generation = disposition'.batch
    <3>1. CASE n = Len(writers) + 1
      BY <2>2, <2>4, <3>1, WriterTypes
    <3>2. CASE n \in 1 .. Len(writers)
      <4>1. writers'[n] = writers[n]
        BY <2>4, <3>2
      <4>2. writers[n].handle <= nextWriter
        BY <3>2 DEF WriterHandles
      <4>3. writers[n].handle \in Nat /\ nextWriter \in Nat
        BY <3>2, WriterTypes
      <4>4. /\ writers[n].handle <= nextWriter + 1
            /\ writers[n].handle # nextWriter + 1
        BY <4>2, <4>3
      <4>. QED
        BY <2>2, <4>1, <4>4
    <3>. QED
      BY <2>4, <3>1, <3>2, WriterTypes
  <2>. QED
    BY <2>5 DEF WriterHandles
<1>5. ASSUME NEW w, NEW S, NEW kind, SetSelection(w, S, kind)
      PROVE  WriterHandles'
  <2>1. RecordTerminal(w, S, kind) /\ writers' = writers
    BY <1>5 DEF SetSelection, issuedVars
  <2>. QED
    BY <1>0, <1>1, <2>1, SelectionFields
<1>6. ASSUME NEW w, NEW g, NEW i \in Slot, NEW k, Retain(w, g, i, k)
      PROVE  WriterHandles'
  <2>1. RetainPacket(w, g, i, k) /\ writers' = writers
    BY <1>6 DEF Retain
  <2>. QED
    BY <1>0, <1>1, <2>1, RetainFields
<1>7. ASSUME NEW g, EndBatch(g)
      PROVE  WriterHandles'
  BY <1>2, <1>7 DEF EndBatch, issuedVars
<1>8. ASSUME NEW g, NEW i, Escape(g, i) \/ \E r : Mint(g, i, r)
      PROVE  WriterHandles'
  BY <1>2, <1>8 DEF Escape, Mint, issuedVars
<1>9. ASSUME NEW l, FinishLease(l)
      PROVE  WriterHandles'
  BY <1>2, <1>9 DEF FinishLease, issuedVars
<1>10. CASE UNCHANGED handleVars
  BY <1>2, <1>10 DEF handleVars, issuedVars
<1>. QED
  BY HandleSteps, <1>3, <1>4, <1>5, <1>6, <1>7, <1>8, <1>9, <1>10

-----------------------------------------------------------------------------
(* What the recorder, the slots and the pool say of each other, strong     *)
(* enough to be kept by every step: a batch without a recorder has no      *)
(* retained slot, no recorded lease is ahead of the pool, and nothing      *)
(* terminal is active even after the batch.                                *)
RecorderInv ==
  /\ WriterMatchesBatch
  /\ (liveGeneration # 0 /\ disposition.handle = 0) =>
       \A i \in 1 .. Len(slots) : slotAccess[i] # "retained"
  /\ \A i \in Slot :
       disposition.values[i].kind = "retain" =>
         /\ disposition.values[i].lease.index \in RecordIndex
         /\ disposition.values[i].lease.generation <= nextLeaseGeneration
         /\ disposition.values[i].lease.generation \in Nat
  /\ \A i \in disposition.active : disposition.values[i].kind = "continue"

(* What one recorded lease promises.                                       *)
RecordedLease(i) ==
  LET l == disposition.values[i].lease
  IN  LeaseLive(l) =>
        /\ records[l.index].token = slots[i]
        /\ records[l.index].batchGeneration = liveGeneration
        /\ records[l.index].packetIndex = i

LEMMA RecorderFrame ==
  ASSUME RecorderInv,
         UNCHANGED <<liveGeneration, slots, slotAccess, writerVars, poolVars>>
  PROVE  RecorderInv'
BY DEF RecorderInv, WriterMatchesBatch, LeaseLive, writerVars, poolVars

LEMMA RecorderBegin ==
  ASSUME TypeOK', NEW s, BeginBatch(s), RecorderInv
  PROVE  RecorderInv'
<1>1. /\ disposition'.handle = 0
      /\ disposition'.active = {}
      /\ \A i \in Slot : disposition'.values[i].kind = "continue"
  BY NoWriterFields DEF BeginBatch
<1>2. /\ slotAccess' = [i \in Slot |-> IF i <= Len(s) THEN "batch_owned"
                                                      ELSE "unavailable"]
      /\ slots' = s
  BY DEF BeginBatch, Begin
<1>3. 1 .. Len(slots') \subseteq Slot
  <2>1. Len(slots') <= MaxBatch /\ slots' \in Seq(Token)
    BY DEF TypeOK, OwnerTypeOK
  <2>. QED
    BY <2>1, BatchOwnerAssumption DEF Slot
<1>4. \A i \in 1 .. Len(slots') : slotAccess'[i] # "retained"
  BY <1>2, <1>3
<1>. QED
  BY <1>1, <1>4 DEF RecorderInv, WriterMatchesBatch

LEMMA RecorderOpen ==
  ASSUME TypeOK, RecorderInv, NEW g, OpenWriter(g)
  PROVE  RecorderInv'
<1>1. /\ InitWriter(g)
      /\ UNCHANGED <<liveGeneration, slots, slotAccess, records,
                     nextLeaseGeneration>>
  BY DEF OpenWriter, ownerVars, poolVars
<1>2. /\ disposition'.handle = nextWriter + 1
      /\ disposition'.batch = liveGeneration
      /\ disposition'.length = Len(slots)
      /\ disposition'.active = 1 .. Len(slots)
      /\ \A i \in Slot : disposition'.values[i].kind = "continue"
      /\ disposition.handle = 0
      /\ liveGeneration # 0
  BY <1>1, OpenFields
<1>3. \A i \in 1 .. Len(slots) : i \in Slot /\ slotAccess[i] # "retained"
  BY <1>2, SlotsAreSlots DEF RecorderInv
<1>4. nextWriter + 1 # 0
  BY WriterTypes
<1>5. disposition'.active
        = {i \in 1 .. Len(slots) : disposition'.values[i].kind = "continue"}
  BY <1>2, <1>3
<1>6. WriterMatchesBatch'
  BY <1>1, <1>2, <1>3, <1>5 DEF WriterMatchesBatch
<1>. QED
  BY <1>1, <1>2, <1>3, <1>4, <1>6 DEF RecorderInv

LEMMA RecorderSelection ==
  ASSUME TypeOK, RecorderInv, NEW w, NEW S, NEW kind, SetSelection(w, S, kind)
  PROVE  RecorderInv'
<1>1. /\ RecordTerminal(w, S, kind)
      /\ UNCHANGED <<liveGeneration, slots, slotAccess, records,
                     nextLeaseGeneration>>
  BY DEF SetSelection, ownerVars, poolVars
<1>2. WriterTypeOK
  BY DEF TypeOK
<1>3. /\ disposition'.handle = disposition.handle
      /\ disposition'.batch = disposition.batch
      /\ disposition'.length = disposition.length
      /\ disposition'.active = disposition.active \ S
      /\ \A i \in S : disposition'.values[i] = [kind |-> kind]
      /\ \A i \in Slot \ S : disposition'.values[i] = disposition.values[i]
      /\ S \subseteq disposition.active
      /\ S \subseteq Slot
      /\ kind \in Terminal
  BY <1>1, <1>2, SelectionFields
<1>4. kind # "continue" /\ kind # "retain"
  BY <1>3, DispositionWriterAssumption
<1>5. \A i \in S : /\ disposition'.values[i].kind = kind
                   /\ disposition.values[i].kind = "continue"
  BY <1>3 DEF RecorderInv
<1>6. ASSUME NEW i \in Slot, disposition'.values[i].kind = "retain"
      PROVE  i \notin S /\ disposition'.values[i] = disposition.values[i]
  BY <1>3, <1>4, <1>5, <1>6
<1>7. ASSUME liveGeneration # 0, disposition.handle # 0
      PROVE  /\ disposition'.active
                  = {i \in 1 .. Len(slots) : disposition'.values[i].kind = "continue"}
             /\ \A i \in 1 .. Len(slots) :
                  /\ disposition'.values[i].kind = "retain"
                       <=> slotAccess[i] = "retained"
                  /\ disposition'.values[i].kind = "retain" =>
                       RecordedLease(i)'
  <2>1. /\ disposition.active
             = {i \in 1 .. Len(slots) : disposition.values[i].kind = "continue"}
        /\ \A i \in 1 .. Len(slots) :
             /\ disposition.values[i].kind = "retain" <=> slotAccess[i] = "retained"
             /\ disposition.values[i].kind = "retain" => RecordedLease(i)
    BY <1>7 DEF RecorderInv, WriterMatchesBatch, RecordedLease
  <2>2. 1 .. Len(slots) \subseteq Slot
    BY SlotsAreSlots
  <2>3. disposition'.active
          = {i \in 1 .. Len(slots) : disposition'.values[i].kind = "continue"}
    BY <1>3, <1>4, <1>5, <2>1, <2>2
  <2>4. ASSUME NEW i \in 1 .. Len(slots)
        PROVE  disposition'.values[i].kind = "retain"
                 <=> slotAccess[i] = "retained"
    BY <1>3, <1>4, <1>5, <2>1, <2>2
  <2>5. ASSUME NEW i \in 1 .. Len(slots), disposition'.values[i].kind = "retain"
        PROVE  RecordedLease(i)'
    <3>1. disposition'.values[i] = disposition.values[i]
      BY <1>6, <2>2, <2>5
    <3>2. RecordedLease(i)
      BY <2>1, <2>5, <3>1
    <3>. QED
      BY <1>1, <3>1, <3>2 DEF RecordedLease, LeaseLive
  <2>. QED
    BY <2>3, <2>4, <2>5
<1>8. WriterMatchesBatch'
  BY <1>1, <1>3, <1>7 DEF WriterMatchesBatch, RecordedLease, RecorderInv
<1>9. (liveGeneration' # 0 /\ disposition'.handle = 0) =>
         \A i \in 1 .. Len(slots') : slotAccess'[i] # "retained"
  BY <1>1, <1>3 DEF RecorderInv
<1>10. ASSUME NEW i \in Slot, disposition'.values[i].kind = "retain"
       PROVE  /\ disposition'.values[i].lease.index \in RecordIndex
              /\ disposition'.values[i].lease.generation <= nextLeaseGeneration'
              /\ disposition'.values[i].lease.generation \in Nat
  BY <1>1, <1>6, <1>10 DEF RecorderInv
<1>11. ASSUME NEW i \in disposition'.active
       PROVE  disposition'.values[i].kind = "continue"
  <2>1. i \in disposition.active /\ i \in Slot /\ i \notin S
    BY <1>2, <1>3, <1>11 DEF WriterTypeOK, Disposition
  <2>. QED
    BY <1>3, <2>1 DEF RecorderInv
<1>. QED
  BY <1>8, <1>9, <1>10, <1>11 DEF RecorderInv

LEMMA RecorderRetain ==
  ASSUME TypeOK, RecorderInv,
         NEW w, NEW g, NEW i \in Slot, NEW k \in RecordIndex, Retain(w, g, i, k)
  PROVE  RecorderInv'
<1> DEFINE record == [generation |-> nextLeaseGeneration + 1,
                      state |-> "live",
                      batchGeneration |-> liveGeneration,
                      packetIndex |-> i,
                      token |-> slots[i]]
<1>1. /\ RetainPacket(w, g, i, k)
      /\ AcquireBound(g, i, k)
      /\ liveGeneration # 0
      /\ i \in 1 .. Len(slots)
  BY DEF Retain, RetainPacket, WriterLive, AcquireBound, Resolves
<1>2. /\ liveGeneration' = liveGeneration
      /\ slots' = slots
      /\ slotAccess' = [slotAccess EXCEPT ![i] = "retained"]
      /\ nextLeaseGeneration' = nextLeaseGeneration + 1
      /\ records' = [records EXCEPT ![k] = record]
  BY <1>1 DEF AcquireBound, SurrenderSlot
<1> HIDE DEF record
<1>3. WriterTypeOK
  BY DEF TypeOK
<1>4. /\ disposition'.handle = disposition.handle
      /\ disposition'.batch = disposition.batch
      /\ disposition'.length = disposition.length
      /\ disposition'.active = disposition.active \ {i}
      /\ disposition'.values[i] =
           [kind |-> "retain",
            lease |-> [index |-> k, generation |-> nextLeaseGeneration']]
      /\ \A j \in Slot : j # i => disposition'.values[j] = disposition.values[j]
      /\ disposition.values[i].kind = "continue"
      /\ disposition.handle # 0
  <2>1. RetainPacket(w, g, i, k)
    BY <1>1
  <2>. QED
    BY <1>3, <2>1, RetainFields
<1>5. /\ records'[k] = record
      /\ \A j \in RecordIndex \ {k} : records'[j] = records[j]
      /\ nextLeaseGeneration \in Nat
  BY <1>2, LeaseTypes
<1>6. /\ slotAccess'[i] = "retained"
      /\ \A j \in Slot \ {i} : slotAccess'[j] = slotAccess[j]
  <2>1. slotAccess \in [Slot -> SlotAccess]
    BY DEF TypeOK, WriterTypeOK, OwnerTypeOK
  <2>. QED
    BY <1>2, <2>1
<1>7. /\ disposition'.values[i].kind = "retain"
      /\ disposition'.values[i].lease.index = k
      /\ disposition'.values[i].lease.generation = nextLeaseGeneration + 1
  BY <1>2, <1>4
<1>8. /\ disposition.active
           = {j \in 1 .. Len(slots) : disposition.values[j].kind = "continue"}
      /\ disposition.batch = liveGeneration
      /\ disposition.length = Len(slots)
      /\ \A j \in 1 .. Len(slots) :
           /\ disposition.values[j].kind = "retain" <=> slotAccess[j] = "retained"
           /\ disposition.values[j].kind = "retain" => RecordedLease(j)
  BY <1>1, <1>4 DEF RecorderInv, WriterMatchesBatch, RecordedLease
<1>9. 1 .. Len(slots) \subseteq Slot
  BY SlotsAreSlots
<1>10. disposition'.active
         = {j \in 1 .. Len(slots) : disposition'.values[j].kind = "continue"}
  BY <1>4, <1>7, <1>8, <1>9
<1>11. \A j \in 1 .. Len(slots) :
         disposition'.values[j].kind = "retain" <=> slotAccess'[j] = "retained"
  BY <1>4, <1>6, <1>7, <1>8, <1>9
<1>12. RecordedLease(i)'
  <2>1. /\ records'[k].token = slots[i]
        /\ records'[k].batchGeneration = liveGeneration
        /\ records'[k].packetIndex = i
    BY <1>5 DEF record
  <2>. QED
    BY <1>2, <1>7, <2>1 DEF RecordedLease
<1>13. ASSUME NEW j \in 1 .. Len(slots), j # i,
              disposition'.values[j].kind = "retain"
       PROVE  RecordedLease(j)'
  <2>1. j \in Slot /\ disposition'.values[j] = disposition.values[j]
    BY <1>4, <1>9, <1>13
  <2> DEFINE l == disposition.values[j].lease
  <2>2. RecordedLease(j)
    BY <1>8, <1>13, <2>1
  <2>3. /\ l.index \in RecordIndex
        /\ l.generation <= nextLeaseGeneration
        /\ l.generation \in Nat
    BY <1>13, <2>1 DEF RecorderInv
  <2>4. CASE l.index = k
    <3>1. records'[l.index].generation = nextLeaseGeneration + 1
      BY <1>5, <2>4 DEF record
    <3>2. records'[l.index].generation # l.generation
      BY <1>5, <2>3, <3>1
    <3>. QED
      BY <2>1, <3>2 DEF RecordedLease, LeaseLive
  <2>5. CASE l.index # k
    <3>1. records'[l.index] = records[l.index]
      BY <1>5, <2>3, <2>5
    <3>. QED
      BY <1>2, <2>1, <2>2, <3>1 DEF RecordedLease, LeaseLive
  <2>. QED
    BY <2>4, <2>5
<1>14. WriterMatchesBatch'
  BY <1>2, <1>4, <1>8, <1>10, <1>11, <1>12, <1>13
     DEF WriterMatchesBatch, RecordedLease
<1>15. ASSUME NEW j \in Slot, disposition'.values[j].kind = "retain"
       PROVE  /\ disposition'.values[j].lease.index \in RecordIndex
              /\ disposition'.values[j].lease.generation <= nextLeaseGeneration'
              /\ disposition'.values[j].lease.generation \in Nat
  <2>1. CASE j = i
    BY <1>2, <1>5, <1>7, <2>1
  <2>2. CASE j # i
    <3>1. disposition'.values[j] = disposition.values[j]
      BY <1>4, <2>2
    <3>2. /\ disposition.values[j].lease.index \in RecordIndex
          /\ disposition.values[j].lease.generation <= nextLeaseGeneration
          /\ disposition.values[j].lease.generation \in Nat
      BY <1>15, <3>1 DEF RecorderInv
    <3>. QED
      BY <1>2, <1>5, <3>1, <3>2
  <2>. QED
    BY <2>1, <2>2
<1>16. \A j \in disposition'.active : disposition'.values[j].kind = "continue"
  BY <1>10
<1>. QED
  BY <1>4, <1>14, <1>15, <1>16 DEF RecorderInv

LEMMA RecorderFinish ==
  ASSUME TypeOK, RecorderInv, NEW l \in IssuedLease, FinishLease(l)
  PROVE  RecorderInv'
<1>1. /\ records' = [records EXCEPT ![l.index].state = "completed"]
      /\ nextLeaseGeneration' = nextLeaseGeneration
      /\ UNCHANGED <<liveGeneration, slots, slotAccess, disposition>>
  BY DEF FinishLease, CompleteLease, ownerVars, writerVars
<1>2. \A k \in RecordIndex :
        /\ records'[k].generation = records[k].generation
        /\ records'[k].token = records[k].token
        /\ records'[k].batchGeneration = records[k].batchGeneration
        /\ records'[k].packetIndex = records[k].packetIndex
        /\ records'[k].state = "live" => records[k].state = "live"
  BY <1>1, LeaseTypes DEF RetentionRecord
<1>3. ASSUME NEW i \in 1 .. Len(slots),
             disposition.values[i].kind = "retain", RecordedLease(i)
      PROVE  RecordedLease(i)'
  <2>1. disposition.values[i].lease.index \in RecordIndex
    BY <1>3, SlotsAreSlots DEF RecorderInv
  <2>. QED
    BY <1>1, <1>2, <1>3, <2>1 DEF RecordedLease, LeaseLive
<1>4. WriterMatchesBatch'
  BY <1>1, <1>3 DEF RecorderInv, WriterMatchesBatch, RecordedLease
<1>. QED
  BY <1>1, <1>4 DEF RecorderInv

LEMMA RecorderStep ==
  ASSUME TypeOK, TypeOK', RecorderInv, [Next]_vars
  PROVE  RecorderInv'
<1>1. ASSUME NEW g, EndBatch(g)
      PROVE  RecorderInv'
  <2>1. /\ liveGeneration' = 0
        /\ UNCHANGED <<disposition, nextLeaseGeneration>>
    BY <1>1 DEF EndBatch, Invalidate, writerVars, poolVars
  <2>. QED
    BY <2>1 DEF RecorderInv, WriterMatchesBatch
<1>2. ASSUME NEW g, NEW i, Escape(g, i) \/ \E r : Mint(g, i, r)
      PROVE  RecorderInv'
  <2>1. UNCHANGED <<liveGeneration, slots, slotAccess, writerVars, poolVars>>
    BY <1>2 DEF Escape, Mint, MintRaw
  <2>. QED
    BY <2>1, RecorderFrame
<1>3. CASE UNCHANGED handleVars
  BY <1>3, RecorderFrame DEF handleVars
<1>. QED
  BY HandleSteps, RecorderBegin, RecorderOpen, RecorderSelection,
     RecorderRetain, RecorderFinish, <1>1, <1>2, <1>3

(* Why a handle that is live reaches what it was issued for.               *)
HandleInv == BatchHandles /\ WriterHandles /\ LeaseHandles /\ RecorderInv

LEMMA HandleInvariant == Spec => []HandleInv
<1>1. Init => HandleInv
  <2>. SUFFICES ASSUME Init PROVE HandleInv
    OBVIOUS
  <2>1. Len(batches) = 0 /\ Len(writers) = 0 /\ Len(leases) = 0
    BY DEF Init
  <2>2. BatchHandles /\ WriterHandles /\ LeaseHandles
    BY <2>1 DEF BatchHandles, WriterHandles, LeaseHandles
  <2>3. disposition = NoWriter /\ liveGeneration = 0
    BY DEF Init, WriterInit, OwnerInit
  <2>4. RecorderInv
    BY <2>3, NoWriterFields DEF RecorderInv, WriterMatchesBatch
  <2>. QED
    BY <2>2, <2>4 DEF HandleInv
<1>2. TypeOK /\ TypeOK' /\ HandleInv /\ [Next]_vars => HandleInv'
  BY BatchHandlesStep, WriterHandlesStep, LeaseHandlesStep, RecorderStep
     DEF HandleInv
<1>. QED
  BY <1>1, <1>2, TypeCorrect, PTL DEF Spec

(* A kept handle of an ended batch, a closed recorder or a completed lease *)
(* reaches nothing, and a live one reaches what it was issued for: a view  *)
(* the packet of its own batch, a recorder its own batch, a lease the      *)
(* token it was made for though its record has been reused.                *)
THEOREM HandlesStayStale == Spec => []StaleHandleNeverResolves
<1>1. TypeOK /\ HandleInv => StaleHandleNeverResolves
  <2>. SUFFICES ASSUME TypeOK, HandleInv PROVE StaleHandleNeverResolves
    OBVIOUS
  <2>1. WriterMatchesBatch
    BY DEF HandleInv, RecorderInv
  <2>2. ASSUME NEW n \in 1 .. Len(batches), NEW i \in Slot,
               Resolves(batches[n].generation, i)
        PROVE  i <= Len(batches[n].slots) /\ batches[n].slots[i] = slots[i]
    <3>1. batches[n].slots = slots /\ i \in 1 .. Len(slots)
      BY <2>2 DEF HandleInv, BatchHandles, Resolves, BatchLive
    <3>. QED
      BY <3>1, SlotsAreSlots
  <2>3. ASSUME NEW n \in 1 .. Len(writers), WriterLive(writers[n].handle)
        PROVE  BatchLive(writers[n].generation)
    BY <2>3 DEF HandleInv, WriterHandles, WriterLive, BatchLive
  <2>4. ASSUME NEW n \in 1 .. Len(leases), LeaseLive(leases[n].lease)
        PROVE  records[leases[n].lease.index].token = leases[n].token
    BY <2>4 DEF HandleInv, LeaseHandles, LeaseLive
  <2>. QED
    BY <2>1, <2>2, <2>3, <2>4 DEF StaleHandleNeverResolves
<1>. QED
  BY <1>1, HandleInvariant, TypeCorrect, PTL

(* INV-PKT-004: what the recorder says of a packet is never replaced while *)
(* the recorder lives, whether the packet is routed or retained, and the   *)
(* packet never becomes active again.                                      *)
THEOREM TerminalStands == Spec => TerminalIsFinal
<1> DEFINE Stands ==
      disposition.handle # 0 /\ disposition'.handle = disposition.handle =>
        \A i \in Slot : disposition.values[i].kind # "continue" =>
          /\ disposition'.values[i] = disposition.values[i]
          /\ i \notin disposition'.active
<1>1. ASSUME TypeOK, HandleInv, [Next]_vars
      PROVE  Stands
  <2>1. WriterTypeOK /\ \A i \in disposition.active :
                          disposition.values[i].kind = "continue"
    BY <1>1 DEF TypeOK, HandleInv, RecorderInv
  <2>2. CASE disposition' = disposition
    BY <2>1, <2>2
  <2>3. ASSUME NEW s, BeginBatch(s)
        PROVE  Stands
    BY <2>3, NoWriterFields DEF BeginBatch
  <2>4. ASSUME NEW g, OpenWriter(g)
        PROVE  Stands
    BY <2>4, OpenFields DEF OpenWriter
  <2>5. ASSUME NEW w, NEW S, NEW kind, SetSelection(w, S, kind)
        PROVE  Stands
    <3>1. RecordTerminal(w, S, kind)
      BY <2>5 DEF SetSelection
    <3>2. /\ disposition'.active = disposition.active \ S
          /\ \A i \in Slot \ S : disposition'.values[i] = disposition.values[i]
          /\ S \subseteq disposition.active
      BY <2>1, <3>1, SelectionFields
    <3>. QED
      BY <2>1, <3>2
  <2>6. ASSUME NEW w, NEW g, NEW i \in Slot, NEW k, Retain(w, g, i, k)
        PROVE  Stands
    <3>1. RetainPacket(w, g, i, k)
      BY <2>6 DEF Retain
    <3>2. WriterTypeOK
      BY <2>1
    <3>3. /\ disposition'.handle = disposition.handle
          /\ disposition'.batch = disposition.batch
          /\ disposition'.length = disposition.length
          /\ disposition'.active = disposition.active \ {i}
          /\ disposition'.values[i] =
               [kind |-> "retain",
                lease |-> [index |-> k, generation |-> nextLeaseGeneration']]
          /\ \A j \in Slot : j # i => disposition'.values[j] = disposition.values[j]
          /\ disposition.values[i].kind = "continue"
          /\ disposition.handle # 0
          /\ nextWriter' = nextWriter
      BY <3>1, <3>2, RetainFields, Zenon
    <3>. QED
      BY <2>1, <3>3
  <2>7. CASE UNCHANGED writerVars
    BY <2>2, <2>7 DEF writerVars
  <2>8. ASSUME NEW g, EndBatch(g)
        PROVE  UNCHANGED writerVars
    BY <2>8 DEF EndBatch
  <2>9. ASSUME NEW g, NEW i, Escape(g, i) \/ \E r : Mint(g, i, r)
        PROVE  UNCHANGED writerVars
    BY <2>9 DEF Escape, Mint
  <2>10. ASSUME NEW l, FinishLease(l)
         PROVE  UNCHANGED writerVars
    BY <2>10 DEF FinishLease
  <2>11. UNCHANGED handleVars => UNCHANGED writerVars
    BY DEF handleVars
  <2> HIDE DEF Stands
  <2>. QED
    BY <1>1, HandleSteps, <2>3, <2>4, <2>5, <2>6, <2>7, <2>8, <2>9, <2>10, <2>11
<1>2. TypeOK /\ HandleInv /\ [Next]_vars => [Stands]_vars
  BY <1>1
<1>. QED
  BY <1>2, HandleInvariant, TypeCorrect, PTL DEF Spec, TerminalIsFinal
=============================================================================
