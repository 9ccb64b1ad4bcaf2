--------------------------- MODULE PacketOwnership ---------------------------
(***************************************************************************)
(* Everything that can hold a packet, together: the synthetic input queue  *)
(* and its token registry, one batch owner, the disposition writer of its  *)
(* batch, the retention pool and a synthetic output queue.                 *)
(*                                                                         *)
(* The callers of this library decide the order of calls, so Next allows   *)
(* every order, with stale handles included: a caller keeps every handle   *)
(* it was given and every slot it received.  A call that fails without     *)
(* changing state is not a step.                                           *)
(***************************************************************************)
EXTENDS DispositionWriter

CONSTANT OutputCapacity   \* observations.len of the output queue

ASSUME PacketOwnershipAssumption == OutputCapacity \in Nat

VARIABLES
  nextReceive,          \* InputQueue.next_receive
  observations,         \* OutputQueue.observations
  batches,              \* history: every batch handle issued and its slots
  writers,              \* history: every writer handle and its batch
  leases,               \* history: every lease handed out and its token
  rawHandles            \* history: every raw editor minted and its packet

issuedVars == <<batches, writers, leases, rawHandles>>

vars == <<trackerVars, ownerVars, poolVars, writerVars, nextReceive,
          observations, issuedVars>>

Observation == [token : Token, pending : BOOLEAN]

TypeOK ==
  /\ TrackerTypeOK
  /\ OwnerTypeOK
  /\ PoolTypeOK
  /\ WriterTypeOK
  /\ nextReceive \in 0 .. registered
  /\ observations \in Seq(Observation)
  /\ Len(observations) <= OutputCapacity
  /\ batches \in Seq([generation : 1 .. MaxGeneration, slots : Seq(Token)])
  /\ writers \in Seq([handle : 1 .. MaxWriterGeneration,
                      generation : 1 .. MaxGeneration])
  /\ leases \in Seq([lease : Lease, token : Token])
  /\ rawHandles \in Seq([value : RawToken, generation : 1 .. MaxGeneration,
                         slot : Slot, token : Token])

Init ==
  /\ TrackerInit
  /\ OwnerInit
  /\ PoolInit
  /\ WriterInit
  /\ nextReceive = 0
  /\ observations = << >>
  /\ batches = << >>
  /\ writers = << >>
  /\ leases = << >>
  /\ rawHandles = << >>

-----------------------------------------------------------------------------
(* The input queue. *)

(* enqueue *)
Enqueue ==
  /\ RegisterInput
  /\ UNCHANGED <<ownerVars, poolVars, writerVars, nextReceive, observations,
                 issuedVars>>

(* receive: the next count queued tokens, every one checked before the     *)
(* first changes.  An idle poll or a scripted failure changes nothing.     *)
Receive(count) ==
  /\ nextReceive + count <= registered
  /\ ReceiveTokens(nextReceive + 1 .. nextReceive + count)
  /\ nextReceive' = nextReceive + count
  /\ UNCHANGED <<ownerVars, poolVars, writerVars, observations, issuedVars>>

-----------------------------------------------------------------------------
(* The batch. *)

(* begin, over slots the caller received and still owns: the adapter and   *)
(* token contract of PacketSlot.                                           *)
BeginBatch(s) ==
  /\ \A i \in 1 .. Len(s) : tokenState[s[i]] = "worker_owned"
  /\ Begin(s)
  /\ disposition' = NoWriter
  /\ batches' = Append(batches, [generation |-> liveGeneration', slots |-> s])
  /\ UNCHANGED <<trackerVars, poolVars, nextWriter, nextReceive, observations,
                 writers, leases, rawHandles>>

EndBatch(g) ==
  /\ Invalidate(g)
  /\ UNCHANGED <<trackerVars, poolVars, writerVars, nextReceive, observations,
                 issuedVars>>

(* A call through a view, editor, iterator or output handle: only the      *)
(* owner changes.                                                          *)
PacketAccess(g, i) ==
  /\ \/ Borrow(g, i)
     \/ Edit(g, i)
     \/ Finalize(g, i)
     \/ MintRawFails(g, i)
  /\ UNCHANGED <<trackerVars, poolVars, writerVars, nextReceive, observations,
                 issuedVars>>

(* A raw editor with the value r for the packet in slot i. *)
OpenRawEditor(g, i, r) ==
  /\ MintRaw(g, i, r)
  /\ rawHandles' = Append(rawHandles, [value |-> r, generation |-> g,
                                       slot |-> i, token |-> slots[i]])
  /\ UNCHANGED <<trackerVars, poolVars, writerVars, nextReceive, observations,
                 batches, writers, leases>>

RawAccess(r) ==
  /\ RawWrite(r)
  /\ UNCHANGED <<trackerVars, poolVars, writerVars, nextReceive, observations,
                 issuedVars>>

-----------------------------------------------------------------------------
(* The disposition writer. *)

(* DispositionWriter.init *)
OpenWriter(g) ==
  /\ InitWriter(g)
  /\ writers' = Append(writers, [handle |-> disposition'.handle,
                                 generation |-> g])
  /\ UNCHANGED <<trackerVars, ownerVars, poolVars, nextReceive, observations,
                 batches, leases, rawHandles>>

(* set and setSelection through the writer handle w *)
SetSelection(w, S, kind) ==
  /\ RecordTerminal(w, S, kind)
  /\ UNCHANGED <<trackerVars, ownerVars, poolVars, nextReceive, observations,
                 issuedVars>>

(* DispositionWriter.retain *)
Retain(w, g, i, k) ==
  /\ RetainPacket(w, g, i, k)
  /\ leases' = Append(leases, [lease |-> AcquiredLease(k), token |-> slots[i]])
  /\ UNCHANGED <<nextReceive, observations, batches, writers, rawHandles>>

-----------------------------------------------------------------------------
(* Completion. *)

FinishLease(l) ==
  /\ CompleteLease(l)
  /\ UNCHANGED <<ownerVars, writerVars, nextReceive, observations, issuedVars>>

(* The caller gives a packet back through a slot it received. *)
GiveBack(t) ==
  /\ ReturnToInput(t)
  /\ UNCHANGED <<ownerVars, poolVars, writerVars, nextReceive, observations,
                 issuedVars>>

Observe(t, pending) ==
  observations' = Append(observations, [token |-> t, pending |-> pending])

(* submitBatch, accepted at once or with a delayed completion. *)
Submit(g, i) ==
  /\ ValidForOutput(g, i)
  /\ Len(observations) < OutputCapacity
  /\ MarkEscaped(i)
  /\ \/ SubmitOutput(slots[i]) /\ Observe(slots[i], TRUE)
     \/ SubmitAndComplete(slots[i]) /\ Observe(slots[i], FALSE)
  /\ UNCHANGED <<nextGeneration, liveGeneration, slots, slotAccess, journal,
                 authority, mintCounter, poolVars, writerVars, nextReceive,
                 issuedVars>>

(* submitBatch of a packet that is no longer worker-owned: the transition  *)
(* fails after the token was taken out of the output handle.               *)
SubmitFails(g, i) ==
  /\ ValidForOutput(g, i)
  /\ Len(observations) < OutputCapacity
  /\ tokenState[slots[i]] # "worker_owned"
  /\ MarkEscaped(i)
  /\ UNCHANGED <<trackerVars, nextGeneration, liveGeneration, slots,
                 slotAccess, journal, authority, mintCounter, poolVars,
                 writerVars, nextReceive, observations, issuedVars>>

(* OutputQueue.complete of one delayed observation. *)
OutputDone(n) ==
  /\ observations[n].pending
  /\ CompleteOutput(observations[n].token)
  /\ observations' = [observations EXCEPT ![n].pending = FALSE]
  /\ UNCHANGED <<ownerVars, poolVars, writerVars, nextReceive, issuedVars>>

-----------------------------------------------------------------------------
(* The handles callers hold, whatever has become of what they name. *)
IssuedGeneration == {batches[n].generation : n \in 1 .. Len(batches)}
IssuedWriter == {writers[n].handle : n \in 1 .. Len(writers)}
IssuedLease == {leases[n].lease : n \in 1 .. Len(leases)}
IssuedRaw == {rawHandles[n].value : n \in 1 .. Len(rawHandles)}

BatchSlots == UNION {[1 .. n -> 1 .. nextReceive] : n \in 0 .. MaxBatch}

Next ==
  \/ Enqueue
  \/ \E count \in 1 .. MaxBatch : Receive(count)
  \/ \E s \in BatchSlots : BeginBatch(s)
  \/ \E g \in IssuedGeneration : EndBatch(g) \/ OpenWriter(g)
  \/ \E g \in IssuedGeneration, i \in Slot :
       PacketAccess(g, i) \/ Submit(g, i) \/ SubmitFails(g, i)
  \/ \E g \in IssuedGeneration, i \in Slot, r \in RawToken :
       OpenRawEditor(g, i, r)
  \/ \E r \in IssuedRaw : RawAccess(r)
  \/ \E w \in IssuedWriter, S \in SUBSET Slot, kind \in Terminal :
       SetSelection(w, S, kind)
  \/ \E w \in IssuedWriter, g \in IssuedGeneration, i \in Slot,
        k \in RecordIndex : Retain(w, g, i, k)
  \/ \E l \in IssuedLease : FinishLease(l)
  \/ \E t \in 1 .. nextReceive : GiveBack(t)
  \/ \E n \in 1 .. Len(observations) : OutputDone(n)

Spec == Init /\ [][Next]_vars

-----------------------------------------------------------------------------
(***************************************************************************)
(* Safety.                                                                 *)
(***************************************************************************)

(* Tokens are registered and received in order: nothing is skipped, and    *)
(* nothing returns to the input queue.                                     *)
TokenCursors ==
  \A t \in Token :
    /\ tokenState[t] = "unregistered" <=> t > registered
    /\ tokenState[t] = "input_owned" <=> nextReceive < t /\ t <= registered

(* INV-PKT-001, counted: the two counters shutdown verification compares   *)
(* are the number of tokens that entered worker ownership and the number   *)
(* that left for good, whoever finished them.                              *)
CompletionAccounting ==
  /\ received = Cardinality({t \in Token :
                   tokenState[t] \in OutstandingState \cup FinalState})
  /\ finalCompletions = Cardinality({t \in Token : tokenState[t] \in FinalState})

(* What would complete token t: live records and pending observations. *)
LeaseHolders(t) ==
  {k \in RecordIndex : records[k].state = "live" /\ records[k].token = t}

OutputHolders(t) ==
  {n \in 1 .. Len(observations) :
     observations[n].pending /\ observations[n].token = t}

(* A token is retained exactly while one live record of the pool holds it: *)
(* no lease is lost, and no two leases promise to complete one token.      *)
LeaseHoldsToken ==
  \A t \in Token :
    /\ tokenState[t] = "retained" <=> LeaseHolders(t) # {}
    /\ \A j, k \in LeaseHolders(t) : j = k

(* A token is output-owned exactly while one pending observation holds it. *)
OutputHoldsToken ==
  \A t \in Token :
    /\ tokenState[t] = "output_owned" <=> OutputHolders(t) # {}
    /\ \A m, n \in OutputHolders(t) : m = n

(* Three ways to finish a token, by the caller, a lease or an output, and  *)
(* one account of them: none is lost and none is finished twice.           *)
TokensAccountedFor == CompletionAccounting /\ LeaseHoldsToken /\ OutputHoldsToken

(* A retained packet is out of reach of the batch it came from: no raw     *)
(* slice or token had escaped when it was retained or escapes later, and   *)
(* no raw editor minted for it still matches.                              *)
RetainedSlotSealed ==
  \A i \in 1 .. Len(slots) :
    slotAccess[i] = "retained" =>
      /\ ~ escaped[i]
      /\ \A r \in RawToken : i \notin RawMatches(r)

(* Raw handle n is the last one minted for its slot, whose packet is still *)
(* in the batch in progress.                                               *)
RawCurrent(n) ==
  /\ Resolves(rawHandles[n].generation, rawHandles[n].slot)
  /\ \A m \in n + 1 .. Len(rawHandles) :
       rawHandles[m].slot = rawHandles[n].slot =>
         rawHandles[m].generation # rawHandles[n].generation

(* A kept raw handle reaches slot i exactly when it is the last one minted *)
(* for that slot in the batch in progress, and then it reaches the packet  *)
(* it was minted for; or the hash has made its value again since, for a    *)
(* handle that is (see deriveRawCapabilityToken).                          *)
RawReachesItsPacket ==
  \A n \in 1 .. Len(rawHandles), i \in Slot :
    RawResolves(rawHandles[n].value, i) <=>
      \E m \in n .. Len(rawHandles) :
        /\ RawCurrent(m)
        /\ rawHandles[m].value = rawHandles[n].value
        /\ rawHandles[m].slot = i
        /\ rawHandles[m].token = slots[i]

(* A raw editor acts on the packet it was minted for or, if the hash makes *)
(* its value a second time, on that of the later mint, and on no packet    *)
(* that was retained, left with its batch or has a newer editor; and one   *)
(* just minted does work: no value is live twice.                          *)
RawAuthorityExact == RetainedSlotSealed /\ RawReachesItsPacket

(* The recorder of a live batch, the slot access of its owner and the pool *)
(* tell one story: active is what is not terminal, a packet is recorded as *)
(* retained exactly when its slot left the batch, and the lease recorded   *)
(* for it names the record made for it, for as long as that record lives.  *)
WriterMatchesBatch ==
  (liveGeneration # 0 /\ disposition.handle # 0) =>
    /\ disposition.batch = liveGeneration
    /\ disposition.length = Len(slots)
    /\ disposition.active =
         {i \in 1 .. Len(slots) : disposition.values[i].kind = "continue"}
    /\ \A i \in 1 .. Len(slots) :
         /\ disposition.values[i].kind = "retain"
              <=> slotAccess[i] = "retained"
         /\ disposition.values[i].kind = "retain" =>
              LET l == disposition.values[i].lease
              IN  LeaseLive(l) =>
                    /\ records[l.index].token = slots[i]
                    /\ records[l.index].batchGeneration = liveGeneration
                    /\ records[l.index].packetIndex = i

(* A handle reaches what it was issued for or nothing: a view of an ended  *)
(* batch never reads the packet of a later one, a kept writer never        *)
(* records for a later batch, and a completed lease never completes the    *)
(* token that reused its record.  A recorder that is live is the one of    *)
(* the batch in progress.                                                  *)
StaleHandleNeverResolves ==
  /\ WriterMatchesBatch
  /\ \A n \in 1 .. Len(batches), i \in Slot :
       Resolves(batches[n].generation, i) =>
         i <= Len(batches[n].slots) /\ batches[n].slots[i] = slots[i]
  /\ \A n \in 1 .. Len(writers) :
       WriterLive(writers[n].handle) => BatchLive(writers[n].generation)
  /\ \A n \in 1 .. Len(leases) :
       LeaseLive(leases[n].lease) =>
         records[leases[n].lease.index].token = leases[n].token

(* A terminal disposition is never replaced and its packet never becomes   *)
(* active again while the writer lives (INV-PKT-004).                      *)
TerminalIsFinal ==
  [][disposition.handle # 0 /\ disposition'.handle = disposition.handle =>
       \A i \in Slot : disposition.values[i].kind # "continue" =>
         /\ disposition'.values[i] = disposition.values[i]
         /\ i \notin disposition'.active]_vars

-----------------------------------------------------------------------------
(***************************************************************************)
(* Refinement.  Who holds a token is read from the things that would hand  *)
(* it on: a live lease record, a pending observation, the input queue's    *)
(* cursor; what is left is the worker's until it is final.                 *)
(***************************************************************************)
HolderOf(t) ==
  IF LeaseHolders(t) # {} THEN "lease"
  ELSE IF OutputHolders(t) # {} THEN "output"
  ELSE IF t > nextReceive THEN "input"
  ELSE IF tokenState[t] \in FinalState THEN "done"
  ELSE "worker"

Lifecycle == INSTANCE TokenLifecycle WITH
  holder <- [t \in Token |-> HolderOf(t)],
  clean <- ReceivedCompleted

(* Every token follows the lifecycle INV-PKT-001 promises, and shutdown    *)
(* verification succeeds exactly when nobody is left holding one.          *)
ImplementsLifecycle == Lifecycle!Spec
=============================================================================
