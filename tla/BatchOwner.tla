----------------------------- MODULE BatchOwner -----------------------------
(***************************************************************************)
(* One PacketBatchOwner: its batch generations, the access state of every  *)
(* slot, the escape flags, the raw-editor authorities and the outcome of   *)
(* the mutation journals.  Handles are scalars (identity, generation,      *)
(* index); a holder can keep one for ever, so every operation names the    *)
(* generation its handle carries and the owner decides.                    *)
(*                                                                         *)
(* Generations stop at MaxGeneration (2^56 - 1 in the code): begin then    *)
(* fails with GenerationExhausted.  The instances make that bound small.   *)
(***************************************************************************)
EXTENDS TokenTracker, Sequences, JournalOutcome

CONSTANTS
  MaxBatch,             \* max_batch: most slots of one batch
  MaxGeneration,        \* max_generation
  RawToken,             \* values deriveRawCapabilityToken can produce
  MaxMint,              \* last value of raw_capability_mint_counter
  ZeroChecksum          \* tokens whose frame, when a generation begins, parses
                        \* as IPv6 UDP with a checksum of zero

ASSUME BatchOwnerAssumption ==
  /\ MaxBatch \in Nat
  /\ MaxGeneration \in Nat
  /\ RawToken \subseteq Nat
  /\ MaxMint \in Nat
  /\ ZeroChecksum \in [1 .. MaxGeneration -> SUBSET Token]

VARIABLES
  nextGeneration,       \* last generation handed out
  liveGeneration,       \* generation in progress, 0 when none
  slots,                \* tokens of the batch in receive order
  slotAccess,           \* SlotAccess of every slot
  escaped,              \* nonrevocable_access_issued
  journal,              \* what the slot's MutationJournal lets an output see
  authority,            \* raw_capability_authorities
  mintCounter           \* raw_capability_mint_counter

ownerVars == <<nextGeneration, liveGeneration, slots, slotAccess, escaped,
               journal, authority, mintCounter>>

Slot == 1 .. MaxBatch

SlotAccess == {"unavailable", "batch_owned", "retained"}

NoAuthority == [token |-> {}, generation |-> 0]

Authority == [token : {{r} : r \in RawToken} \cup {{}},
              generation : 0 .. MaxGeneration]

OwnerTypeOK ==
  /\ nextGeneration \in 0 .. MaxGeneration
  /\ liveGeneration \in {0, nextGeneration}
  /\ slots \in Seq(Token)
  /\ Len(slots) <= MaxBatch
  /\ slotAccess \in [Slot -> SlotAccess]
  /\ escaped \in [Slot -> BOOLEAN]
  /\ journal \in [Slot -> Journal]
  /\ authority \in [Slot -> Authority]
  /\ mintCounter \in 0 .. MaxMint

OwnerInit ==
  /\ nextGeneration = 0
  /\ liveGeneration = 0
  /\ slots = << >>
  /\ slotAccess = [i \in Slot |-> "unavailable"]
  /\ escaped = [i \in Slot |-> FALSE]
  /\ journal = [i \in Slot |-> "clean"]
  /\ authority = [i \in Slot |-> NoAuthority]
  /\ mintCounter = 0

-----------------------------------------------------------------------------
(* ensureLive: the batch handle of generation g is the one in progress. *)
BatchLive(g) == g # 0 /\ liveGeneration = g

(* ensureViewLive, and ensureSlotBatchAccess after ensureLive: a handle of *)
(* generation g on slot i still reaches the packet.                        *)
Resolves(g, i) ==
  /\ BatchLive(g)
  /\ i \in 1 .. Len(slots)
  /\ slotAccess[i] = "batch_owned"

(* begin's receive-order check: token numbers are receive orders. *)
InReceiveOrder(s) == \A i \in 2 .. Len(s) : s[i - 1] < s[i]

(* begin: a new generation over the slots s. *)
Begin(s) ==
  /\ liveGeneration = 0
  /\ Len(s) <= MaxBatch
  /\ InReceiveOrder(s)
  /\ nextGeneration < MaxGeneration
  /\ nextGeneration' = nextGeneration + 1
  /\ liveGeneration' = nextGeneration + 1
  /\ slots' = s
  /\ slotAccess' = [i \in Slot |-> IF i <= Len(s) THEN "batch_owned"
                                                  ELSE "unavailable"]
  /\ escaped' = [i \in Slot |-> FALSE]
  /\ journal' = [i \in Slot |-> IF i <= Len(s) THEN "clean" ELSE journal[i]]
  /\ authority' = [i \in Slot |-> NoAuthority]
  /\ UNCHANGED mintCounter

(* invalidate: every handle of generation g stops resolving. *)
Invalidate(g) ==
  /\ BatchLive(g)
  /\ liveGeneration' = 0
  /\ UNCHANGED <<nextGeneration, slots, slotAccess, escaped, journal,
                 authority, mintCounter>>

(* A raw slice or the adapter token leaves through a view, an iterator or  *)
(* an output handle: markNonrevocableAccess.                               *)
MarkEscaped(i) == escaped' = [escaped EXCEPT ![i] = TRUE]

Borrow(g, i) ==
  /\ Resolves(g, i)
  /\ MarkEscaped(i)
  /\ UNCHANGED <<nextGeneration, liveGeneration, slots, slotAccess, journal,
                 authority, mintCounter>>

(* requireRevocable succeeds. *)
Revocable(g) ==
  BatchLive(g) /\ \A i \in 1 .. Len(slots) : ~ escaped[i]

-----------------------------------------------------------------------------
(* Journals: see JournalOutcome. *)
JournalStep(i, outcome) ==
  /\ journal' = [journal EXCEPT ![i] = outcome]
  /\ UNCHANGED <<nextGeneration, liveGeneration, slots, slotAccess, escaped,
                 authority, mintCounter>>

Edit(g, i) ==
  /\ Resolves(g, i)
  /\ \E outcome \in Written(journal[i]) : JournalStep(i, outcome)

Finalize(g, i) ==
  /\ Resolves(g, i)
  /\ \E outcome \in Finalized(journal[i]) : JournalStep(i, outcome)

(* validateForOutput succeeds on slot i: no zero checksum in what was      *)
(* received; a finalizer leaves none (PacketMutation, ReadyPacketsParse).  *)
ValidForOutput(g, i) ==
  /\ Resolves(g, i)
  /\ \/ journal[i] = "finalized"
     \/ journal[i] = "clean" /\ slots[i] \notin ZeroChecksum[g]

-----------------------------------------------------------------------------
(* Raw-editor authorities.  The derived token is a keyed hash of the mint  *)
(* counter, which never returns to a value: any member of RawToken may     *)
(* come out, one that came out before included.                            *)
RawAttempts == MaxBatch + 1

(* The token without its low bits, where a view handle has the generation. *)
RawPrefix(r) == r \div 2^8

(* Deviation: tokens in use are not looked for. *)
RawTokenAvailable_InUse(r) ==
  r # 0 /\ RawPrefix(r) > RawAttempts /\ RawPrefix(r) # liveGeneration

(* rawCapabilityTokenAvailable *)
RawTokenAvailable(r) ==
  /\ r # 0
  /\ RawPrefix(r) > RawAttempts
  /\ RawPrefix(r) # liveGeneration
  /\ \A i \in 1 .. Len(slots) : authority[i] # [token |-> {r},
                                                generation |-> liveGeneration]

(* unsafeRawEditorForTesting: the first available token within the attempt *)
(* budget, here r; every attempt spends one counter value.                 *)
MintRaw(g, i, r) ==
  /\ Resolves(g, i)
  /\ RawTokenAvailable(r)
  /\ authority' = [authority EXCEPT ![i] = [token |-> {r}, generation |-> g]]
  /\ \E attempts \in 1 .. RawAttempts :
       /\ attempts > 1 => \E q \in RawToken : ~ RawTokenAvailable(q)
       /\ mintCounter + attempts <= MaxMint
       /\ mintCounter' = mintCounter + attempts
  /\ UNCHANGED <<nextGeneration, liveGeneration, slots, slotAccess, escaped,
                 journal>>

(* Every attempt derived an unavailable token, or the counter ran out: the *)
(* call fails, the spent counter values stay spent.                        *)
MintRawFails(g, i) ==
  /\ Resolves(g, i)
  /\ mintCounter < MaxMint
  /\ \E q \in RawToken : ~ RawTokenAvailable(q)
  /\ mintCounter' = IF mintCounter + RawAttempts <= MaxMint
                      THEN mintCounter + RawAttempts
                      ELSE MaxMint
  /\ UNCHANGED <<nextGeneration, liveGeneration, slots, slotAccess, escaped,
                 journal, authority>>

(* The slots whose authority a raw handle carrying r matches. *)
RawMatches(r) ==
  {i \in 1 .. Len(slots) :
     authority[i] = [token |-> {r}, generation |-> liveGeneration]}

(* rawEditorContext accepts the handle for slot i. *)
RawResolves(r, i) ==
  /\ liveGeneration # 0
  /\ RawMatches(r) = {i}
  /\ slotAccess[i] = "batch_owned"

RawWrite(r) ==
  \E i \in Slot :
    /\ RawResolves(r, i)
    /\ \E outcome \in Written(journal[i]) : JournalStep(i, outcome)

(* The owner-side half of a retention: the slot leaves the batch and its   *)
(* raw authority goes with it.                                             *)
SurrenderSlot(i) ==
  /\ slotAccess' = [slotAccess EXCEPT ![i] = "retained"]
  /\ authority' = [authority EXCEPT ![i] = NoAuthority]
  /\ UNCHANGED <<nextGeneration, liveGeneration, slots, escaped, journal,
                 mintCounter>>
=============================================================================
