---------------------------- MODULE OwnerLifetimes ----------------------------
(***************************************************************************)
(* Batch owners across their lifetimes.  An owner is memory at an address: *)
(* it is destroyed and another one built in the same place while callers   *)
(* keep handles of the first.  A handle carries the owner's identity and   *)
(* a generation of that owner; both count from one in every owner, so the  *)
(* identity is all that tells the two lifetimes apart.  Owners are built   *)
(* by several threads at once.                                             *)
(***************************************************************************)
EXTENDS IdentityAllocator

CONSTANTS
  Address,
  MaxGeneration         \* max_generation of an owner

ASSUME OwnerLifetimesAssumption == MaxGeneration \in Nat

VARIABLES
  owner,                \* the owner at an address
  place,                \* where a thread inside init is building
  lifetime,             \* history: owners built so far at an address
  handles               \* history: every batch handle issued

vars == <<allocatorVars, owner, place, lifetime, handles>>

NoOwner == [identity |-> 0, nextGeneration |-> 0, liveGeneration |-> 0]

Owner == [identity : 0 .. MaxIdentity,
          nextGeneration : 0 .. MaxGeneration,
          liveGeneration : 0 .. MaxGeneration]

(* identity and generation are the handle; where and which lifetime are    *)
(* what it ought to mean.                                                  *)
Handle == [identity : Identity, generation : 1 .. MaxGeneration,
           address : Address, lifetime : 1 .. MaxIdentity]

Alive(a) == owner[a].identity # 0

TypeOK ==
  /\ AllocatorTypeOK
  /\ owner \in [Address -> Owner]
  /\ place \in [Thread -> Address]
  /\ lifetime \in [Address -> 0 .. MaxIdentity]
  /\ handles \subseteq Handle

Init ==
  /\ AllocatorInit
  /\ owner = [a \in Address |-> NoOwner]
  /\ place \in [Thread -> Address]
  /\ lifetime = [a \in Address |-> 0]
  /\ handles = {}

(* init: memory for the owner, then the identity. *)
InitStart(t, a) ==
  /\ ~ Alive(a)
  /\ \A u \in allocating : place[u] # a
  /\ Load(t)
  /\ place' = [place EXCEPT ![t] = a]
  /\ UNCHANGED <<owner, lifetime, handles>>

InitRetry(t) ==
  /\ ExchangeFails(t)
  /\ UNCHANGED <<owner, place, lifetime, handles>>

(* The identity is taken and the secret filled: the owner exists. *)
InitDone(t) ==
  /\ Exchange(t)
  /\ owner' = [owner EXCEPT ![place[t]] = [NoOwner EXCEPT !.identity = NextIdentity(t)]]
  /\ lifetime' = [lifetime EXCEPT ![place[t]] = @ + 1]
  /\ UNCHANGED <<place, handles>>

(* The entropy source fails after the identity was taken: the memory is    *)
(* released and the identity spent.                                        *)
InitNoEntropy(t) ==
  /\ Exchange(t)
  /\ UNCHANGED <<owner, place, lifetime, handles>>

InitExhausted(t) ==
  /\ Exhausted(t)
  /\ UNCHANGED <<owner, place, lifetime, handles>>

(* begin *)
Begin(a) ==
  /\ Alive(a)
  /\ owner[a].liveGeneration = 0
  /\ owner[a].nextGeneration < MaxGeneration
  /\ owner' = [owner EXCEPT ![a] =
                 [identity |-> owner[a].identity,
                  nextGeneration |-> owner[a].nextGeneration + 1,
                  liveGeneration |-> owner[a].nextGeneration + 1]]
  /\ handles' = handles \cup {[identity |-> owner[a].identity,
                               generation |-> owner[a].nextGeneration + 1,
                               address |-> a,
                               lifetime |-> lifetime[a]]}
  /\ UNCHANGED <<allocatorVars, place, lifetime>>

(* ensureLive: the owner at a accepts the handle h. *)
HandleLive(h, a) ==
  /\ Alive(a)
  /\ h.identity = owner[a].identity
  /\ h.generation = owner[a].liveGeneration

(* invalidate *)
Invalidate(h, a) ==
  /\ HandleLive(h, a)
  /\ owner' = [owner EXCEPT ![a].liveGeneration = 0]
  /\ UNCHANGED <<allocatorVars, place, lifetime, handles>>

(* deinit, which asks for nothing: a batch may be in progress. *)
Deinit(a) ==
  /\ Alive(a)
  /\ owner' = [owner EXCEPT ![a] = NoOwner]
  /\ UNCHANGED <<allocatorVars, place, lifetime, handles>>

Next ==
  \/ \E t \in Thread, a \in Address : InitStart(t, a)
  \/ \E t \in Thread :
       InitRetry(t) \/ InitDone(t) \/ InitNoEntropy(t) \/ InitExhausted(t)
  \/ \E a \in Address : Begin(a) \/ Deinit(a)
  \/ \E h \in handles, a \in Address : Invalidate(h, a)

Spec == Init /\ [][Next]_vars

-----------------------------------------------------------------------------
(* A handle is accepted by the owner that issued it and by no other, not   *)
(* even one built later in the same memory with the same generation.       *)
HandleNamesItsOwner ==
  \A h \in handles, a \in Address :
    HandleLive(h, a) => a = h.address /\ lifetime[a] = h.lifetime
=============================================================================
