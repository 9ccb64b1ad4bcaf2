------------------------ MODULE OwnerLifetimes_proofs ------------------------
(***************************************************************************)
(* Theorems about OwnerLifetimes, for every number of threads, addresses   *)
(* and identities.                                                         *)
(***************************************************************************)
EXTENDS OwnerLifetimes, TLAPS

(* What one step of the identity loop gives.                               *)
AllocatorInv == AllocatorTypeOK /\ NothingAhead

(* An exchange that succeeds returns an identity nobody has seen. *)
LEMMA ExchangeIsFresh ==
  ASSUME AllocatorInv, NEW t \in Thread, Exchange(t)
  PROVE  /\ NextIdentity(t) = counter + 1
         /\ NextIdentity(t) \in Identity
         /\ counter \in Nat
         /\ counter' = counter + 1
         /\ t \in allocating
         /\ allocating' = allocating \ {t}
         /\ AllocatorInv'
BY IdentityAllocatorAssumption
   DEF AllocatorInv, AllocatorTypeOK, NothingAhead, Exchange, NextIdentity,
       Identity

(* The other steps hand nothing out. *)
LEMMA AllocatorSteps ==
  ASSUME AllocatorInv, NEW t \in Thread,
         Load(t) \/ ExchangeFails(t) \/ Exhausted(t)
  PROVE  counter' = counter /\ AllocatorInv'
BY IdentityAllocatorAssumption
   DEF AllocatorInv, AllocatorTypeOK, NothingAhead, Load, ExchangeFails,
       Exhausted

(* Nothing refers to an identity that was not handed out yet, an identity  *)
(* has one owner, and a handle carrying the identity of an owner was       *)
(* issued by it.                                                           *)
LifetimeInv ==
  /\ TypeOK
  /\ NothingAhead
  /\ \A a \in Address : owner[a].identity <= counter /\ lifetime[a] <= counter
  /\ \A h \in handles : h.identity <= counter
  /\ \A a, b \in Address :
       Alive(a) /\ owner[a].identity = owner[b].identity => a = b
  /\ \A h \in handles, a \in Address :
       h.identity = owner[a].identity =>
         a = h.address /\ h.lifetime = lifetime[a]
  /\ \A a \in Address : Alive(a) => lifetime[a] # 0

LEMMA InitLifetime == Init => LifetimeInv
BY IdentityAllocatorAssumption, OwnerLifetimesAssumption
   DEF Init, AllocatorInit, LifetimeInv, TypeOK, AllocatorTypeOK, NothingAhead,
       NoOwner, Owner, Alive

(* A newly built owner replaces whatever was at its address. *)
LEMMA InitDoneLifetime ==
  ASSUME LifetimeInv, NEW t \in Thread, InitDone(t)
  PROVE  LifetimeInv'
<1>1. PICK a \in Address : a = place[t]
  BY DEF LifetimeInv, TypeOK
<1>2. /\ NextIdentity(t) = counter + 1
      /\ NextIdentity(t) \in Identity
      /\ counter' = counter + 1
      /\ AllocatorInv'
      /\ counter \in Nat
  BY ExchangeIsFresh DEF InitDone, LifetimeInv, TypeOK, AllocatorInv
<1>3. [NoOwner EXCEPT !.identity = NextIdentity(t)]
        = [identity |-> counter + 1, nextGeneration |-> 0, liveGeneration |-> 0]
  BY <1>2 DEF NoOwner
<1>4. /\ owner' = [owner EXCEPT ![a] = [identity |-> counter + 1,
                                        nextGeneration |-> 0,
                                        liveGeneration |-> 0]]
      /\ lifetime' = [lifetime EXCEPT ![a] = lifetime[a] + 1]
      /\ place' = place /\ handles' = handles
  BY <1>1, <1>3 DEF InitDone
<1>5. counter + 1 \in 0 .. MaxIdentity
  BY <1>2, IdentityAllocatorAssumption DEF Identity
<1>6. /\ owner'[a].identity = counter + 1
      /\ lifetime'[a] = lifetime[a] + 1
      /\ \A b \in Address \ {a} :
           owner'[b] = owner[b] /\ lifetime'[b] = lifetime[b]
  BY <1>4 DEF LifetimeInv, TypeOK
<1>7. TypeOK'
  <2>1. owner' \in [Address -> Owner]
    BY <1>4, <1>5, OwnerLifetimesAssumption DEF LifetimeInv, TypeOK, Owner
  <2>2. lifetime' \in [Address -> 0 .. MaxIdentity]
    BY <1>4, <1>5, <1>2, IdentityAllocatorAssumption
       DEF LifetimeInv, TypeOK
  <2>. QED
    BY <1>2, <1>4, <2>1, <2>2 DEF LifetimeInv, TypeOK, AllocatorInv
<1>8. \A b \in Address : owner[b].identity \in Nat /\ lifetime[b] \in Nat
  BY DEF LifetimeInv, TypeOK, Owner
<1>9. \A h \in handles : h.identity \in Nat
  BY DEF LifetimeInv, TypeOK, Handle, Identity
<1>. QED
  BY <1>2, <1>4, <1>6, <1>7, <1>8, <1>9 DEF LifetimeInv, Alive, AllocatorInv

(* begin, with the handle it issues. *)
LEMMA BeginLifetime ==
  ASSUME LifetimeInv, NEW a \in Address, Begin(a)
  PROVE  LifetimeInv'
<1>1. owner[a] \in Owner /\ owner[a].identity # 0
  BY DEF LifetimeInv, TypeOK, Begin, Alive
<1>2. owner[a].nextGeneration + 1 \in 1 .. MaxGeneration
  BY <1>1, OwnerLifetimesAssumption DEF Begin, Owner
<1>3. PICK o \in Owner :
        /\ o.identity = owner[a].identity
        /\ owner' = [owner EXCEPT ![a] = o]
  <2> DEFINE o == [identity |-> owner[a].identity,
                   nextGeneration |-> owner[a].nextGeneration + 1,
                   liveGeneration |-> owner[a].nextGeneration + 1]
  <2>1. o \in Owner /\ o.identity = owner[a].identity
    BY <1>1, <1>2 DEF Owner
  <2>2. owner' = [owner EXCEPT ![a] = o]
    BY DEF Begin
  <2>. QED
    BY <2>1, <2>2
<1>4. PICK h \in Handle :
        /\ h.identity = owner[a].identity
        /\ h.address = a /\ h.lifetime = lifetime[a]
        /\ handles' = handles \cup {h}
  <2> DEFINE h == [identity |-> owner[a].identity,
                   generation |-> owner[a].nextGeneration + 1,
                   address |-> a, lifetime |-> lifetime[a]]
  <2>1. h \in Handle
    BY <1>1, <1>2, IdentityAllocatorAssumption
       DEF Handle, Owner, Identity, LifetimeInv, TypeOK, Alive
  <2>2. handles' = handles \cup {h}
    BY DEF Begin
  <2>. QED
    BY <2>1, <2>2
<1>5. /\ \A b \in Address : owner'[b].identity = owner[b].identity
      /\ lifetime' = lifetime /\ place' = place
      /\ UNCHANGED <<counter, allocating, current>>
  BY <1>3 DEF LifetimeInv, TypeOK, Begin, allocatorVars
<1>6. TypeOK'
  BY <1>3, <1>4, <1>5 DEF LifetimeInv, TypeOK, AllocatorTypeOK
<1>. QED
  BY <1>1, <1>4, <1>5, <1>6 DEF LifetimeInv, NothingAhead, Alive

LEMMA NextLifetime == LifetimeInv /\ [Next]_vars => LifetimeInv'
<1>. SUFFICES ASSUME LifetimeInv, [Next]_vars PROVE LifetimeInv'
  OBVIOUS
<1>1. ASSUME NEW t \in Thread, NEW a \in Address, InitStart(t, a)
      PROVE  LifetimeInv'
  <2>1. counter' = counter /\ AllocatorInv'
    BY <1>1, AllocatorSteps DEF InitStart, LifetimeInv, TypeOK, AllocatorInv
  <2>. QED
    BY <1>1, <2>1 DEF InitStart, LifetimeInv, TypeOK, Alive, AllocatorInv
<1>2. ASSUME NEW t \in Thread, InitRetry(t) \/ InitExhausted(t)
      PROVE  LifetimeInv'
  <2>1. counter' = counter /\ AllocatorInv'
    BY <1>2, AllocatorSteps
       DEF InitRetry, InitExhausted, LifetimeInv, TypeOK, AllocatorInv
  <2>. QED
    BY <1>2, <2>1 DEF InitRetry, InitExhausted, LifetimeInv, TypeOK, Alive,
                    AllocatorInv
<1>3. ASSUME NEW t \in Thread, InitNoEntropy(t)
      PROVE  LifetimeInv'
  <2>1. counter' = counter + 1 /\ AllocatorInv'
    BY <1>3, ExchangeIsFresh DEF InitNoEntropy, LifetimeInv, TypeOK, AllocatorInv
  <2>2. /\ UNCHANGED <<owner, place, lifetime, handles>>
        /\ counter \in Nat
        /\ \A b \in Address : owner[b].identity \in Nat /\ lifetime[b] \in Nat
        /\ \A h \in handles : h.identity \in Nat
    BY <1>3, IdentityAllocatorAssumption
       DEF InitNoEntropy, LifetimeInv, TypeOK, AllocatorTypeOK, Owner, Handle,
           Identity
  <2>. QED
    BY <2>1, <2>2 DEF LifetimeInv, TypeOK, Alive, AllocatorInv
<1>4. ASSUME NEW t \in Thread, InitDone(t)
      PROVE  LifetimeInv'
  BY <1>4, InitDoneLifetime
<1>5. ASSUME NEW a \in Address, Begin(a)
      PROVE  LifetimeInv'
  BY <1>5, BeginLifetime
<1>6. ASSUME NEW a \in Address, Deinit(a)
      PROVE  LifetimeInv'
  <2>1. /\ owner' = [owner EXCEPT ![a] = NoOwner]
        /\ NoOwner \in Owner /\ NoOwner.identity = 0
        /\ UNCHANGED <<counter, allocating, current, place, lifetime, handles>>
    BY <1>6, IdentityAllocatorAssumption, OwnerLifetimesAssumption
       DEF Deinit, NoOwner, Owner, allocatorVars
  <2>2. TypeOK' /\ NothingAhead'
    BY <2>1 DEF LifetimeInv, TypeOK, AllocatorTypeOK, NothingAhead
  <2>3. /\ owner'[a].identity = 0
        /\ \A b \in Address \ {a} : owner'[b] = owner[b]
    BY <2>1 DEF LifetimeInv, TypeOK
  <2>4. \A h \in handles : h.identity # 0
    BY DEF LifetimeInv, TypeOK, Handle, Identity
  <2>5. counter \in Nat
    BY IdentityAllocatorAssumption DEF LifetimeInv, TypeOK, AllocatorTypeOK
  <2>. QED
    BY <2>1, <2>2, <2>3, <2>4, <2>5 DEF LifetimeInv, Alive
<1>7. ASSUME NEW h \in handles, NEW a \in Address, Invalidate(h, a)
      PROVE  LifetimeInv'
  <2>1. PICK o \in Owner :
          o.identity = owner[a].identity /\ owner' = [owner EXCEPT ![a] = o]
    <3> DEFINE o == [owner[a] EXCEPT !.liveGeneration = 0]
    <3>1. o \in Owner /\ o.identity = owner[a].identity
      BY OwnerLifetimesAssumption DEF LifetimeInv, TypeOK, Owner
    <3>2. owner' = [owner EXCEPT ![a] = o]
      BY <1>7 DEF Invalidate
    <3>. QED
      BY <3>1, <3>2
  <2>2. /\ \A b \in Address : owner'[b].identity = owner[b].identity
        /\ UNCHANGED <<counter, allocating, current, place, lifetime, handles>>
    BY <1>7, <2>1 DEF LifetimeInv, TypeOK, Invalidate, allocatorVars
  <2>3. TypeOK' /\ NothingAhead'
    BY <2>1, <2>2 DEF LifetimeInv, TypeOK, AllocatorTypeOK, NothingAhead
  <2>. QED
    BY <2>2, <2>3 DEF LifetimeInv, Alive
<1>8. CASE UNCHANGED vars
  BY <1>8 DEF vars, allocatorVars, LifetimeInv, TypeOK, AllocatorTypeOK,
              NothingAhead, Alive
<1>. QED
  BY <1>1, <1>2, <1>3, <1>4, <1>5, <1>6, <1>7, <1>8 DEF Next

(* A kept handle is never accepted by another owner than its own, however  *)
(* threads raced for identities and memory was reused.                     *)
THEOREM HandlesNameTheirOwner == Spec => []HandleNamesItsOwner
<1>1. Spec => []LifetimeInv
  BY InitLifetime, NextLifetime, PTL DEF Spec
<1>2. LifetimeInv => HandleNamesItsOwner
  BY DEF LifetimeInv, HandleNamesItsOwner, HandleLive
<1>. QED
  BY <1>1, <1>2, PTL
=============================================================================
