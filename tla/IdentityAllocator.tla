-------------------------- MODULE IdentityAllocator --------------------------
(***************************************************************************)
(* The process-wide identity counters: a monotonic load, then a weak       *)
(* compare-and-swap retried with whatever value it observed.  The same     *)
(* loop is written four times, for batch owners, retention pools, prepared *)
(* pipelines and processor invocations, each with a counter of its own;    *)
(* this is one of them.  The steps of different threads interleave.        *)
(***************************************************************************)
EXTENDS Naturals

CONSTANTS
  Thread,
  MaxIdentity           \* maxInt(u64)

ASSUME IdentityAllocatorAssumption == MaxIdentity \in Nat

VARIABLES
  counter,              \* last identity handed out
  allocating,           \* threads inside the loop
  current               \* the loop's local variable, by thread

allocatorVars == <<counter, allocating, current>>

Identity == 1 .. MaxIdentity

AllocatorTypeOK ==
  /\ counter \in 0 .. MaxIdentity
  /\ allocating \subseteq Thread
  /\ current \in [Thread -> 0 .. MaxIdentity]

AllocatorInit ==
  /\ counter = 0
  /\ allocating = {}
  /\ current = [t \in Thread |-> 0]

(* counter.load *)
Load(t) ==
  /\ t \notin allocating
  /\ allocating' = allocating \cup {t}
  /\ current' = [current EXCEPT ![t] = counter]
  /\ UNCHANGED counter

(* The identity a successful exchange returns. *)
NextIdentity(t) == current[t] + 1

(* Deviation: the exchange is a plain store. *)
Exchange_Unconditional(t) ==
  /\ t \in allocating
  /\ current[t] # MaxIdentity
  /\ counter' = NextIdentity(t)
  /\ allocating' = allocating \ {t}
  /\ UNCHANGED current

(* cmpxchgWeak succeeds. *)
Exchange(t) ==
  /\ t \in allocating
  /\ current[t] # MaxIdentity
  /\ counter = current[t]
  /\ counter' = NextIdentity(t)
  /\ allocating' = allocating \ {t}
  /\ UNCHANGED current

(* cmpxchgWeak fails: another thread was faster, or spuriously. *)
ExchangeFails(t) ==
  /\ t \in allocating
  /\ current[t] # MaxIdentity
  /\ current' = [current EXCEPT ![t] = counter]
  /\ UNCHANGED <<counter, allocating>>

(* Every identity has been used: the loop ends without one. *)
Exhausted(t) ==
  /\ t \in allocating
  /\ current[t] = MaxIdentity
  /\ allocating' = allocating \ {t}
  /\ UNCHANGED <<counter, current>>

(* What a thread in the loop has seen is never ahead of the counter.       *)
NothingAhead == \A t \in allocating : current[t] <= counter
=============================================================================
