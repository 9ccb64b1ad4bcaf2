------------------------- MODULE ProcessorInvocation -------------------------
(***************************************************************************)
(* The authority a processor callback holds: one thread-local invocation   *)
(* record and a cookie drawn from a process-wide counter.  The processor   *)
(* is given the cookie only, and may keep it: use it after the callback,   *)
(* in a later one, on another thread, or call the pipeline again from      *)
(* inside the callback.                                                    *)
(***************************************************************************)
EXTENDS IdentityAllocator, Sequences, SequencesExt

CONSTANTS
  Context,              \* generated context types, one per descriptor
  MaxDepth              \* bound on pipeline calls nested in callbacks

ASSUME ProcessorInvocationAssumption == MaxDepth \in Nat

VARIABLES
  active,               \* threadlocal var active, by thread
  calls,                \* the thread's stage calls in progress, outermost first
  minted                \* history: every cookie and what it was minted for

vars == <<allocatorVars, active, calls, minted>>

(* cookie 0: no invocation is active on the thread. *)
Inactive == [cookie |-> 0]

State == [context : Context, cookie : Identity]

(* The locals of one stage call; cookie 0 while begin has not returned.    *)
Call == [context : Context, cookie : 0 .. MaxIdentity]

Minted == [context : Context, cookie : Identity, thread : Thread]

TypeOK ==
  /\ AllocatorTypeOK
  /\ active \in [Thread -> State \cup {Inactive}]
  /\ calls \in [Thread -> Seq(Call)]
  /\ minted \in Seq(Minted)

Init ==
  /\ AllocatorInit
  /\ active = [t \in Thread |-> Inactive]
  /\ calls = [t \in Thread |-> << >>]
  /\ minted = << >>

(* The thread runs code that can call the pipeline: its own, or a callback *)
(* it is in.                                                               *)
CanCall(t) ==
  /\ Len(calls[t]) < MaxDepth
  /\ calls[t] # << >> => Last(calls[t]).cookie # 0

(* Deviation: begin does not look whether an invocation is active. *)
BeginCall_Reentrant(t, context) ==
  /\ CanCall(t)
  /\ Load(t)
  /\ calls' = [calls EXCEPT ![t] = Append(@, [context |-> context, cookie |-> 0])]
  /\ UNCHANGED <<active, minted>>

(* begin up to the identity loop; a call from inside a callback fails with *)
(* InvocationAlreadyActive and changes nothing.                            *)
BeginCall(t, context) ==
  /\ CanCall(t)
  /\ active[t] = Inactive
  /\ Load(t)
  /\ calls' = [calls EXCEPT ![t] = Append(@, [context |-> context, cookie |-> 0])]
  /\ UNCHANGED <<active, minted>>

BeginRetry(t) ==
  /\ ExchangeFails(t)
  /\ UNCHANGED <<active, calls, minted>>

(* begin returns the cookie: the callback starts. *)
BeginDone(t) ==
  /\ Exchange(t)
  /\ LET call == [Last(calls[t]) EXCEPT !.cookie = NextIdentity(t)]
     IN  /\ active' = [active EXCEPT ![t] = call]
         /\ calls' = [calls EXCEPT ![t] = Append(Front(@), call)]
         /\ minted' = Append(minted, [context |-> call.context,
                                      cookie |-> call.cookie, thread |-> t])

(* begin fails with InvocationExhausted; the stage call ends. *)
BeginExhausted(t) ==
  /\ Exhausted(t)
  /\ calls' = [calls EXCEPT ![t] = Front(@)]
  /\ UNCHANGED <<active, minted>>

(* The callback returns and the pipeline ends its invocation; a record of  *)
(* another invocation would stay (InvocationInactive).                     *)
EndCall(t) ==
  /\ calls[t] # << >>
  /\ Last(calls[t]).cookie # 0
  /\ calls' = [calls EXCEPT ![t] = Front(@)]
  /\ active' = IF active[t].cookie = Last(calls[t]).cookie
                 THEN [active EXCEPT ![t] = Inactive]
                 ELSE active
  /\ UNCHANGED <<allocatorVars, minted>>

Next ==
  \E t \in Thread :
    \/ \E context \in Context : BeginCall(t, context)
    \/ BeginRetry(t)
    \/ BeginDone(t)
    \/ BeginExhausted(t)
    \/ EndCall(t)

Spec == Init /\ [][Next]_vars

-----------------------------------------------------------------------------
(* authenticate on thread t of a cookie wrapped in a context type. *)
Authenticates(t, context, cookie) ==
  /\ active[t] # Inactive
  /\ cookie # 0
  /\ active[t].cookie = cookie
  /\ active[t].context = context

(* No two invocations of the process share a cookie, whatever the threads  *)
(* raced for.                                                              *)
CookiesNeverReused ==
  \A m, n \in 1 .. Len(minted) : minted[m].cookie = minted[n].cookie => m = n

(* A kept context reaches packet authority only on the thread, and only    *)
(* during the very callback, it was minted for.                            *)
ContextScopedToCallback ==
  \A t \in Thread, n \in 1 .. Len(minted) :
    Authenticates(t, minted[n].context, minted[n].cookie) =>
      /\ minted[n].thread = t
      /\ calls[t] # << >>
      /\ Last(calls[t]) = [context |-> minted[n].context,
                           cookie |-> minted[n].cookie]

(* When a callback returns, the record is its own: the InvocationFailure   *)
(* that end could raise after the callback is unreachable, reentrant calls *)
(* included.                                                               *)
EndFindsItsInvocation ==
  \A t \in Thread :
    (calls[t] # << >> /\ Last(calls[t]).cookie # 0) =>
      active[t] = Last(calls[t])

(* Authority over packets is a callback's own: unique, scoped and revoked  *)
(* when it returns.                                                        *)
AuthorityIsTheCallbacks ==
  CookiesNeverReused /\ ContextScopedToCallback /\ EndFindsItsInvocation
=============================================================================
