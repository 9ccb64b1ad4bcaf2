-------------------------- MODULE Processor_proofs --------------------------
(***************************************************************************)
(* Theorems about what a processor's context grants it: its authority to   *)
(* call (ProcessorInvocation), for every number of threads, context types  *)
(* and identities, and every nesting depth; its typed metadata             *)
(* (MetadataFlow), for every pipeline that the compiler accepts, every     *)
(* batch and every number of calls; and the suite of declarations that     *)
(* must not compile (CompileFail), for every library that lost a check.    *)
(***************************************************************************)
EXTENDS ProcessorInvocation, CompileFail, MetadataFlow, FoldInduction

(* What one step of the identity loop gives.                               *)
AllocatorInv == AllocatorTypeOK /\ NothingAhead

(* An exchange that succeeds returns an identity nobody has seen. *)
LEMMA ExchangeIsFresh ==
  ASSUME AllocatorInv, NEW t \in Thread, Exchange(t)
  PROVE  /\ NextIdentity(t) = counter + 1
         /\ NextIdentity(t) \in Identity
         /\ counter \in Nat
         /\ counter' = counter + 1
         /\ t \in allocating
         /\ allocating' = allocating \ {t}
         /\ AllocatorInv'
BY IdentityAllocatorAssumption
   DEF AllocatorInv, AllocatorTypeOK, NothingAhead, Exchange, NextIdentity,
       Identity

(* The other steps hand nothing out. *)
LEMMA AllocatorSteps ==
  ASSUME AllocatorInv, NEW t \in Thread,
         Load(t) \/ ExchangeFails(t) \/ Exhausted(t)
  PROVE  counter' = counter /\ AllocatorInv'
BY IdentityAllocatorAssumption
   DEF AllocatorInv, AllocatorTypeOK, NothingAhead, Load, ExchangeFails,
       Exhausted

(* The stage call a thread is in.  At most one: begin refuses a second     *)
(* while the first is running, and a thread inside begin calls nothing.    *)
InCall(t) == Len(calls[t]) = 1

InvocationInv ==
  /\ TypeOK
  /\ NothingAhead
  /\ CookiesNeverReused
  /\ \A n \in 1 .. Len(minted) : minted[n].cookie <= counter
  /\ \A t \in Thread :
       /\ Len(calls[t]) <= 1
       /\ t \in allocating <=> InCall(t) /\ calls[t][1].cookie = 0
       /\ IF InCall(t) /\ calls[t][1].cookie # 0
            THEN /\ active[t] = calls[t][1]
                 /\ \E n \in 1 .. Len(minted) :
                      minted[n] = [context |-> active[t].context,
                                   cookie |-> active[t].cookie, thread |-> t]
            ELSE active[t] = Inactive

LEMMA InitInvocation == Init => InvocationInv
<1>. SUFFICES ASSUME Init PROVE InvocationInv
  OBVIOUS
<1>1. TypeOK
  <2>1. << >> \in Seq(Call) /\ << >> \in Seq(Minted)
    BY EmptySeq
  <2>. QED
    BY <2>1, IdentityAllocatorAssumption
       DEF Init, AllocatorInit, TypeOK, AllocatorTypeOK
<1>2. Len(minted) = 0 /\ \A t \in Thread : Len(calls[t]) = 0
  BY DEF Init
<1>. QED
  BY <1>1, <1>2
     DEF Init, AllocatorInit, InvocationInv, NothingAhead, CookiesNeverReused,
         InCall

LEMMA AllocatorPart == InvocationInv => AllocatorInv
BY DEF InvocationInv, TypeOK, AllocatorInv

(* A call in progress is the thread's only one. *)
LEMMA OnlyCall ==
  ASSUME InvocationInv, NEW t \in Thread, calls[t] # << >>
  PROVE  InCall(t) /\ Last(calls[t]) = calls[t][1] /\ calls[t][1] \in Call
<1>1. calls[t] \in Seq(Call) /\ Len(calls[t]) <= 1
  BY DEF InvocationInv, TypeOK
<1>2. Len(calls[t]) = 1
  <2>. PICK s : s = calls[t]
    OBVIOUS
  <2>1. s \in Seq(Call) /\ s # << >> /\ Len(s) <= 1
    BY <1>1
  <2>2. Len(s) \in Nat \ {0}
    BY <2>1, EmptySeq
  <2>3. PICK n \in Nat \ {0} : n = Len(s)
    BY <2>2
  <2>4. n <= 1
    BY <2>1, <2>3, Zenon
  <2>5. n = 1
    BY <2>4
  <2>. QED
    BY <2>3, <2>5, Zenon
<1>3. calls[t][1] \in Call
  BY <1>1, <1>2, ElementOfSeq
<1>. QED
  BY <1>2, <1>3 DEF InCall, Last

(* A thread that may call the pipeline and has no active record is idle. *)
LEMMA BeginCallInvocation ==
  ASSUME InvocationInv, NEW t \in Thread, NEW context \in Context,
         BeginCall(t, context)
  PROVE  InvocationInv'
<1> DEFINE entry == [context |-> context, cookie |-> 0]
<1>1. /\ counter' = counter /\ AllocatorInv'
      /\ allocating' = allocating \cup {t}
      /\ active' = active /\ minted' = minted
      /\ calls' = [calls EXCEPT ![t] = Append(calls[t], entry)]
  BY AllocatorSteps, AllocatorPart DEF BeginCall, Load
<1>2. calls[t] \in Seq(Call) /\ entry \in Call
  <2>1. calls[t] \in Seq(Call)
    BY DEF InvocationInv, TypeOK
  <2>2. entry \in Call
    BY IdentityAllocatorAssumption DEF Call
  <2>. QED
    BY <2>1, <2>2
<1>3. calls[t] = << >> /\ active[t] = Inactive
  <2>1. calls[t] # << >> => InCall(t) /\ Last(calls[t]) = calls[t][1]
    BY OnlyCall
  <2>2. active[t] = Inactive
    BY DEF BeginCall
  <2>3. ASSUME InCall(t), calls[t][1].cookie # 0
        PROVE  FALSE
    <3>1. active[t] = calls[t][1]
      BY <2>3 DEF InvocationInv
    <3>2. active[t].cookie = 0
      BY <2>2 DEF Inactive
    <3>. QED
      BY <2>3, <3>1, <3>2
  <2>. QED
    BY <2>1, <2>2, <2>3 DEF BeginCall, CanCall
<1>4. calls'[t] = <<entry>>
  BY <1>1, <1>2, <1>3 DEF InvocationInv, TypeOK
<1>5. \A u \in Thread \ {t} : calls'[u] = calls[u]
  BY <1>1 DEF InvocationInv, TypeOK
<1>6. TypeOK'
  BY <1>1, <1>2 DEF InvocationInv, TypeOK, AllocatorInv
<1>7. InCall(t)' /\ calls'[t][1].cookie = 0
  BY <1>4 DEF InCall
<1>. QED
  BY <1>1, <1>3, <1>4, <1>5, <1>6, <1>7
     DEF InvocationInv, InCall, CookiesNeverReused, AllocatorInv

(* The exchange succeeds: the waiting call gets a cookie of its own. *)
LEMMA BeginDoneInvocation ==
  ASSUME InvocationInv, NEW t \in Thread, BeginDone(t)
  PROVE  InvocationInv'
<1>1. /\ NextIdentity(t) = counter + 1 /\ NextIdentity(t) \in Identity
      /\ counter' = counter + 1 /\ counter \in Nat
      /\ allocating' = allocating \ {t} /\ t \in allocating
      /\ AllocatorInv'
  BY ExchangeIsFresh, AllocatorPart DEF BeginDone
<1>2. /\ calls[t] \in Seq(Call) /\ InCall(t)
      /\ Last(calls[t]) = calls[t][1] /\ calls[t][1] \in Call
      /\ Front(calls[t]) = << >>
  <2>1. calls[t] \in Seq(Call) /\ InCall(t)
    BY <1>1 DEF InvocationInv, TypeOK
  <2>2. calls[t][1] \in Call
    BY <2>1, ElementOfSeq DEF InCall
  <2>3. Front(calls[t]) = << >>
    BY <2>1, SubSeqEmpty DEF Front, InCall
  <2>. QED
    BY <2>1, <2>2, <2>3 DEF Last, InCall
<1>3. PICK c \in State :
        /\ c.cookie = counter + 1
        /\ c = [Last(calls[t]) EXCEPT !.cookie = NextIdentity(t)]
  <2> DEFINE c == [Last(calls[t]) EXCEPT !.cookie = NextIdentity(t)]
  <2>1. c = [context |-> calls[t][1].context, cookie |-> counter + 1]
    BY <1>1, <1>2 DEF Call
  <2>2. c \in State /\ c.cookie = counter + 1
    BY <1>1, <1>2, <2>1 DEF Call, State
  <2>. QED
    BY <2>2
<1>4. PICK m \in Minted :
        m = [context |-> c.context, cookie |-> c.cookie, thread |-> t]
  BY <1>3 DEF State, Minted
<1>5. /\ active' = [active EXCEPT ![t] = c]
      /\ calls' = [calls EXCEPT ![t] = Append(Front(calls[t]), c)]
      /\ minted' = Append(minted, m)
  BY <1>3, <1>4 DEF BeginDone
<1>6. c \in Call
  BY <1>3 DEF State, Call, Identity
<1>7. /\ calls'[t] = <<c>> /\ active'[t] = c
      /\ \A u \in Thread \ {t} : calls'[u] = calls[u] /\ active'[u] = active[u]
  BY <1>2, <1>5 DEF InvocationInv, TypeOK
<1>8. /\ Len(minted') = Len(minted) + 1 /\ Len(minted) \in Nat
      /\ minted'[Len(minted) + 1] = m
      /\ \A n \in 1 .. Len(minted) : minted'[n] = minted[n]
  BY <1>5 DEF InvocationInv, TypeOK
<1>9. TypeOK'
  <2>1. calls' \in [Thread -> Seq(Call)]
    BY <1>2, <1>5, <1>6 DEF InvocationInv, TypeOK
  <2>. QED
    BY <1>1, <1>3, <1>5, <2>1 DEF InvocationInv, TypeOK, AllocatorInv
<1>10. \A n \in 1 .. Len(minted) : minted[n].cookie \in Nat
  <2>1. \A n \in 1 .. Len(minted) : minted[n] \in Minted
    BY ElementOfSeq DEF InvocationInv, TypeOK
  <2>. QED
    BY <2>1 DEF Minted, Identity
<1>11. /\ CookiesNeverReused'
       /\ \A n \in 1 .. Len(minted') : minted'[n].cookie <= counter'
  <2>1. \A n \in 1 .. Len(minted) : minted'[n].cookie <= counter
    BY <1>8 DEF InvocationInv
  <2>2. minted'[Len(minted) + 1].cookie = counter + 1
    BY <1>3, <1>4, <1>8
  <2>3. \A n \in 1 .. Len(minted') :
          n \in 1 .. Len(minted) \/ n = Len(minted) + 1
    BY <1>8
  <2>4. \A j, n \in 1 .. Len(minted) :
          minted'[j].cookie = minted'[n].cookie => j = n
    BY <1>8 DEF InvocationInv, CookiesNeverReused
  <2>5. \A n \in 1 .. Len(minted) : minted'[n].cookie # counter + 1
    BY <1>1, <1>8, <1>10, <2>1
  <2>6. CookiesNeverReused'
    BY <2>2, <2>3, <2>4, <2>5 DEF CookiesNeverReused
  <2>7. \A n \in 1 .. Len(minted') : minted'[n].cookie <= counter'
    BY <1>1, <1>8, <1>10, <2>1, <2>2, <2>3
  <2>. QED
    BY <2>6, <2>7
<1>12. \A u \in Thread \ {t} :
         /\ Len(calls'[u]) <= 1
         /\ u \in allocating' <=> InCall(u)' /\ calls'[u][1].cookie = 0
         /\ IF InCall(u)' /\ calls'[u][1].cookie # 0
              THEN /\ active'[u] = calls'[u][1]
                   /\ \E n \in 1 .. Len(minted') :
                        minted'[n] = [context |-> active'[u].context,
                                      cookie |-> active'[u].cookie,
                                      thread |-> u]
              ELSE active'[u] = Inactive
  BY <1>1, <1>7, <1>8 DEF InvocationInv, InCall
<1>13. /\ Len(calls'[t]) = 1 /\ InCall(t)' /\ calls'[t][1] = c
       /\ c.cookie # 0 /\ t \notin allocating'
       /\ minted'[Len(minted')] = [context |-> active'[t].context,
                                   cookie |-> active'[t].cookie, thread |-> t]
       /\ Len(minted') \in 1 .. Len(minted')
  <2>1. Len(calls'[t]) = 1 /\ calls'[t][1] = c
    BY <1>7
  <2>2. c.cookie # 0 /\ t \notin allocating'
    BY <1>1, <1>3
  <2>3. /\ minted'[Len(minted')] = m
        /\ Len(minted') \in 1 .. Len(minted')
    BY <1>8
  <2>. QED
    BY <1>4, <1>7, <2>1, <2>2, <2>3 DEF InCall
<1>14. /\ active'[t] = calls'[t][1]
       /\ \E n \in 1 .. Len(minted') :
            minted'[n] = [context |-> active'[t].context,
                          cookie |-> active'[t].cookie, thread |-> t]
  BY <1>7, <1>13
<1>15. \A u \in Thread :
         /\ Len(calls'[u]) <= 1
         /\ u \in allocating' <=> InCall(u)' /\ calls'[u][1].cookie = 0
         /\ IF InCall(u)' /\ calls'[u][1].cookie # 0
              THEN /\ active'[u] = calls'[u][1]
                   /\ \E n \in 1 .. Len(minted') :
                        minted'[n] = [context |-> active'[u].context,
                                      cookie |-> active'[u].cookie,
                                      thread |-> u]
              ELSE active'[u] = Inactive
  <2>. SUFFICES ASSUME NEW u \in Thread, u = t
                PROVE  /\ Len(calls'[u]) <= 1
                       /\ u \notin allocating'
                       /\ InCall(u)' /\ calls'[u][1].cookie # 0
    BY <1>12, <1>14
  <2>. QED
    BY <1>13
<1>. QED
  BY <1>1, <1>9, <1>11, <1>15 DEF InvocationInv, AllocatorInv

(* The innermost call ends: the thread is idle again. *)
LEMMA CallEndsInvocation ==
  ASSUME InvocationInv, NEW t \in Thread, InCall(t),
         calls' = [calls EXCEPT ![t] = Front(calls[t])],
         active' = [active EXCEPT ![t] = Inactive], minted' = minted,
         counter' = counter, allocating' = allocating \ {t},
         AllocatorInv'
  PROVE  InvocationInv'
<1>1. Front(calls[t]) = << >>
  BY SubSeqEmpty DEF Front, InCall
<1>2. /\ calls'[t] = << >> /\ active'[t] = Inactive
      /\ \A u \in Thread \ {t} : calls'[u] = calls[u] /\ active'[u] = active[u]
  BY <1>1 DEF InvocationInv, TypeOK
<1>3. TypeOK'
  BY <1>1, EmptySeq DEF InvocationInv, TypeOK, AllocatorInv
<1>4. Len(calls'[t]) = 0
  BY <1>2
<1>. QED
  BY <1>2, <1>3, <1>4
     DEF InvocationInv, CookiesNeverReused, InCall, AllocatorInv

LEMMA NextInvocation == InvocationInv /\ [Next]_vars => InvocationInv'
<1>. SUFFICES ASSUME InvocationInv, [Next]_vars PROVE InvocationInv'
  OBVIOUS
<1>1. ASSUME NEW t \in Thread, NEW context \in Context, BeginCall(t, context)
      PROVE  InvocationInv'
  BY <1>1, BeginCallInvocation
<1>2. ASSUME NEW t \in Thread, BeginRetry(t)
      PROVE  InvocationInv'
  <2>1. /\ counter' = counter /\ AllocatorInv'
        /\ allocating' = allocating
        /\ UNCHANGED <<active, calls, minted>>
    BY <1>2, AllocatorSteps, AllocatorPart DEF BeginRetry, ExchangeFails
  <2>. QED
    BY <2>1
       DEF InvocationInv, TypeOK, CookiesNeverReused, InCall, AllocatorInv
<1>3. ASSUME NEW t \in Thread, BeginDone(t)
      PROVE  InvocationInv'
  BY <1>3, BeginDoneInvocation
<1>4. ASSUME NEW t \in Thread, BeginExhausted(t)
      PROVE  InvocationInv'
  <2>1. /\ counter' = counter /\ AllocatorInv'
        /\ t \in allocating /\ allocating' = allocating \ {t}
        /\ active' = active /\ minted' = minted
        /\ calls' = [calls EXCEPT ![t] = Front(calls[t])]
    BY <1>4, AllocatorSteps, AllocatorPart DEF BeginExhausted, Exhausted
  <2>2. InCall(t) /\ active[t] = Inactive
    BY <2>1 DEF InvocationInv
  <2>3. active' = [active EXCEPT ![t] = Inactive]
    BY <2>1, <2>2 DEF InvocationInv, TypeOK
  <2>. QED
    BY <2>1, <2>2, <2>3, CallEndsInvocation
<1>5. ASSUME NEW t \in Thread, EndCall(t)
      PROVE  InvocationInv'
  <2>1. /\ calls[t] \in Seq(Call) /\ calls[t] # << >>
        /\ Last(calls[t]).cookie # 0
    BY <1>5 DEF EndCall, InvocationInv, TypeOK
  <2>2. InCall(t) /\ Last(calls[t]) = calls[t][1]
    BY <2>1, OnlyCall
  <2>3. active[t] = calls[t][1] /\ t \notin allocating
    BY <2>1, <2>2 DEF InvocationInv
  <2>4. /\ active' = [active EXCEPT ![t] = Inactive]
        /\ calls' = [calls EXCEPT ![t] = Front(calls[t])]
        /\ UNCHANGED <<counter, allocating, current, minted>>
    BY <1>5, <2>2, <2>3 DEF EndCall, allocatorVars
  <2>5. AllocatorInv' /\ allocating' = allocating \ {t}
    BY <2>3, <2>4
       DEF InvocationInv, TypeOK, AllocatorTypeOK, NothingAhead, AllocatorInv
  <2>. QED
    BY <2>2, <2>4, <2>5, CallEndsInvocation
<1>6. CASE UNCHANGED vars
  BY <1>6 DEF vars, allocatorVars, InvocationInv, TypeOK, AllocatorTypeOK,
              NothingAhead, CookiesNeverReused, InCall
<1>. QED
  BY <1>1, <1>2, <1>3, <1>4, <1>5, <1>6 DEF Next

LEMMA InvocationInvariant == Spec => []InvocationInv
BY InitInvocation, NextInvocation, PTL DEF Spec

(* Two invocations never share a cookie, for any number of threads racing  *)
(* on the counter.                                                         *)
THEOREM CookiesAreUnique == Spec => []CookiesNeverReused
BY InvocationInvariant, PTL DEF InvocationInv

(* A kept context is dead outside the callback it was minted for. *)
THEOREM ContextsAreScoped == Spec => []ContextScopedToCallback
<1>1. InvocationInv => ContextScopedToCallback
  <2>. SUFFICES ASSUME InvocationInv, NEW t \in Thread,
                       NEW n \in 1 .. Len(minted),
                       Authenticates(t, minted[n].context, minted[n].cookie)
                PROVE  /\ minted[n].thread = t
                       /\ calls[t] # << >>
                       /\ Last(calls[t]) = [context |-> minted[n].context,
                                            cookie |-> minted[n].cookie]
    BY DEF ContextScopedToCallback
  <2>1. /\ active[t] # Inactive
        /\ active[t].cookie = minted[n].cookie
        /\ active[t].context = minted[n].context
    BY DEF Authenticates
  <2>2. /\ InCall(t) /\ active[t] = calls[t][1]
        /\ calls[t][1] \in Call
    <3>1. InCall(t) /\ active[t] = calls[t][1]
      BY <2>1 DEF InvocationInv
    <3>2. calls[t] # << >>
      BY <3>1, EmptySeq DEF InCall
    <3>. QED
      BY <3>1, <3>2, OnlyCall
  <2>3. PICK m \in 1 .. Len(minted) :
          minted[m] = [context |-> active[t].context,
                       cookie |-> active[t].cookie, thread |-> t]
    BY <2>1 DEF InvocationInv
  <2>4. m = n
    BY <2>1, <2>3 DEF InvocationInv, CookiesNeverReused
  <2>5. Last(calls[t]) = [context |-> minted[n].context,
                          cookie |-> minted[n].cookie]
    BY <2>1, <2>2 DEF Last, InCall, Call
  <2>6. calls[t] # << >>
    BY <2>2, EmptySeq DEF InCall
  <2>. QED
    BY <2>3, <2>4, <2>5, <2>6
<1>. QED
  BY <1>1, InvocationInvariant, PTL

(* end never finds another invocation than the one it is ending. *)
THEOREM EndIsMatched == Spec => []EndFindsItsInvocation
<1>1. InvocationInv => EndFindsItsInvocation
  <2>. SUFFICES ASSUME InvocationInv, NEW t \in Thread, calls[t] # << >>,
                       Last(calls[t]).cookie # 0
                PROVE  active[t] = Last(calls[t])
    BY DEF EndFindsItsInvocation
  <2>1. InCall(t) /\ Last(calls[t]) = calls[t][1]
    BY OnlyCall
  <2>. QED
    BY <2>1 DEF InvocationInv
<1>. QED
  BY <1>1, InvocationInvariant, PTL

(* Authority over a worker is the running callback's alone: the three      *)
(* facts above in one, for any number of threads and of nested calls.      *)
THEOREM AuthorityCorrect == Spec => []AuthorityIsTheCallbacks
BY CookiesAreUnique, ContextsAreScoped, EndIsMatched, PTL
   DEF AuthorityIsTheCallbacks

-----------------------------------------------------------------------------
(***************************************************************************)
(* Lists of checks.                                                        *)
(***************************************************************************)

(* The empty list, which has no check to fail.                             *)
LEMMA EmptyList == IsList(<< >>) /\ Passes(<< >>) /\ ToSet(<< >>) = {}
<1>1. << >> \in Seq({}) /\ DOMAIN << >> = {}
  OBVIOUS
<1>. QED
  BY <1>1, ListsAreLists DEF Passes, ToSet

(* Two lists one after the other.                                          *)
LEMMA JoinedLists ==
  ASSUME NEW a, NEW b, IsList(a), IsList(b)
  PROVE  /\ IsList(a \o b)
         /\ Len(a \o b) = Len(a) + Len(b)
         /\ \A i \in 1 .. Len(a) : (a \o b)[i] = a[i]
         /\ \A i \in 1 .. Len(b) : (a \o b)[Len(a) + i] = b[i]
         /\ ToSet(a \o b) = ToSet(a) \cup ToSet(b)
         /\ Passes(a \o b) => Passes(a) /\ Passes(b)
<1> DEFINE S == ToSet(a) \cup ToSet(b)
           m == Len(a)
           n == Len(b)
           c == a \o b
<1>1. a \in Seq(S) /\ b \in Seq(S)
  BY SeqMonotonic DEF IsList
<1>2. m \in Nat /\ n \in Nat /\ DOMAIN a = 1 .. m /\ DOMAIN b = 1 .. n
  BY ListFacts
<1>3. c \in Seq(S) /\ Len(c) = m + n /\ DOMAIN c = 1 .. m + n
  BY <1>1
<1>4. \A i \in 1 .. m : c[i] = a[i]
  BY <1>1, <1>2
<1>5. \A i \in 1 .. n : c[m + i] = b[i]
  BY <1>1, <1>2
<1>. HIDE DEF c, m, n, S
<1>6. IsList(c)
  BY <1>3, ListsAreLists
<1>7. ToSet(c) = ToSet(a) \cup ToSet(b)
  <2>1. ASSUME NEW i \in 1 .. m + n
        PROVE  c[i] \in ToSet(a) \cup ToSet(b)
    <3>1. CASE i \in 1 .. m
      BY <1>2, <1>4, <3>1 DEF ToSet
    <3>2. CASE i \notin 1 .. m
      <4>1. PICK k \in 1 .. n : i = m + k
        <5>1. i - m \in 1 .. n /\ i = m + (i - m)
          BY <1>2, <3>2
        <5>. QED
          BY <5>1
      <4>. QED
        BY <1>2, <1>5, <4>1 DEF ToSet
    <3>. QED
      BY <3>1, <3>2
  <2>2. ASSUME NEW i \in 1 .. m
        PROVE  a[i] \in ToSet(c)
    <3>1. i \in 1 .. m + n
      BY <1>2
    <3>. QED
      BY <1>3, <1>4, <3>1 DEF ToSet
  <2>3. ASSUME NEW i \in 1 .. n
        PROVE  b[i] \in ToSet(c)
    <3>1. m + i \in 1 .. m + n
      BY <1>2
    <3>. QED
      BY <1>3, <1>5, <3>1 DEF ToSet
  <2>4. \A x \in ToSet(c) : x \in ToSet(a) \cup ToSet(b)
    BY <1>3, <2>1 DEF ToSet
  <2>5. \A x \in ToSet(a) \cup ToSet(b) : x \in ToSet(c)
    <3>1. \A x \in ToSet(a) : \E i \in 1 .. m : x = a[i]
      BY <1>2 DEF ToSet
    <3>2. \A x \in ToSet(b) : \E i \in 1 .. n : x = b[i]
      BY <1>2 DEF ToSet
    <3>. QED
      BY <2>2, <2>3, <3>1, <3>2
  <2>. QED
    BY <2>4, <2>5
<1>8. ASSUME Passes(c)
      PROVE  Passes(a) /\ Passes(b)
  <2>1. \A i \in 1 .. m : i \in 1 .. m + n
    BY <1>2
  <2>2. \A i \in 1 .. n : m + i \in 1 .. m + n
    BY <1>2
  <2>3. \A i \in 1 .. m + n : ~ c[i].fails
    BY <1>3, <1>8 DEF Passes
  <2>4. \A i \in 1 .. m : ~ a[i].fails
    BY <1>4, <2>1, <2>3
  <2>5. \A i \in 1 .. n : ~ b[i].fails
    BY <1>5, <2>2, <2>3
  <2>. QED
    BY <1>2, <2>4, <2>5 DEF Passes
<1>9. /\ IsList(c) /\ Len(c) = m + n
      /\ \A i \in 1 .. m : c[i] = a[i]
      /\ \A i \in 1 .. n : c[m + i] = b[i]
      /\ ToSet(c) = ToSet(a) \cup ToSet(b)
      /\ Passes(c) => Passes(a) /\ Passes(b)
  BY <1>3, <1>4, <1>5, <1>6, <1>7, <1>8
<1>. QED
  BY <1>9 DEF c, m, n

(* Checks one after the other pass if both do.                             *)
LEMMA JoinedChecks ==
  \A a, b : IsList(a) /\ IsList(b) =>
    IsList(a \o b) /\ (Passes(a \o b) => Passes(a) /\ Passes(b))
BY JoinedLists

(* A check passes if it does not fail.                                     *)
LEMMA OneCheck ==
  ASSUME NEW text, NEW named, NEW fails
  PROVE  /\ IsList(Check(text, named, fails))
         /\ Passes(Check(text, named, fails)) => ~ fails
<1> DEFINE c == [text |-> text, named |-> named, fails |-> fails]
<1>1. <<c>> \in Seq({c}) /\ DOMAIN <<c>> = {1} /\ <<c>>[1] = c
  OBVIOUS
<1>2. Check(text, named, fails) = <<c>>
  BY DEF Check
<1>3. c.fails = fails
  OBVIOUS
<1>. HIDE DEF c
<1>4. IsList(<<c>>)
  BY <1>1, ListsAreLists
<1>5. Passes(<<c>>) => ~ c.fails
  BY <1>1 DEF Passes
<1>. QED
  BY <1>2, <1>3, <1>4, <1>5

(* FlattenSeq joins the lists of a list.                                   *)
LEMMA FlattenedLists ==
  ASSUME NEW seqs, IsList(seqs), \A i \in DOMAIN seqs : IsList(seqs[i])
  PROVE  /\ IsList(FlattenSeq(seqs))
         /\ ToSet(FlattenSeq(seqs)) = UNION {ToSet(seqs[i]) : i \in DOMAIN seqs}
<1> DEFINE n == Len(seqs)
           E == UNION {ToSet(seqs[i]) : i \in DOMAIN seqs}
           Iterates(h) == h = [i \in 1 .. n |-> IF i = 1 THEN seqs[i] ELSE h[i - 1] \o seqs[i]]
           flatten == CHOOSE h : Iterates(h)
<1>1. n \in Nat /\ DOMAIN seqs = 1 .. n /\ IsFiniteSet(1 .. n)
  BY ListFacts, FS_Interval
<1>2. CASE n = 0
  <2>1. seqs = << >>
    BY <1>1, <1>2, EmptySeq DEF IsList
  <2>2. FlattenSeq(seqs) = << >> /\ DOMAIN seqs = {}
    BY <1>1, <1>2, <2>1 DEF FlattenSeq
  <2>. QED
    BY <2>2, EmptyList
<1>3. CASE n # 0
  <2>1. FlattenSeq(seqs) = flatten[n]
    BY <1>3 DEF FlattenSeq
  <2>2. \A i \in 1 .. n : seqs[i] \in Seq(E)
    <3>1. ASSUME NEW i \in 1 .. n
          PROVE  seqs[i] \in Seq(E)
      <4>1. seqs[i] \in Seq(ToSet(seqs[i])) /\ ToSet(seqs[i]) \subseteq E
        BY <1>1, <3>1 DEF IsList
      <4>. QED
        BY <4>1, SeqMonotonic
    <3>. QED
      BY <3>1
  <2> DEFINE A == Seq(E)
             step == [p \in (1 .. n) \X A |-> IF p[1] = 1 THEN seqs[1] ELSE p[2] \o seqs[p[1]]]
  <2>3. \A a \in A, k \in 1 .. n : step[<<k, a>>] = IF k = 1 THEN seqs[1] ELSE a \o seqs[k]
    OBVIOUS
  <2>4. << >> \in A /\ \A a \in A, k \in 1 .. n : a \o seqs[k] \in A /\ seqs[k] \in A
    BY <2>2
  <2>. HIDE DEF n, E, flatten, A, step
  <2>5. StaysIn(step, 1 .. n, A)
    <3>1. 1 \in 1 .. n
      BY <1>1, <1>3
    <3>. QED
      BY <2>3, <2>4, <3>1 DEF StaysIn
  <2>6. PICK g \in [SUBSET (1 .. n) -> A] : LeftFolds(g, n, << >>, step)
    <3>. DEFINE base == << >>
    <3>1. base \in A
      BY <2>4
    <3>. HIDE DEF base
    <3>2. \E g \in [SUBSET (1 .. n) -> A] : LeftFolds(g, n, base, step)
      BY <1>1, <2>5, <3>1, LeftFoldExists
    <3>. QED
      BY <3>2 DEF base
  <2> DEFINE f == [k \in 1 .. n |-> g[1 .. k]]
  <2>7. ASSUME NEW k \in 1 .. n
        PROVE  f[k] = IF k = 1 THEN seqs[k] ELSE f[k - 1] \o seqs[k]
    <3>1. /\ 1 .. k \in SUBSET (1 .. n) /\ 1 .. k # {}
          /\ Max(1 .. k) = k /\ (1 .. k) \ {k} = 1 .. (k - 1)
      BY <1>1, LastOfInterval
    <3>2. g[1 .. k] = step[<<k, g[1 .. (k - 1)]>>]
      BY <2>6, <3>1 DEF LeftFolds
    <3>3. 1 .. (k - 1) \in SUBSET (1 .. n)
      BY <1>1
    <3>4. g[1 .. (k - 1)] \in A
      BY <2>6, <3>3
    <3>5. g[1 .. k] = IF k = 1 THEN seqs[1] ELSE g[1 .. (k - 1)] \o seqs[k]
      BY <2>3, <3>2, <3>4
    <3>6. k # 1 => k - 1 \in 1 .. n
      BY <1>1
    <3>7. f[k] = g[1 .. k] /\ (k # 1 => f[k - 1] = g[1 .. (k - 1)])
      BY <3>6
    <3>. QED
      BY <3>5, <3>7
  <2>8. Iterates(f)
    <3>1. DOMAIN f = 1 .. n /\ f = [k \in 1 .. n |-> f[k]]
      OBVIOUS
    <3>. HIDE DEF f
    <3>. QED
      BY <2>7, <3>1
  <2>9. Iterates(flatten)
    <3>. HIDE DEF Iterates, f
    <3>. QED
      BY <2>8, Zenon DEF flatten
  <2>10. \A k \in 1 .. n : flatten[k] = IF k = 1 THEN seqs[k] ELSE flatten[k - 1] \o seqs[k]
    BY <2>9
  <2>. HIDE DEF Iterates, f
  <2> DEFINE U(k) == UNION {ToSet(seqs[i]) : i \in 1 .. k}
             T == {k \in 0 .. n : k # 0 => IsList(flatten[k]) /\ ToSet(flatten[k]) = U(k)}
  <2>11. \A k \in 0 .. n : k \in T
    <3>1. 0 \in T
      BY <1>1
    <3>2. ASSUME NEW k \in 1 .. n, k - 1 \in T
          PROVE  k \in T
      <4>1. k \in 0 .. n /\ k # 0 /\ IsList(seqs[k])
        BY <1>1
      <4>2. CASE k = 1
        <5>1. flatten[k] = seqs[k]
          BY <2>10, <4>2
        <5>2. U(k) = ToSet(seqs[k])
          BY <4>2
        <5>. QED
          BY <4>1, <5>1, <5>2
      <4>3. CASE k # 1
        <5>1. k - 1 # 0 /\ k - 1 \in 1 .. n
          BY <1>1, <4>3
        <5>2. IsList(flatten[k - 1]) /\ ToSet(flatten[k - 1]) = U(k - 1)
          BY <3>2, <5>1
        <5>3. flatten[k] = flatten[k - 1] \o seqs[k]
          BY <2>10, <4>3
        <5>4. IsList(flatten[k]) /\ ToSet(flatten[k]) = U(k - 1) \cup ToSet(seqs[k])
          BY <4>1, <5>2, <5>3, JoinedLists
        <5>5. 1 .. k = (1 .. (k - 1)) \cup {k}
          BY <1>1
        <5>6. U(k) = U(k - 1) \cup ToSet(seqs[k])
          BY <5>5
        <5>. QED
          BY <4>1, <5>4, <5>6
      <4>. QED
        BY <4>2, <4>3
    <3>. HIDE DEF T
    <3>. QED
      BY <1>1, <3>1, <3>2, InductionTo
  <2>12. n \in 0 .. n
    BY <1>1
  <2>13. IsList(flatten[n]) /\ ToSet(flatten[n]) = U(n)
    BY <1>3, <2>11, <2>12
  <2>. QED
    BY <1>1, <2>1, <2>13
<1>. QED
  BY <1>2, <1>3

(* What the checks of every element of a list come to.                     *)
LEMMA ChecksInOrder ==
  ASSUME NEW list, IsList(list),
         NEW seqs, DOMAIN seqs = DOMAIN list, seqs = [i \in DOMAIN list |-> seqs[i]],
         \A i \in DOMAIN list : IsList(seqs[i])
  PROVE  /\ IsList(FlattenSeq(seqs))
         /\ Passes(FlattenSeq(seqs)) => \A i \in DOMAIN list : Passes(seqs[i])
<1>1. IsList(seqs)
  BY ListFacts, FunctionsAreLists
<1>2. IsList(FlattenSeq(seqs)) /\ ToSet(FlattenSeq(seqs)) = UNION {ToSet(seqs[i]) : i \in DOMAIN seqs}
  BY <1>1, FlattenedLists
<1>3. ASSUME Passes(FlattenSeq(seqs)), NEW i \in DOMAIN list, NEW k \in DOMAIN seqs[i]
      PROVE  ~ seqs[i][k].fails
  <2>1. seqs[i][k] \in ToSet(seqs[i])
    BY <1>3 DEF ToSet
  <2>2. seqs[i][k] \in ToSet(FlattenSeq(seqs))
    BY <1>2, <1>3, <2>1
  <2>3. PICK j \in DOMAIN FlattenSeq(seqs) : seqs[i][k] = FlattenSeq(seqs)[j]
    BY <2>2 DEF ToSet
  <2>. QED
    BY <1>3, <2>3 DEF Passes
<1>. QED
  BY <1>2, <1>3 DEF Passes

(***************************************************************************)
(* What an accepted pipeline's checks say.  Declared: the lists of a       *)
(* processor's declarations.                                               *)
(***************************************************************************)
Declared(p) ==
  \A field \in {"inputs", "outputs", "outputIds", "metrics", "events"} : IsList(p[field])

DeclaredLists(list) == IsList(list) /\ \A s \in DOMAIN list : Declared(list[s])

(* The lists of checks of values and keys.                                 *)
LEMMA InlineValueChecks ==
  ASSUME NEW value, NEW label
  PROVE  IsList(InlineValue(value, label))
BY OneCheck, JoinedLists DEF InlineValue

(* The same of a produced or an input key.                                 *)
LEMMA KeyCheckList ==
  ASSUME NEW key, NEW label
  PROVE  IsList(KeyChecks(key, label))
<1> DEFINE a == InlineValue(key.value, "metadata value")
           b == Check("metadata value exceeds slot", label, key.value.size > MaxValueSize)
           c == Check("metadata id must be nonzero", label, key.id = 0)
<1>1. KeyChecks(key, label) = (a \o b) \o c
  BY DEF KeyChecks
<1>2. IsList(a) /\ IsList(b) /\ IsList(c)
  BY InlineValueChecks, OneCheck
<1>. HIDE DEF a, b, c
<1>3. IsList(a \o b)
  BY <1>2, JoinedLists
<1>. QED
  BY <1>1, <1>2, <1>3, JoinedLists

(* A stage consumes what is offered, with the type it is offered with.     *)
LEMMA ConsumedKeys ==
  ASSUME NEW list, DeclaredLists(list), NEW keys, NEW s \in DOMAIN list
  PROVE  /\ IsList(ConsumedChecks(list, keys, s))
         /\ Passes(ConsumedChecks(list, keys, s)) =>
              \A i \in DOMAIN list[s].inputs :
                /\ ~ TypeConflict(Offered(list, keys, s), list[s].inputs[i])
                /\ KeyIndex(Offered(list, keys, s), list[s].inputs[i]) # {}
<1> DEFINE offered == Offered(list, keys, s)
           own == list[s].inputs
           a(i) == InlineValue(own[i].value, "metadata value")
           b(i) == Check("metadata type conflict", "consumed", TypeConflict(offered, own[i]))
           c(i) == Check("metadata consumed before producer", "consumed", KeyIndex(offered, own[i]) = {})
           seqs == [i \in DOMAIN own |-> (a(i) \o b(i)) \o c(i)]
<1>1. ConsumedChecks(list, keys, s) = FlattenSeq(seqs)
  BY DEF ConsumedChecks, InOrderOf
<1>2. ASSUME NEW i \in DOMAIN own
      PROVE  /\ IsList((a(i) \o b(i)) \o c(i))
             /\ Passes((a(i) \o b(i)) \o c(i)) =>
                  ~ TypeConflict(offered, own[i]) /\ KeyIndex(offered, own[i]) # {}
  <2>1. IsList(a(i))
    BY InlineValueChecks
  <2>2. IsList(b(i)) /\ (Passes(b(i)) => ~ TypeConflict(offered, own[i]))
    BY OneCheck
  <2>3. IsList(c(i)) /\ (Passes(c(i)) => KeyIndex(offered, own[i]) # {})
    BY OneCheck
  <2>. HIDE DEF a, b, c, offered, own
  <2>4. IsList(a(i) \o b(i)) /\ (Passes(a(i) \o b(i)) => Passes(b(i)))
    BY <2>1, <2>2, JoinedLists
  <2>5. /\ IsList((a(i) \o b(i)) \o c(i))
        /\ Passes((a(i) \o b(i)) \o c(i)) => Passes(a(i) \o b(i)) /\ Passes(c(i))
    BY <2>3, <2>4, JoinedLists
  <2>. QED
    BY <2>2, <2>3, <2>4, <2>5
<1>3. IsList(own)
  BY DEF DeclaredLists, Declared
<1>. HIDE DEF a, b, c, offered, own
<1>4. /\ DOMAIN seqs = DOMAIN own /\ seqs = [i \in DOMAIN own |-> seqs[i]]
      /\ \A i \in DOMAIN own : seqs[i] = (a(i) \o b(i)) \o c(i)
  OBVIOUS
<1>. HIDE DEF seqs
<1>5. \A i \in DOMAIN own : IsList(seqs[i])
  BY <1>2, <1>4
<1>6. /\ IsList(FlattenSeq(seqs))
      /\ Passes(FlattenSeq(seqs)) => \A i \in DOMAIN own : Passes(seqs[i])
  BY <1>3, <1>4, <1>5, ChecksInOrder
<1>7. Passes(FlattenSeq(seqs)) =>
        \A i \in DOMAIN own : ~ TypeConflict(offered, own[i]) /\ KeyIndex(offered, own[i]) # {}
  BY <1>2, <1>4, <1>6
<1>. QED
  BY <1>1, <1>6, <1>7 DEF own, offered

(* Nobody produces a key that an earlier stage produces exclusively, or    *)
(* holds exclusively what an earlier stage produces.                       *)
LEMMA ProducersOfOneKey ==
  ASSUME NEW earlier, Declared(earlier), NEW key
  PROVE  /\ IsList(ProducerChecks(earlier, key))
         /\ Passes(ProducerChecks(earlier, key)) =>
              \A e \in DOMAIN earlier.outputs :
                earlier.outputs[e].id = key.id =>
                  ~ (earlier.outputs[e].exclusive \/ key.exclusive)
<1> DEFINE own == earlier.outputs
           a(e) == Check("metadata producer type conflict", "produced", own[e].value # key.value)
           b(e) == Check("duplicate exclusive metadata producer", "produced",
                         own[e].exclusive \/ key.exclusive)
           seqs == [e \in DOMAIN own |-> IF own[e].id # key.id THEN << >> ELSE a(e) \o b(e)]
<1>1. ProducerChecks(earlier, key) = FlattenSeq(seqs)
  BY DEF ProducerChecks, InOrderOf
<1>2. ASSUME NEW e \in DOMAIN own
      PROVE  /\ IsList(a(e) \o b(e))
             /\ Passes(a(e) \o b(e)) => ~ (own[e].exclusive \/ key.exclusive)
  <2>1. IsList(a(e))
    BY OneCheck
  <2>2. IsList(b(e)) /\ (Passes(b(e)) => ~ (own[e].exclusive \/ key.exclusive))
    BY OneCheck
  <2>. HIDE DEF a, b, own
  <2>. QED
    BY <2>1, <2>2, JoinedLists
<1>3. IsList(own)
  BY DEF Declared
<1>. HIDE DEF a, b, own
<1>4. /\ DOMAIN seqs = DOMAIN own /\ seqs = [e \in DOMAIN own |-> seqs[e]]
      /\ \A e \in DOMAIN own : seqs[e] = IF own[e].id # key.id THEN << >> ELSE a(e) \o b(e)
  OBVIOUS
<1>. HIDE DEF seqs
<1>5. \A e \in DOMAIN own : IsList(seqs[e])
  BY <1>2, <1>4, EmptyList
<1>6. /\ IsList(FlattenSeq(seqs))
      /\ Passes(FlattenSeq(seqs)) => \A e \in DOMAIN own : Passes(seqs[e])
  BY <1>3, <1>4, <1>5, ChecksInOrder
<1>7. Passes(FlattenSeq(seqs)) =>
        \A e \in DOMAIN own : own[e].id = key.id => ~ (own[e].exclusive \/ key.exclusive)
  BY <1>2, <1>4, <1>6
<1>. QED
  BY <1>1, <1>6, <1>7 DEF own

(* Every stage's produced keys, against all earlier stages.                *)
LEMMA ProducedKeys ==
  ASSUME NEW list, DeclaredLists(list), NEW s \in DOMAIN list
  PROVE  /\ IsList(ProducedChecks(list, s))
         /\ Passes(ProducedChecks(list, s)) =>
              \A i \in DOMAIN list[s].outputs, t \in 1 .. s - 1 :
                \A e \in DOMAIN list[t].outputs :
                  list[t].outputs[e].id = list[s].outputs[i].id =>
                    ~ (list[t].outputs[e].exclusive \/ list[s].outputs[i].exclusive)
<1> DEFINE own == list[s].outputs
           before == SubSeq(list, 1, s - 1)
           a(i) == KeyChecks(own[i], "produced")
           b(i) == Check("duplicate metadata producer in one stage", "produced",
                         \E e \in 1 .. i - 1 : own[e].id = own[i].id)
           seqsOf(i) == [t \in DOMAIN before |-> ProducerChecks(list[t], own[i])]
           c(i) == FlattenSeq(seqsOf(i))
           Alone(t, i) == \A e \in DOMAIN list[t].outputs :
                            list[t].outputs[e].id = own[i].id =>
                              ~ (list[t].outputs[e].exclusive \/ own[i].exclusive)
           seqs == [i \in DOMAIN own |-> (a(i) \o b(i)) \o c(i)]
<1>1. ProducedChecks(list, s) = FlattenSeq(seqs)
  BY DEF ProducedChecks, InOrderOf
<1>2. /\ IsList(list) /\ IsList(own)
      /\ \A t \in DOMAIN list : Declared(list[t])
  BY DEF DeclaredLists, Declared
<1>3. /\ DOMAIN before = 1 .. s - 1 /\ IsList(before)
      /\ \A t \in 1 .. s - 1 : t \in DOMAIN list
  <2>1. Len(list) \in Nat /\ DOMAIN list = 1 .. Len(list) /\ list \in Seq(ToSet(list))
    BY <1>2, ListFacts
  <2>2. s - 1 \in 0 .. Len(list) /\ s \in 1 .. Len(list)
    BY <2>1
  <2>3. before \in Seq(ToSet(list)) /\ Len(before) = s - 1
    BY <2>1, <2>2
  <2>4. DOMAIN before = 1 .. s - 1
    BY <2>3
  <2>. HIDE DEF before
  <2>. QED
    BY <2>1, <2>2, <2>3, <2>4, ListsAreLists
<1>4. ASSUME NEW i \in DOMAIN own
      PROVE  /\ IsList(c(i))
             /\ Passes(c(i)) => \A t \in 1 .. s - 1 : Alone(t, i)
  <2> DEFINE f == seqsOf(i)
  <2>1. /\ DOMAIN f = DOMAIN before /\ f = [t \in DOMAIN before |-> f[t]]
        /\ \A t \in DOMAIN before : f[t] = ProducerChecks(list[t], own[i])
    OBVIOUS
  <2>2. \A t \in DOMAIN before :
          /\ IsList(ProducerChecks(list[t], own[i]))
          /\ Passes(ProducerChecks(list[t], own[i])) => Alone(t, i)
    <3>1. ASSUME NEW t \in DOMAIN before
          PROVE  /\ IsList(ProducerChecks(list[t], own[i]))
                 /\ Passes(ProducerChecks(list[t], own[i])) => Alone(t, i)
      <4>1. Declared(list[t])
        BY <1>2, <1>3, <3>1
      <4>. QED
        BY <4>1, ProducersOfOneKey
    <3>. QED
      BY <3>1
  <2>3. c(i) = FlattenSeq(f)
    OBVIOUS
  <2>. HIDE DEF f, Alone, own, before, c
  <2>4. \A t \in DOMAIN before : IsList(f[t])
    BY <2>1, <2>2
  <2>5. /\ IsList(FlattenSeq(f))
        /\ Passes(FlattenSeq(f)) => \A t \in DOMAIN before : Passes(f[t])
    BY <1>3, <2>1, <2>4, ChecksInOrder
  <2>. QED
    BY <1>3, <2>1, <2>2, <2>3, <2>5
<1>5. ASSUME NEW i \in DOMAIN own
      PROVE  /\ IsList((a(i) \o b(i)) \o c(i))
             /\ Passes((a(i) \o b(i)) \o c(i)) => \A t \in 1 .. s - 1 : Alone(t, i)
  <2>1. IsList(a(i)) /\ IsList(b(i))
    BY KeyCheckList, OneCheck
  <2>2. IsList(c(i)) /\ (Passes(c(i)) => \A t \in 1 .. s - 1 : Alone(t, i))
    BY <1>4
  <2>. HIDE DEF a, b, c, own, Alone
  <2>3. IsList(a(i) \o b(i))
    BY <2>1, JoinedLists
  <2>. QED
    BY <2>2, <2>3, JoinedLists
<1>. HIDE DEF a, b, c, own, Alone, seqsOf, before
<1>6. /\ DOMAIN seqs = DOMAIN own /\ seqs = [i \in DOMAIN own |-> seqs[i]]
      /\ \A i \in DOMAIN own : seqs[i] = (a(i) \o b(i)) \o c(i)
  OBVIOUS
<1>. HIDE DEF seqs
<1>7. \A i \in DOMAIN own : IsList(seqs[i])
  BY <1>5, <1>6
<1>8. /\ IsList(FlattenSeq(seqs))
      /\ Passes(FlattenSeq(seqs)) => \A i \in DOMAIN own : Passes(seqs[i])
  BY <1>2, <1>6, <1>7, ChecksInOrder
<1>9. Passes(FlattenSeq(seqs)) => \A i \in DOMAIN own : \A t \in 1 .. s - 1 : Alone(t, i)
  BY <1>5, <1>6, <1>8
<1>. QED
  BY <1>1, <1>8, <1>9 DEF own, Alone

(* What an accepted pipeline's metadata satisfy.                           *)
MetadataAccepted(list, keys) ==
  /\ \A i \in DOMAIN keys : \A e \in 1 .. i - 1 : keys[e].id # keys[i].id
  /\ \A s \in DOMAIN list : \A i \in DOMAIN list[s].inputs :
       /\ ~ TypeConflict(Offered(list, keys, s), list[s].inputs[i])
       /\ KeyIndex(Offered(list, keys, s), list[s].inputs[i]) # {}
  /\ \A s \in DOMAIN list : \A t \in 1 .. s - 1 :
       \A i \in DOMAIN list[s].outputs : \A e \in DOMAIN list[t].outputs :
         list[t].outputs[e].id = list[s].outputs[i].id =>
           ~ (list[t].outputs[e].exclusive \/ list[s].outputs[i].exclusive)

(* validateMetadata accepts nothing else.                                  *)
LEMMA MetadataCheckList ==
  ASSUME NEW list, DeclaredLists(list), NEW keys, IsList(keys)
  PROVE  /\ IsList(MetadataChecks(list, keys))
         /\ Passes(MetadataChecks(list, keys)) => MetadataAccepted(list, keys)
<1> DEFINE a(i) == KeyChecks(keys[i], "input")
           Again(i) == \E e \in 1 .. i - 1 : keys[e].id = keys[i].id
           b(i) == Check("duplicate input metadata id", "input", Again(i))
           c(s) == ConsumedChecks(list, keys, s)
           d(s) == ProducedChecks(list, s)
           seqs == [i \in DOMAIN keys |-> a(i) \o b(i)]
           rest == [s \in DOMAIN list |-> c(s) \o d(s)]
           Consumed(s) == \A i \in DOMAIN list[s].inputs :
                            /\ ~ TypeConflict(Offered(list, keys, s), list[s].inputs[i])
                            /\ KeyIndex(Offered(list, keys, s), list[s].inputs[i]) # {}
           Produced(s) == \A i \in DOMAIN list[s].outputs, t \in 1 .. s - 1 :
                            \A e \in DOMAIN list[t].outputs :
                              list[t].outputs[e].id = list[s].outputs[i].id =>
                                ~ (list[t].outputs[e].exclusive \/ list[s].outputs[i].exclusive)
<1>1. MetadataChecks(list, keys) = FlattenSeq(seqs) \o FlattenSeq(rest)
  BY DEF MetadataChecks, InOrderOf
<1>2. (\A i \in DOMAIN keys : ~ Again(i)) /\ (\A s \in DOMAIN list : Consumed(s) /\ Produced(s))
        => MetadataAccepted(list, keys)
  BY DEF MetadataAccepted
<1>3. \A i \in DOMAIN keys :
        IsList(a(i)) /\ IsList(b(i)) /\ (Passes(b(i)) => ~ Again(i))
  BY KeyCheckList, OneCheck
<1>4. \A s \in DOMAIN list :
        /\ IsList(c(s)) /\ IsList(d(s))
        /\ Passes(c(s)) => Consumed(s)
        /\ Passes(d(s)) => Produced(s)
  BY ConsumedKeys, ProducedKeys
<1>5. IsList(list)
  BY DEF DeclaredLists
<1>. HIDE DEF a, b, c, d, Again, Consumed, Produced
<1>6. /\ DOMAIN seqs = DOMAIN keys /\ seqs = [i \in DOMAIN keys |-> seqs[i]]
      /\ \A i \in DOMAIN keys : seqs[i] = a(i) \o b(i)
      /\ DOMAIN rest = DOMAIN list /\ rest = [s \in DOMAIN list |-> rest[s]]
      /\ \A s \in DOMAIN list : rest[s] = c(s) \o d(s)
  OBVIOUS
<1>. HIDE DEF seqs, rest
<1>7. \A i \in DOMAIN keys : IsList(seqs[i]) /\ (Passes(seqs[i]) => ~ Again(i))
  BY <1>3, <1>6, JoinedChecks
<1>8. \A s \in DOMAIN list : IsList(rest[s]) /\ (Passes(rest[s]) => Consumed(s) /\ Produced(s))
  BY <1>4, <1>6, JoinedChecks
<1>9. /\ IsList(FlattenSeq(seqs))
      /\ Passes(FlattenSeq(seqs)) => \A i \in DOMAIN keys : Passes(seqs[i])
  BY <1>6, <1>7, ChecksInOrder
<1>10. /\ IsList(FlattenSeq(rest))
       /\ Passes(FlattenSeq(rest)) => \A s \in DOMAIN list : Passes(rest[s])
  BY <1>5, <1>6, <1>8, ChecksInOrder
<1>11. /\ IsList(FlattenSeq(seqs) \o FlattenSeq(rest))
       /\ Passes(FlattenSeq(seqs) \o FlattenSeq(rest)) =>
            Passes(FlattenSeq(seqs)) /\ Passes(FlattenSeq(rest))
  BY <1>9, <1>10, JoinedLists
<1>. QED
  BY <1>1, <1>2, <1>7, <1>8, <1>9, <1>10, <1>11

(* The remaining groups of checks are lists, too.                          *)
LEMMA SchemaCheckList ==
  ASSUME NEW list, DeclaredLists(list), NEW s \in DOMAIN list,
         NEW schema \in {"metrics", "events"}
  PROVE  IsList(SchemaChecks(list, s, schema))
<1> DEFINE own == list[s][schema]
           earlier == UNION {ToSet(list[e][schema]) : e \in 1 .. s - 1}
           m(i) == Wrong(own[i], "id", "requires id") \o Missing(own[i], ValueMember(schema))
           a(i) == Check("requires nonzero bound", schema, own[i].bound = 0)
           b(i) == InlineValue(own[i].value, schema)
           c(i) == Check("duplicate id", schema, \E e \in 1 .. i - 1 : own[e].id = own[i].id)
           d(i) == Check("conflicting declaration across pipeline", schema,
                         \E other \in earlier :
                           /\ other.id = own[i].id
                           /\ <<other.value, other.bound>> # <<own[i].value, own[i].bound>>)
           seqs == [i \in DOMAIN own |-> (((m(i) \o a(i)) \o b(i)) \o c(i)) \o d(i)]
<1>1. SchemaChecks(list, s, schema) = FlattenSeq(seqs)
  BY DEF SchemaChecks, InOrderOf
<1>2. \A i \in DOMAIN own : IsList(a(i)) /\ IsList(b(i)) /\ IsList(c(i)) /\ IsList(d(i))
  BY OneCheck, InlineValueChecks
<1>6. \A i \in DOMAIN own : IsList(m(i))
  BY OneCheck, JoinedChecks DEF Wrong, Missing
<1>3. IsList(own)
  BY DEF DeclaredLists, Declared
<1>. HIDE DEF m, a, b, c, d, own, earlier
<1>4. /\ DOMAIN seqs = DOMAIN own /\ seqs = [i \in DOMAIN own |-> seqs[i]]
      /\ \A i \in DOMAIN own : seqs[i] = (((m(i) \o a(i)) \o b(i)) \o c(i)) \o d(i)
  OBVIOUS
<1>. HIDE DEF seqs
<1>5. \A i \in DOMAIN own : IsList(seqs[i])
  BY <1>2, <1>4, <1>6, JoinedChecks
<1>. QED
  BY <1>1, <1>3, <1>4, <1>5, ChecksInOrder

(* The checks of output ids and of functions, inside those of a processor. *)
OutputIdChecks(p) ==
  InOrderOf(p.outputIds, LAMBDA i :
    Check("invalid id", "output", p.outputIds[i] = 0)
    \o Check("duplicate id", "output", \E e \in 1 .. i - 1 : p.outputIds[e] = p.outputIds[i]))

MemberChecks(p) ==
  InOrderOf(Functions, LAMBDA f :
    Missing(p, Functions[f]) \o Wrong(p, Functions[f], "has wrong signature"))

(* The output ids of one processor.                                        *)
LEMMA OutputIdCheckList ==
  ASSUME NEW p, Declared(p)
  PROVE  IsList(OutputIdChecks(p))
<1> DEFINE own == p.outputIds
           a(i) == Check("invalid id", "output", own[i] = 0)
           b(i) == Check("duplicate id", "output", \E e \in 1 .. i - 1 : own[e] = own[i])
           seqs == [i \in DOMAIN own |-> a(i) \o b(i)]
<1>1. OutputIdChecks(p) = FlattenSeq(seqs)
  BY DEF OutputIdChecks, InOrderOf
<1>2. \A i \in DOMAIN own : IsList(a(i)) /\ IsList(b(i))
  BY OneCheck
<1>3. IsList(own)
  BY DEF Declared
<1>. HIDE DEF a, b, own
<1>4. /\ DOMAIN seqs = DOMAIN own /\ seqs = [i \in DOMAIN own |-> seqs[i]]
      /\ \A i \in DOMAIN own : seqs[i] = a(i) \o b(i)
  OBVIOUS
<1>. HIDE DEF seqs
<1>5. \A i \in DOMAIN own : IsList(seqs[i])
  BY <1>2, <1>4, JoinedChecks
<1>. QED
  BY <1>1, <1>3, <1>4, <1>5, ChecksInOrder

(* The declarations that every processor has.                              *)
LEMMA MemberCheckList ==
  ASSUME NEW p
  PROVE  IsList(MemberChecks(p))
<1> DEFINE own == Functions
           a(i) == Missing(p, own[i])
           b(i) == Wrong(p, own[i], "has wrong signature")
           seqs == [i \in DOMAIN own |-> a(i) \o b(i)]
<1>1. MemberChecks(p) = FlattenSeq(seqs)
  BY DEF MemberChecks, InOrderOf
<1>2. \A i \in DOMAIN own : IsList(a(i)) /\ IsList(b(i))
  BY OneCheck DEF Missing, Wrong
<1>3. IsList(own)
  <2>1. own \in Seq({"estimateResources", "prepare", "instantiate", "deinitWorker",
                     "deinitPrepared", "processBatch"})
    BY DEF Functions
  <2>. QED
    BY <2>1, ListsAreLists
<1>. HIDE DEF a, b, own
<1>4. /\ DOMAIN seqs = DOMAIN own /\ seqs = [i \in DOMAIN own |-> seqs[i]]
      /\ \A i \in DOMAIN own : seqs[i] = a(i) \o b(i)
  OBVIOUS
<1>. HIDE DEF seqs
<1>5. \A i \in DOMAIN own : IsList(seqs[i])
  BY <1>2, <1>4, JoinedChecks
<1>. QED
  BY <1>1, <1>3, <1>4, <1>5, ChecksInOrder

(* All that is checked of one processor.                                   *)
LEMMA ProcessorCheckList ==
  ASSUME NEW p, Declared(p)
  PROVE  IsList(ProcessorChecks(p))
<1>1. IsList(WorkChecks(p.work))
  BY OneCheck, JoinedChecks DEF WorkChecks
<1>2. IsList(StateChecks(p))
  BY OneCheck, JoinedChecks DEF StateChecks
<1>3. IsList(PolicyChecks(p))
  <2>1. IsList(TerminalChecks(p, p.policy.terminal))
    BY OneCheck, JoinedChecks DEF TerminalChecks
  <2>. QED
    BY <2>1, EmptyList, OneCheck, JoinedChecks DEF PolicyChecks
<1>4. \A member, text : IsList(Missing(p, member)) /\ IsList(Wrong(p, member, text))
  BY OneCheck DEF Missing, Wrong
<1> DEFINE c1 == Missing(p, "descriptor")
           c2 == Wrong(p, "descriptor", "has wrong type")
           c3 == Missing(p, "Prepared")
           c4 == Missing(p, "Worker")
           c5 == Check("invalid id", "processor", p.id = 0)
           c6 == Check("API mismatch", "processor", p.api # ApiVersion)
           c7 == Check("artifact requirement is inconsistent", "processor",
                       p.needsArtifact # p.namesArtifact)
           c8 == Check("metadata/resource mismatch", "processor",
                       p.metadataScratch # (p.inputs \o p.outputs # << >>))
           work == WorkChecks(p.work)
           state == StateChecks(p)
           policy == PolicyChecks(p)
           outputs == OutputIdChecks(p)
           members == MemberChecks(p)
<1>5. IsList(outputs) /\ IsList(members)
  BY OutputIdCheckList, MemberCheckList
<1>6. ProcessorChecks(p) =
        c1 \o c2 \o c3 \o c4 \o c5 \o c6 \o c7 \o c8 \o work \o outputs \o state \o policy \o members
  BY DEF ProcessorChecks, OutputIdChecks, MemberChecks
<1>7. IsList(c1) /\ IsList(c2) /\ IsList(c3) /\ IsList(c4)
  BY <1>4
<1>8. IsList(c5) /\ IsList(c6) /\ IsList(c7) /\ IsList(c8)
  BY OneCheck
<1>9. IsList(work) /\ IsList(state) /\ IsList(policy)
  BY <1>1, <1>2, <1>3
<1>. HIDE DEF c1, c2, c3, c4, c5, c6, c7, c8, work, state, policy, outputs, members
<1>10. IsList(c1 \o c2 \o c3 \o c4 \o c5 \o c6 \o c7 \o c8)
  BY <1>7, <1>8, JoinedChecks
<1>. QED
  BY <1>5, <1>6, <1>9, <1>10, JoinedChecks

(* What the compiler accepts: its metadata, and a layout that conflicts    *)
(* with no produced key.                                                   *)
LEMMA AcceptedPipeline ==
  ASSUME NEW list, DeclaredLists(list), NEW keys, IsList(keys), Accepted(list, keys)
  PROVE  /\ MetadataAccepted(list, keys)
         /\ \A s \in DOMAIN list : \A key \in ToSet(list[s].outputs) :
              ~ TypeConflict(AllMetadataKeys(list, keys), key)
<1> DEFINE Twice(s) == \E e \in 1 .. s - 1 : list[e].id = list[s].id
           a(s) == ProcessorChecks(list[s]) \o Check("duplicate id", "processor", Twice(s))
           b(s) == SchemaChecks(list, s, "metrics") \o SchemaChecks(list, s, "events")
           first == [s \in DOMAIN list |-> a(s)]
           third == [s \in DOMAIN list |-> b(s)]
           layout == AllMetadataKeys(list, keys)
           Conflict == \E s \in DOMAIN list : \E key \in ToSet(list[s].outputs) : TypeConflict(layout, key)
           c == Check("metadata type conflict for key id", "pipeline", Conflict)
           d == Check("pipeline exceeds metadata key capacity", "pipeline", Len(layout) > MaxKeys)
<1>1. PipelineChecks(list, keys) =
        ((FlattenSeq(first) \o MetadataChecks(list, keys)) \o FlattenSeq(third)) \o (c \o d)
  BY DEF PipelineChecks, InOrderOf, LayoutChecks
<1>2. ~ Conflict => \A s \in DOMAIN list : \A key \in ToSet(list[s].outputs) : ~ TypeConflict(layout, key)
  OBVIOUS
<1>3. IsList(c) /\ IsList(d) /\ (Passes(c) => ~ Conflict)
  BY OneCheck
<1>4. \A s \in DOMAIN list : IsList(a(s)) /\ IsList(b(s))
  <2>1. ASSUME NEW s \in DOMAIN list
        PROVE  IsList(a(s)) /\ IsList(b(s))
    <3>1. IsList(ProcessorChecks(list[s]))
      BY ProcessorCheckList DEF DeclaredLists
    <3>2. IsList(SchemaChecks(list, s, "metrics")) /\ IsList(SchemaChecks(list, s, "events"))
      BY SchemaCheckList
    <3>3. IsList(Check("duplicate id", "processor", Twice(s)))
      BY OneCheck
    <3>. HIDE DEF Twice
    <3>. QED
      BY <3>1, <3>2, <3>3, JoinedChecks
  <2>. QED
    BY <2>1
<1>5. IsList(list)
  BY DEF DeclaredLists
<1>6. Passes(PipelineChecks(list, keys))
  BY DEF Accepted
<1>. HIDE DEF a, b, c, d, Conflict
<1>7. /\ DOMAIN first = DOMAIN list /\ first = [s \in DOMAIN list |-> first[s]]
      /\ DOMAIN third = DOMAIN list /\ third = [s \in DOMAIN list |-> third[s]]
      /\ \A s \in DOMAIN list : first[s] = a(s) /\ third[s] = b(s)
  OBVIOUS
<1>. HIDE DEF first, third, layout
<1>8. \A s \in DOMAIN list : IsList(first[s]) /\ IsList(third[s])
  BY <1>4, <1>7
<1>9. IsList(FlattenSeq(first)) /\ IsList(FlattenSeq(third))
  BY <1>5, <1>7, <1>8, ChecksInOrder
<1>10. /\ IsList(MetadataChecks(list, keys))
       /\ Passes(MetadataChecks(list, keys)) => MetadataAccepted(list, keys)
  BY MetadataCheckList
<1>11. Passes(MetadataChecks(list, keys)) /\ Passes(c)
  BY <1>1, <1>3, <1>6, <1>9, <1>10, JoinedChecks
<1>. QED
  BY <1>2, <1>3, <1>10, <1>11 DEF layout

(***************************************************************************)
(* The first position of a key's id.                                       *)
(***************************************************************************)
Has(keys, key) == \E i \in DOMAIN keys : keys[i].id = key.id

(* There is at most one first position.                                    *)
LEMMA OneFirstPosition ==
  ASSUME NEW keys, IsList(keys), NEW key, NEW i \in KeyIndex(keys, key)
  PROVE  /\ KeyIndex(keys, key) = {i}
         /\ i \in DOMAIN keys /\ keys[i].id = key.id
<1>1. DOMAIN keys = 1 .. Len(keys) /\ Len(keys) \in Nat
  BY ListFacts
<1>2. ASSUME NEW j \in KeyIndex(keys, key)
      PROVE  j = i
  <2>1. i \in Nat /\ j \in Nat /\ 1 <= i /\ 1 <= j
    BY <1>1 DEF KeyIndex
  <2>2. ~ (i < j) /\ ~ (j < i)
    <3>1. i < j => i \in 1 .. j - 1
      BY <2>1
    <3>2. j < i => j \in 1 .. i - 1
      BY <2>1
    <3>. QED
      BY <3>1, <3>2 DEF KeyIndex
  <2>. QED
    BY <2>1, <2>2
<1>. QED
  BY <1>2 DEF KeyIndex

(* There is one if any position has the id.                                *)
LEMMA FirstPositionExists ==
  ASSUME NEW keys, IsList(keys), NEW key
  PROVE  Has(keys, key) <=> KeyIndex(keys, key) # {}
<1> DEFINE n == Len(keys)
           T == {k \in 0 .. n : (\E i \in 1 .. k : keys[i].id = key.id) => KeyIndex(keys, key) # {}}
<1>1. DOMAIN keys = 1 .. n /\ n \in Nat
  BY ListFacts
<1>2. 0 \in T
  BY <1>1
<1>3. ASSUME NEW k \in 1 .. n, k - 1 \in T
      PROVE  k \in T
  <2>1. CASE \E i \in 1 .. (k - 1) : keys[i].id = key.id
    BY <1>3, <2>1
  <2>2. CASE ~ \E i \in 1 .. (k - 1) : keys[i].id = key.id
    <3>1. keys[k].id = key.id => k \in KeyIndex(keys, key)
      BY <1>1, <2>2 DEF KeyIndex
    <3>2. ASSUME NEW i \in 1 .. k, keys[i].id = key.id
          PROVE  i = k
      <4>1. i \in 1 .. (k - 1) \/ i = k
        BY <1>1
      <4>. QED
        BY <2>2, <3>2, <4>1
    <3>. QED
      BY <3>1, <3>2
  <2>. QED
    BY <2>1, <2>2
<1>4. \A k \in 0 .. n : k \in T
  <2>. HIDE DEF T, n
  <2>. QED
    BY <1>1, <1>2, <1>3, InductionTo
<1>5. n \in T
  BY <1>1, <1>4
<1>6. Has(keys, key) => KeyIndex(keys, key) # {}
  BY <1>1, <1>5 DEF Has
<1>7. KeyIndex(keys, key) # {} => Has(keys, key)
  BY DEF Has, KeyIndex
<1>. QED
  BY <1>6, <1>7

(* What one list has at the front of another.                              *)
Begins(short, long) ==
  /\ IsList(short) /\ IsList(long)
  /\ Len(short) <= Len(long)
  /\ \A i \in 1 .. Len(short) : long[i] = short[i]

(* What begins a beginning begins the whole.                               *)
LEMMA BeginsTransitive ==
  ASSUME NEW a, NEW b, NEW c, Begins(a, b), Begins(b, c)
  PROVE  Begins(a, c)
<1>1. Len(a) \in Nat /\ Len(b) \in Nat /\ Len(c) \in Nat
  BY ListFacts DEF Begins
<1>2. Len(a) <= Len(b) /\ Len(b) <= Len(c)
  BY DEF Begins
<1>3. Len(a) <= Len(c) /\ \A i \in 1 .. Len(a) : i \in 1 .. Len(b)
  BY <1>1, <1>2
<1>. QED
  BY <1>3 DEF Begins

(* Appending to a list moves no first position.                            *)
LEMMA BeginsKeepsFirst ==
  ASSUME NEW a, NEW b, Begins(a, b), NEW key
  PROVE  /\ Has(a, key) => Has(b, key)
         /\ \A i \in KeyIndex(a, key) : i \in KeyIndex(b, key) /\ b[i] = a[i]
<1>1. /\ Len(a) \in Nat /\ Len(b) \in Nat
      /\ DOMAIN a = 1 .. Len(a) /\ DOMAIN b = 1 .. Len(b)
  BY ListFacts DEF Begins
<1>2. \A i \in DOMAIN a : i \in DOMAIN b /\ b[i] = a[i]
  BY <1>1 DEF Begins
<1>3. \A i \in DOMAIN a : \A j \in 1 .. i - 1 : j \in DOMAIN a
  BY <1>1
<1>. QED
  BY <1>2, <1>3 DEF Has, KeyIndex

(* appendUniqueKeys, one key of it: the id is there afterwards.            *)
LEMMA AppendedKey ==
  ASSUME NEW S, NEW keys \in Seq(S), NEW key \in S
  PROVE  /\ AppendUnique(keys, key) \in Seq(S)
         /\ Begins(keys, AppendUnique(keys, key))
         /\ Has(AppendUnique(keys, key), key)
<1> DEFINE r == Append(keys, key)
           n == Len(keys)
<1>1. /\ r \in Seq(S) /\ n \in Nat /\ Len(r) = n + 1 /\ DOMAIN r = 1 .. n + 1
      /\ r[n + 1] = key /\ \A i \in 1 .. n : r[i] = keys[i]
  OBVIOUS
<1>2. IsList(keys) /\ IsList(r)
  BY <1>1, ListsAreLists
<1>. HIDE DEF r
<1>3. CASE KeyIndex(keys, key) = {}
  <2>1. AppendUnique(keys, key) = r
    BY <1>3 DEF AppendUnique, r
  <2>2. n + 1 \in DOMAIN r
    BY <1>1
  <2>3. Has(r, key)
    BY <1>1, <2>2 DEF Has
  <2>4. Begins(keys, r)
    BY <1>1, <1>2 DEF Begins
  <2>. QED
    BY <1>1, <2>1, <2>3, <2>4
<1>4. CASE KeyIndex(keys, key) # {}
  <2>1. AppendUnique(keys, key) = keys
    BY <1>4 DEF AppendUnique
  <2>2. Has(keys, key)
    BY <1>2, <1>4, FirstPositionExists
  <2>3. Begins(keys, keys)
    BY <1>1, <1>2 DEF Begins
  <2>. QED
    BY <2>1, <2>2, <2>3
<1>. QED
  BY <1>3, <1>4

(* The keys of one stage, each appended unless its id is there.            *)
LEMMA AppendedKeys ==
  ASSUME NEW S, NEW keys \in Seq(S), NEW list, IsList(list), ToSet(list) \subseteq S
  PROVE  /\ FoldLeft(AppendUnique, keys, list) \in Seq(S)
         /\ Begins(keys, FoldLeft(AppendUnique, keys, list))
         /\ \A i \in DOMAIN list : Has(FoldLeft(AppendUnique, keys, list), list[i])
<1> DEFINE A == Seq(S)
           n == Len(list)
           step == [p \in (1 .. n) \X A |-> AppendUnique(p[2], list[p[1]])]
           Iterates(h) == h = [s \in SUBSET DOMAIN list |->
             IF s = {} THEN keys ELSE AppendUnique(h[s \ {Max(s)}], list[Max(s)])]
           iter == CHOOSE h : Iterates(h)
           result == FoldLeft(AppendUnique, keys, list)
<1>1. keys \in A
  OBVIOUS
<1>2. n \in Nat /\ DOMAIN list = 1 .. n /\ \A k \in 1 .. n : list[k] \in S
  BY ListFacts DEF ToSet
<1>3. result = iter[DOMAIN list]
  BY DEF FoldLeft, MapThenFoldSet
<1>4. \A k \in 1 .. n, a \in A : AppendUnique(a, list[k]) \in A
  BY <1>2, AppendedKey
<1>. HIDE DEF A, n, result
<1>5. \A k \in 1 .. n, a \in A : step[<<k, a>>] = AppendUnique(a, list[k])
  OBVIOUS
<1>6. StaysIn(step, 1 .. n, A)
  BY <1>4, <1>5 DEF StaysIn
<1>. HIDE DEF step
<1>7. Iterates(iter)
  <2>1. PICK g \in [SUBSET (1 .. n) -> A] : LeftFolds(g, n, keys, step)
    BY <1>1, <1>2, <1>6, LeftFoldExists
  <2>2. ASSUME NEW s \in SUBSET (1 .. n)
        PROVE  g[s] = IF s = {} THEN keys ELSE AppendUnique(g[s \ {Max(s)}], list[Max(s)])
    BY <1>2, <1>5, <2>1, LastPosition DEF LeftFolds
  <2>3. Iterates(g)
    BY <1>2, <2>2
  <2>. QED
    BY <2>3
<1>. HIDE DEF iter
<1>8. LeftFoldsIn(iter, n, A, keys, step)
  <2>1. ASSUME NEW s \in SUBSET (1 .. n)
        PROVE  iter[s] = IF s = {} THEN keys ELSE AppendUnique(iter[s \ {Max(s)}], list[Max(s)])
    BY <1>2, <1>7
  <2>2. ASSUME NEW s \in SUBSET (1 .. n), s # {}
        PROVE  iter[s] = AppendUnique(iter[s \ {Max(s)}], list[Max(s)]) /\ Max(s) \in 1 .. n
    BY <1>2, <2>1, <2>2, LastPosition
  <2>. QED
    BY <1>5, <2>1, <2>2 DEF LeftFoldsIn
<1>9. PICK acc : Accumulates(acc, n, A, keys, step) /\ acc[n] = iter[1 .. n]
  BY <1>1, <1>2, <1>6, <1>8, LeftFoldAccumulates
<1>10. /\ acc[0] = keys
       /\ \A k \in 0 .. n : acc[k] \in A
       /\ \A k \in 1 .. n : acc[k] = AppendUnique(acc[k - 1], list[k])
  <2>1. \A k \in 1 .. n : k - 1 \in 0 .. n
    BY <1>2
  <2>. QED
    BY <1>5, <1>9, <2>1 DEF Accumulates
<1> DEFINE T == {k \in 0 .. n : /\ Begins(keys, acc[k])
                                /\ \A i \in 1 .. k : Has(acc[k], list[i])}
<1>11. \A k \in 0 .. n : k \in T
  <2>1. 0 \in T
    <3>1. Begins(keys, keys)
      <4>1. IsList(keys) /\ Len(keys) \in Nat
        BY ListsAreLists
      <4>. QED
        BY <4>1 DEF Begins
    <3>. QED
      BY <1>2, <1>10, <3>1
  <2>2. ASSUME NEW k \in 1 .. n, k - 1 \in T
        PROVE  k \in T
    <3>1. k - 1 \in 0 .. n /\ k \in 0 .. n
      BY <1>2
    <3>2. acc[k - 1] \in Seq(S) /\ list[k] \in S
      BY <1>2, <1>10, <3>1 DEF A
    <3>3. Begins(acc[k - 1], acc[k]) /\ Has(acc[k], list[k])
      BY <1>10, <3>2, AppendedKey
    <3>4. Begins(keys, acc[k])
      BY <2>2, <3>3, BeginsTransitive
    <3>5. ASSUME NEW i \in 1 .. k
          PROVE  Has(acc[k], list[i])
      <4>1. i \in 1 .. (k - 1) \/ i = k
        BY <1>2
      <4>. QED
        BY <2>2, <3>3, <4>1, BeginsKeepsFirst
    <3>. QED
      BY <3>1, <3>4, <3>5
  <2>. HIDE DEF T
  <2>. QED
    BY <1>2, <2>1, <2>2, InductionTo
<1>12. n \in 0 .. n
  BY <1>2
<1>13. result = acc[n] /\ Begins(keys, acc[n]) /\ \A i \in 1 .. n : Has(acc[n], list[i])
  BY <1>2, <1>3, <1>9, <1>11, <1>12
<1>14. /\ result \in Seq(S) /\ Begins(keys, result)
       /\ \A i \in DOMAIN list : Has(result, list[i])
  BY <1>2, <1>10, <1>12, <1>13 DEF A
<1>. QED
  BY <1>14 DEF result

(* The layout begins with the input keys and has every produced id.        *)
LEMMA LayoutHolds ==
  ASSUME NEW list, DeclaredLists(list), NEW keys, IsList(keys)
  PROVE  /\ Begins(keys, AllMetadataKeys(list, keys))
         /\ \A s \in DOMAIN list : \A i \in DOMAIN list[s].outputs :
              Has(AllMetadataKeys(list, keys), list[s].outputs[i])
<1> DEFINE S == ToSet(keys) \cup UNION {ToSet(list[s].outputs) : s \in DOMAIN list}
           A == Seq(S)
           n == Len(list)
           op(a, p) == FoldLeft(AppendUnique, a, p.outputs)
           step == [p \in (1 .. n) \X A |-> op(p[2], list[p[1]])]
           Iterates(h) == h = [s \in SUBSET DOMAIN list |->
             IF s = {} THEN keys ELSE op(h[s \ {Max(s)}], list[Max(s)])]
           iter == CHOOSE h : Iterates(h)
           result == AllMetadataKeys(list, keys)
<1>1. keys \in A
  <2>1. keys \in Seq(ToSet(keys)) /\ ToSet(keys) \subseteq S
    BY DEF IsList
  <2>. HIDE DEF S
  <2>. QED
    BY <2>1, SeqMonotonic
<1>2. /\ n \in Nat /\ DOMAIN list = 1 .. n
      /\ \A k \in 1 .. n : IsList(list[k].outputs) /\ ToSet(list[k].outputs) \subseteq S
  <2>1. n \in Nat /\ DOMAIN list = 1 .. n
    BY ListFacts DEF DeclaredLists
  <2>2. \A k \in 1 .. n : IsList(list[k].outputs)
    BY <2>1 DEF DeclaredLists, Declared
  <2>. QED
    BY <2>1, <2>2
<1>3. result = iter[DOMAIN list]
  BY DEF AllMetadataKeys, FoldLeft, MapThenFoldSet
<1>4. ASSUME NEW k \in 1 .. n, NEW a \in A
      PROVE  /\ op(a, list[k]) \in A
             /\ Begins(a, op(a, list[k]))
             /\ \A i \in DOMAIN list[k].outputs : Has(op(a, list[k]), list[k].outputs[i])
  <2>1. IsList(list[k].outputs) /\ ToSet(list[k].outputs) \subseteq S
    BY <1>2
  <2>. HIDE DEF S
  <2>. QED
    BY <2>1, AppendedKeys
<1>. HIDE DEF A, S, n, result, op
<1>5. \A k \in 1 .. n, a \in A : step[<<k, a>>] = op(a, list[k])
  OBVIOUS
<1>6. StaysIn(step, 1 .. n, A)
  BY <1>4, <1>5 DEF StaysIn
<1>. HIDE DEF step
<1>7. Iterates(iter)
  <2>1. PICK g \in [SUBSET (1 .. n) -> A] : LeftFolds(g, n, keys, step)
    BY <1>1, <1>2, <1>6, LeftFoldExists
  <2>2. ASSUME NEW s \in SUBSET (1 .. n)
        PROVE  g[s] = IF s = {} THEN keys ELSE op(g[s \ {Max(s)}], list[Max(s)])
    BY <1>2, <1>5, <2>1, LastPosition DEF LeftFolds
  <2>3. Iterates(g)
    BY <1>2, <2>2
  <2>. QED
    BY <2>3
<1>. HIDE DEF iter
<1>8. LeftFoldsIn(iter, n, A, keys, step)
  <2>1. ASSUME NEW s \in SUBSET (1 .. n)
        PROVE  iter[s] = IF s = {} THEN keys ELSE op(iter[s \ {Max(s)}], list[Max(s)])
    BY <1>2, <1>7
  <2>2. ASSUME NEW s \in SUBSET (1 .. n), s # {}
        PROVE  iter[s] = op(iter[s \ {Max(s)}], list[Max(s)]) /\ Max(s) \in 1 .. n
    BY <1>2, <2>1, <2>2, LastPosition
  <2>. QED
    BY <1>5, <2>1, <2>2 DEF LeftFoldsIn
<1>9. PICK acc : Accumulates(acc, n, A, keys, step) /\ acc[n] = iter[1 .. n]
  BY <1>1, <1>2, <1>6, <1>8, LeftFoldAccumulates
<1>10. /\ acc[0] = keys
       /\ \A k \in 0 .. n : acc[k] \in A
       /\ \A k \in 1 .. n : acc[k] = op(acc[k - 1], list[k])
  <2>1. \A k \in 1 .. n : k - 1 \in 0 .. n
    BY <1>2
  <2>. QED
    BY <1>5, <1>9, <2>1 DEF Accumulates
<1> DEFINE T == {k \in 0 .. n :
                   /\ Begins(keys, acc[k])
                   /\ \A s \in 1 .. k : \A i \in DOMAIN list[s].outputs :
                        Has(acc[k], list[s].outputs[i])}
<1>11. \A k \in 0 .. n : k \in T
  <2>1. 0 \in T
    <3>1. Begins(keys, keys)
      <4>1. Len(keys) \in Nat
        BY ListFacts
      <4>. QED
        BY <4>1 DEF Begins
    <3>. QED
      BY <1>2, <1>10, <3>1
  <2>2. ASSUME NEW k \in 1 .. n, k - 1 \in T
        PROVE  k \in T
    <3>1. k - 1 \in 0 .. n /\ k \in 0 .. n
      BY <1>2
    <3>2. acc[k - 1] \in A
      BY <1>10, <3>1
    <3>3. /\ Begins(acc[k - 1], acc[k])
          /\ \A i \in DOMAIN list[k].outputs : Has(acc[k], list[k].outputs[i])
      BY <1>4, <1>10, <3>2
    <3>4. Begins(keys, acc[k])
      BY <2>2, <3>3, BeginsTransitive
    <3>5. ASSUME NEW s \in 1 .. k, NEW i \in DOMAIN list[s].outputs
          PROVE  Has(acc[k], list[s].outputs[i])
      <4>1. s \in 1 .. (k - 1) \/ s = k
        BY <1>2
      <4>. QED
        BY <2>2, <3>3, <3>5, <4>1, BeginsKeepsFirst
    <3>. QED
      BY <3>1, <3>4, <3>5
  <2>. HIDE DEF T
  <2>. QED
    BY <1>2, <2>1, <2>2, InductionTo
<1>12. n \in 0 .. n
  BY <1>2
<1>13. n \in T /\ result = acc[n]
  BY <1>2, <1>3, <1>9, <1>11, <1>12
<1>14. /\ Begins(keys, result)
       /\ \A s \in DOMAIN list : \A i \in DOMAIN list[s].outputs :
            Has(result, list[s].outputs[i])
  BY <1>2, <1>13
<1>. QED
  BY <1>14 DEF result

(* The pipeline that runs.                                                 *)
PipelineOK ==
  /\ DeclaredLists(stages) /\ IsList(inputKeys)
  /\ Accepted(stages, inputKeys)

SlotOf(key) == CHOOSE i \in Slot(key) : TRUE

(* The keys that stage s may access.                                       *)
Accessible(s) == ToSet(stages[s].inputs \o stages[s].outputs)

(* find: a key has one slot, and only it has the id first.                 *)
LEMMA OneSlot ==
  ASSUME PipelineOK, NEW key, Slot(key) # {}
  PROVE  /\ KeyIndex(Layout, key) = {SlotOf(key)}
         /\ SlotOf(key) \in DOMAIN Layout
         /\ Layout[SlotOf(key)].id = key.id
         /\ \A i \in DOMAIN Layout :
              i \in KeyIndex(Layout, Layout[i]) /\ Layout[i].id = key.id => i = SlotOf(key)
<1>1. IsList(Layout)
  BY LayoutHolds DEF PipelineOK, Layout, Begins
<1>2. SlotOf(key) \in Slot(key)
  BY DEF SlotOf
<1>3. SlotOf(key) \in KeyIndex(Layout, key)
  BY <1>2 DEF Slot
<1>4. /\ KeyIndex(Layout, key) = {SlotOf(key)}
      /\ SlotOf(key) \in DOMAIN Layout /\ Layout[SlotOf(key)].id = key.id
  BY <1>1, <1>3, OneFirstPosition
<1>5. ASSUME NEW i \in DOMAIN Layout, i \in KeyIndex(Layout, Layout[i]), Layout[i].id = key.id
      PROVE  i = SlotOf(key)
  <2>1. i \in KeyIndex(Layout, key)
    BY <1>5 DEF KeyIndex
  <2>. QED
    BY <1>4, <2>1
<1>. QED
  BY <1>4, <1>5

(* A produced key's id is in the layout, with its type.                    *)
LEMMA ProducedSlot ==
  ASSUME PipelineOK, NEW s \in DOMAIN stages, NEW key \in ToSet(stages[s].outputs)
  PROVE  Slot(key) # {}
<1>1. PICK i \in DOMAIN stages[s].outputs : key = stages[s].outputs[i]
  BY DEF ToSet
<1>2. Has(Layout, key) /\ IsList(Layout)
  BY <1>1, LayoutHolds DEF PipelineOK, Layout, Begins
<1>3. ~ TypeConflict(Layout, key)
  BY AcceptedPipeline DEF PipelineOK, Layout
<1>4. KeyIndex(Layout, key) # {}
  BY <1>2, FirstPositionExists
<1>. QED
  BY <1>3, <1>4 DEF Slot, TypeConflict

(* An input key is at its own place, since no two have one id.             *)
LEMMA InputSlot ==
  ASSUME PipelineOK, NEW key \in ToSet(inputKeys)
  PROVE  Slot(key) # {}
<1>1. PICK i \in DOMAIN inputKeys : key = inputKeys[i]
  BY DEF ToSet
<1>2. \A e \in 1 .. i - 1 : inputKeys[e].id # inputKeys[i].id
  BY AcceptedPipeline DEF PipelineOK, MetadataAccepted
<1>3. i \in KeyIndex(inputKeys, key)
  BY <1>1, <1>2 DEF KeyIndex
<1>4. i \in KeyIndex(Layout, key) /\ Layout[i] = inputKeys[i]
  BY <1>3, LayoutHolds, BeginsKeepsFirst DEF PipelineOK, Layout
<1>. QED
  BY <1>1, <1>4 DEF Slot

(* A consumed key is offered, by the input or by an earlier stage, with    *)
(* its type, and so is what the layout has of its id.                      *)
LEMMA ConsumedSlot ==
  ASSUME PipelineOK, NEW s \in DOMAIN stages, NEW key \in ToSet(stages[s].inputs)
  PROVE  Slot(key) # {}
<1> DEFINE before == [e \in 1 .. s - 1 |-> stages[e].outputs]
           flat == FlattenSeq(before)
           offered == inputKeys \o flat
<1>1. PICK i \in DOMAIN stages[s].inputs : key = stages[s].inputs[i]
  BY DEF ToSet
<1>2. Offered(stages, inputKeys, s) = offered
  BY DEF Offered
<1>3. ~ TypeConflict(offered, key) /\ KeyIndex(offered, key) # {}
  BY <1>1, <1>2, AcceptedPipeline DEF PipelineOK, MetadataAccepted
<1>4. s - 1 \in Nat /\ \A e \in 1 .. s - 1 : e \in DOMAIN stages /\ IsList(stages[e].outputs)
  <2>1. DOMAIN stages = 1 .. Len(stages) /\ Len(stages) \in Nat
    BY ListFacts DEF PipelineOK, DeclaredLists
  <2>2. s - 1 \in Nat /\ \A e \in 1 .. s - 1 : e \in DOMAIN stages
    BY <2>1
  <2>. QED
    BY <2>2 DEF PipelineOK, DeclaredLists, Declared
<1>5. /\ DOMAIN before = 1 .. s - 1 /\ before = [e \in 1 .. s - 1 |-> before[e]]
      /\ \A e \in 1 .. s - 1 : before[e] = stages[e].outputs
  OBVIOUS
<1>. HIDE DEF before
<1>6. IsList(before)
  BY <1>4, <1>5, FunctionsAreLists
<1>7. IsList(flat) /\ ToSet(flat) = UNION {ToSet(before[e]) : e \in 1 .. s - 1}
  BY <1>4, <1>5, <1>6, FlattenedLists
<1>. HIDE DEF flat
<1>8. /\ IsList(inputKeys) /\ IsList(offered)
      /\ Len(offered) = Len(inputKeys) + Len(flat)
      /\ \A k \in 1 .. Len(inputKeys) : offered[k] = inputKeys[k]
      /\ \A k \in 1 .. Len(flat) : offered[Len(inputKeys) + k] = flat[k]
  BY <1>7, JoinedLists DEF PipelineOK
<1>. HIDE DEF offered
<1>9. /\ Len(inputKeys) \in Nat /\ Len(flat) \in Nat
      /\ DOMAIN inputKeys = 1 .. Len(inputKeys)
      /\ DOMAIN flat = 1 .. Len(flat)
      /\ DOMAIN offered = 1 .. Len(offered)
  BY <1>7, <1>8, ListFacts
<1>10. PICK j \in KeyIndex(offered, key) : TRUE
  BY <1>3
<1>11. /\ j \in DOMAIN offered /\ offered[j].id = key.id /\ offered[j].value = key.value
       /\ \A k \in 1 .. j - 1 : offered[k].id # key.id
  BY <1>3, <1>10 DEF KeyIndex, TypeConflict
<1>12. CASE j \in 1 .. Len(inputKeys)
  <2>1. inputKeys[j].id = key.id /\ inputKeys[j].value = key.value
    BY <1>8, <1>11, <1>12
  <2>2. \A k \in 1 .. j - 1 : k \in 1 .. Len(inputKeys)
    BY <1>9, <1>12
  <2>3. j \in KeyIndex(inputKeys, key)
    BY <1>8, <1>9, <1>11, <1>12, <2>1, <2>2 DEF KeyIndex
  <2>4. j \in KeyIndex(Layout, key) /\ Layout[j] = inputKeys[j]
    BY <2>3, LayoutHolds, BeginsKeepsFirst DEF PipelineOK, Layout
  <2>. QED
    BY <2>1, <2>4 DEF Slot
<1>13. CASE j \notin 1 .. Len(inputKeys)
  <2>1. PICK k \in 1 .. Len(flat) : j = Len(inputKeys) + k
    <3>1. j - Len(inputKeys) \in 1 .. Len(flat) /\ j = Len(inputKeys) + (j - Len(inputKeys))
      BY <1>8, <1>9, <1>11, <1>13
    <3>. QED
      BY <3>1
  <2>2. flat[k] = offered[j] /\ flat[k] \in ToSet(flat)
    BY <1>8, <1>9, <2>1 DEF ToSet
  <2>3. PICK e \in 1 .. s - 1 : flat[k] \in ToSet(stages[e].outputs)
    BY <1>5, <1>7, <2>2
  <2>4. Slot(flat[k]) # {}
    BY <1>4, <2>3, ProducedSlot
  <2>5. flat[k].id = key.id /\ flat[k].value = key.value
    BY <1>11, <2>2
  <2>6. KeyIndex(Layout, flat[k]) = KeyIndex(Layout, key)
    BY <2>5 DEF KeyIndex
  <2>. QED
    BY <2>4, <2>5, <2>6 DEF Slot
<1>. QED
  BY <1>12, <1>13

(* Every access to a declared key has a slot.                              *)
LEMMA AccessibleSlot ==
  ASSUME PipelineOK, NEW s \in DOMAIN stages, NEW key \in Accessible(s)
  PROVE  Slot(key) # {}
<1>1. IsList(stages[s].inputs) /\ IsList(stages[s].outputs)
  BY DEF PipelineOK, DeclaredLists, Declared
<1>2. key \in ToSet(stages[s].inputs) \cup ToSet(stages[s].outputs)
  BY <1>1, JoinedLists DEF Accessible
<1>. QED
  BY <1>2, ConsumedSlot, ProducedSlot

(***************************************************************************)
(* The store.                                                              *)
(***************************************************************************)
Filled(length, valid, by) ==
  [length |-> length, valid |-> valid, values |-> [at \in valid |-> by]]

(* reset leaves nothing filled.                                            *)
LEMMA EmptyIsFilled ==
  ASSUME NEW length, NEW by
  PROVE  Empty(length) = Filled(length, {}, by)
<1>1. << >> = [at \in {} |-> by]
  OBVIOUS
<1>. QED
  BY <1>1 DEF Empty, Filled

(* put fills one more place.                                               *)
LEMMA PutFills ==
  ASSUME NEW length, NEW valid, NEW by, NEW key, NEW packet
  PROVE  Put(Filled(length, valid, by), key, packet, by) =
           Filled(length, valid \cup {<<SlotOf(key), packet>>}, by)
<1> DEFINE m == Filled(length, valid, by)
           at == <<SlotOf(key), packet>>
           f == [x \in valid |-> by]
           g == With(f, at, by)
           both == valid \cup {at}
<1>1. m = [length |-> length, valid |-> valid, values |-> f]
  BY DEF Filled
<1>2. m.values = f /\ m.valid = valid
  BY <1>1
<1>3. Put(m, key, packet, by) =
        [m EXCEPT !.values = With(m.values, at, by), !.valid = m.valid \cup {at}]
  <2>. HIDE DEF m
  <2>. QED
    BY DEF Put, SlotOf
<1>4. Put(m, key, packet, by) = [m EXCEPT !.values = g, !.valid = both]
  BY <1>2, <1>3
<1>5. g = [x \in both |-> by]
  BY DEF With
<1>. HIDE DEF m, f, g, both
<1>6. [m EXCEPT !.values = g, !.valid = both] = [length |-> length, valid |-> both, values |-> g]
  <2> DEFINE r == [m EXCEPT !.values = g]
  <2>1. r = [length |-> length, valid |-> valid, values |-> g]
    BY <1>1
  <2>2. [m EXCEPT !.values = g, !.valid = both] = [r EXCEPT !.valid = both]
    OBVIOUS
  <2>. HIDE DEF r
  <2>3. [r EXCEPT !.valid = both] = [length |-> length, valid |-> both, values |-> g]
    BY <2>1
  <2>. QED
    BY <2>2, <2>3
<1>. QED
  BY <1>4, <1>5, <1>6 DEF m, both, Filled

(* The caller's input: a slot and a packet for everything that is put.     *)
LEMMA InputIsFilled ==
  ASSUME NEW length, NEW by, NEW puts, IsList(puts)
  PROVE  InputMetadata(length, puts, by) =
           Filled(length, {<<SlotOf(puts[i][1]), puts[i][2]>> : i \in DOMAIN puts}, by)
<1> DEFINE At(i) == <<SlotOf(puts[i][1]), puts[i][2]>>
           n == Len(puts)
           base == Empty(length)
           A == {Filled(length, valid, by) : valid \in SUBSET {At(i) : i \in 1 .. n}}
           op(a, put) == Put(a, put[1], put[2], by)
           step == [p \in (1 .. n) \X A |-> op(p[2], puts[p[1]])]
           Iterates(h) == h = [s \in SUBSET DOMAIN puts |->
             IF s = {} THEN base ELSE op(h[s \ {Max(s)}], puts[Max(s)])]
           iter == CHOOSE h : Iterates(h)
           result == InputMetadata(length, puts, by)
<1>1. base = Filled(length, {}, by) /\ base \in A
  BY EmptyIsFilled
<1>2. n \in Nat /\ DOMAIN puts = 1 .. n
  BY ListFacts
<1>3. result = iter[DOMAIN puts]
  BY DEF InputMetadata, FoldLeft, MapThenFoldSet
<1>4. ASSUME NEW valid, NEW k
      PROVE  op(Filled(length, valid, by), puts[k]) = Filled(length, valid \cup {At(k)}, by)
  BY PutFills
<1>. HIDE DEF n, result, op, At, base
<1>5. ASSUME NEW k \in 1 .. n, NEW a \in A
      PROVE  op(a, puts[k]) \in A
  <2>1. PICK valid \in SUBSET {At(i) : i \in 1 .. n} : a = Filled(length, valid, by)
    OBVIOUS
  <2>2. op(a, puts[k]) = Filled(length, valid \cup {At(k)}, by)
    BY <1>4, <2>1
  <2>3. valid \cup {At(k)} \in SUBSET {At(i) : i \in 1 .. n}
    OBVIOUS
  <2>. QED
    BY <2>2, <2>3
<1>. HIDE DEF A
<1>6. \A k \in 1 .. n, a \in A : step[<<k, a>>] = op(a, puts[k])
  OBVIOUS
<1>7. StaysIn(step, 1 .. n, A)
  BY <1>5, <1>6 DEF StaysIn
<1>. HIDE DEF step
<1>8. Iterates(iter)
  <2>1. PICK g \in [SUBSET (1 .. n) -> A] : LeftFolds(g, n, base, step)
    BY <1>1, <1>2, <1>7, LeftFoldExists
  <2>2. ASSUME NEW s \in SUBSET (1 .. n)
        PROVE  g[s] = IF s = {} THEN base ELSE op(g[s \ {Max(s)}], puts[Max(s)])
    BY <1>2, <1>6, <2>1, LastPosition DEF LeftFolds
  <2>3. Iterates(g)
    BY <1>2, <2>2
  <2>. QED
    BY <2>3
<1>. HIDE DEF iter
<1>9. LeftFoldsIn(iter, n, A, base, step)
  <2>1. ASSUME NEW s \in SUBSET (1 .. n)
        PROVE  iter[s] = IF s = {} THEN base ELSE op(iter[s \ {Max(s)}], puts[Max(s)])
    BY <1>2, <1>8
  <2>2. ASSUME NEW s \in SUBSET (1 .. n), s # {}
        PROVE  iter[s] = op(iter[s \ {Max(s)}], puts[Max(s)]) /\ Max(s) \in 1 .. n
    BY <1>2, <2>1, <2>2, LastPosition
  <2>. QED
    BY <1>6, <2>1, <2>2 DEF LeftFoldsIn
<1>10. PICK acc : Accumulates(acc, n, A, base, step) /\ acc[n] = iter[1 .. n]
  BY <1>1, <1>2, <1>7, <1>9, LeftFoldAccumulates
<1>11. /\ acc[0] = base
       /\ \A k \in 1 .. n : acc[k] = op(acc[k - 1], puts[k])
  <2>1. \A k \in 1 .. n : k - 1 \in 0 .. n
    BY <1>2
  <2>. QED
    BY <1>6, <1>10, <2>1 DEF Accumulates
<1> DEFINE V(k) == {At(i) : i \in 1 .. k}
           T == {k \in 0 .. n : acc[k] = Filled(length, V(k), by)}
<1>12. \A k \in 0 .. n : k \in T
  <2>1. 0 \in T
    <3>1. V(0) = {}
      OBVIOUS
    <3>. QED
      BY <1>1, <1>2, <1>11, <3>1
  <2>2. ASSUME NEW k \in 1 .. n, k - 1 \in T
        PROVE  k \in T
    <3>1. acc[k] = Filled(length, V(k - 1) \cup {At(k)}, by)
      BY <1>4, <1>11, <2>2
    <3>2. 1 .. k = (1 .. (k - 1)) \cup {k}
      BY <1>2
    <3>3. V(k) = V(k - 1) \cup {At(k)}
      BY <3>2
    <3>4. k \in 0 .. n
      BY <1>2
    <3>. HIDE DEF V
    <3>. QED
      BY <3>1, <3>3, <3>4
  <2>. HIDE DEF T
  <2>. QED
    BY <1>2, <2>1, <2>2, InductionTo
<1>13. n \in T
  BY <1>2, <1>12
<1>14. result = Filled(length, V(n), by)
  BY <1>2, <1>3, <1>10, <1>13
<1>15. V(n) = {At(i) : i \in DOMAIN puts}
  BY <1>2
<1>. QED
  BY <1>14, <1>15 DEF result, At

(* What the caller may put is a list of keys of the input and packets.     *)
LEMMA PutsAreLists ==
  ASSUME PipelineOK, NEW length \in Int, NEW puts \in Puts(length)
  PROVE  /\ IsList(puts)
         /\ \A i \in DOMAIN puts :
              puts[i][1] \in ToSet(inputKeys) /\ puts[i][2] \in 0 .. length - 1
<1> DEFINE all == ToSet(inputKeys) \X (0 .. length - 1)
<1>1. PICK chosen \in SUBSET all : puts = SetToSeq(chosen)
  BY DEF Puts
<1>2. IsFiniteSet(chosen)
  <2>1. IsFiniteSet(ToSet(inputKeys))
    <3>1. DOMAIN inputKeys = 1 .. Len(inputKeys) /\ Len(inputKeys) \in Nat
      BY ListFacts DEF PipelineOK
    <3>2. inputKeys \in [DOMAIN inputKeys -> ToSet(inputKeys)]
      <4>1. inputKeys \in Seq(ToSet(inputKeys))
        BY DEF PipelineOK, IsList
      <4>. QED
        BY <4>1
    <3>3. \A t \in ToSet(inputKeys) : \E i \in DOMAIN inputKeys : inputKeys[i] = t
      BY DEF ToSet
    <3>4. inputKeys \in Surjection(DOMAIN inputKeys, ToSet(inputKeys))
      BY <3>2, <3>3 DEF Surjection
    <3>5. IsFiniteSet(DOMAIN inputKeys)
      BY <3>1, FS_Interval
    <3>. QED
      BY <3>4, <3>5, FS_Surjection
  <2>2. IsFiniteSet(0 .. length - 1)
    BY FS_Interval
  <2>3. IsFiniteSet(all)
    BY <2>1, <2>2, FS_Product
  <2>. QED
    BY <2>3, FS_Subset
<1> DEFINE n == Cardinality(chosen)
<1>3. n \in Nat /\ ExistsBijection(1 .. n, chosen)
  BY <1>2, FS_CardinalityType
<1>4. PICK f : f \in Bijection(1 .. n, chosen)
  BY <1>3 DEF ExistsBijection
<1>5. f \in [1 .. n -> chosen] /\ IsInjective(f)
  BY <1>4 DEF Bijection, Injection, IsInjective
<1>6. puts \in [1 .. n -> chosen]
  <2>1. puts = CHOOSE g \in [1 .. n -> chosen] : IsInjective(g)
    BY <1>1 DEF SetToSeq
  <2>. HIDE DEF n
  <2>. QED
    BY <1>5, <2>1
<1>. HIDE DEF n
<1>7. IsList(puts) /\ DOMAIN puts = 1 .. n
  BY <1>3, <1>6, FunctionsAreLists
<1>8. \A i \in DOMAIN puts : puts[i] \in all
  BY <1>1, <1>6, <1>7
<1>. QED
  BY <1>7, <1>8

(***************************************************************************)
(* The invariant: at the first position of every id of the layout, the     *)
(* store holds what was given for it, while no refused call has intervened.*)
(***************************************************************************)
Agrees(layout, metadata, length, last) ==
  /\ metadata = [length |-> length, valid |-> metadata.valid, values |-> metadata.values]
  /\ metadata.valid \subseteq DOMAIN metadata.values
  /\ \A i \in DOMAIN layout, packet \in 0 .. length - 1 :
       i \in KeyIndex(layout, layout[i]) =>
         /\ <<i, packet>> \in metadata.valid <=> <<layout[i].id, packet>> \in DOMAIN last
         /\ <<i, packet>> \in metadata.valid =>
              metadata.values[<<i, packet>>] = last[<<layout[i].id, packet>>]

FlowInv ==
  /\ PipelineOK
  /\ call \in Nat /\ nested \in Nat
  /\ batchLength \in Int
  /\ Len(stages) \in Nat \ {0} /\ stage \in 0 .. Len(stages)
  /\ Undisturbed => Agrees(Layout, store, batchLength, given)

(* The invariant holds before the first call.                              *)
LEMMA FlowStarts == FlowInit => FlowInv
<1>. SUFFICES ASSUME FlowInit PROVE FlowInv
  OBVIOUS
<1>0. PICK n \in DOMAIN LengthBound : \E list \in [1 .. n -> StageChoices] :
        stages = [s \in 1 .. n |-> [list[s] EXCEPT !.id = s]]
  BY DEF FlowInit
<1>1. PICK list \in [1 .. n -> StageChoices] :
        stages = [s \in 1 .. n |-> [list[s] EXCEPT !.id = s]]
  BY <1>0
<1>2. n \in Nat \ {0} /\ DOMAIN stages = 1 .. n
  BY <1>1, MetadataFlowAssumption
<1>3. IsList(stages) /\ Len(stages) = n
  <2>1. stages = [s \in 1 .. n |-> stages[s]]
    BY <1>1
  <2>. QED
    BY <1>2, <2>1, FunctionsAreLists
<1>4. ASSUME NEW s \in 1 .. n,
             NEW field \in {"inputs", "outputs", "outputIds", "metrics", "events"}
      PROVE  IsList(stages[s][field])
  <2>1. stages[s] = [list[s] EXCEPT !.id = s] /\ list[s] \in StageChoices
    BY <1>1
  <2>2. field \in DOMAIN list[s] /\ IsList(list[s][field]) /\ field # "id"
    BY <2>1, MetadataFlowAssumption DEF IsList
  <2>3. stages[s][field] = list[s][field]
    BY <2>1, <2>2
  <2>. QED
    BY <2>2, <2>3
<1>5. PipelineOK
  BY <1>2, <1>3, <1>4, MetadataFlowAssumption
     DEF IsList, PipelineOK, DeclaredLists, Declared, FlowInit
<1>. QED
  BY <1>2, <1>3, <1>5 DEF FlowInv, FlowInit, Undisturbed

(* What the caller gives is in the store when the first callback runs.     *)
LEMMA BatchBegins ==
  ASSUME FlowInv, BeginBatch
  PROVE  FlowInv'
<1>0. PICK length \in Lengths : \E puts \in Puts(length) :
        /\ store' = InputMetadata(length, puts, Value(0))
        /\ batchLength' = length
        /\ given' = [at \in {<<puts[i][1].id, puts[i][2]>> : i \in DOMAIN puts} |-> Value(0)]
  BY DEF BeginBatch, Started
<1>1. PICK puts \in Puts(length) :
        /\ store' = InputMetadata(length, puts, Value(0))
        /\ batchLength' = length
        /\ given' = [at \in {<<puts[i][1].id, puts[i][2]>> : i \in DOMAIN puts} |-> Value(0)]
  BY <1>0
<1>2. length \in Int
  BY DEF Lengths
<1>3. PipelineOK /\ IsList(puts)
  BY <1>2, PutsAreLists DEF FlowInv
<1>4. \A i \in DOMAIN puts : puts[i][1] \in ToSet(inputKeys) /\ puts[i][2] \in 0 .. length - 1
  BY <1>2, <1>3, PutsAreLists
<1> DEFINE slots == {<<SlotOf(puts[i][1]), puts[i][2]>> : i \in DOMAIN puts}
           ids == {<<puts[i][1].id, puts[i][2]>> : i \in DOMAIN puts}
           v == Value(0)
<1>5. store' = [length |-> length, valid |-> slots, values |-> [at \in slots |-> v]]
  BY <1>1, <1>3, InputIsFilled DEF Filled
<1>6. ASSUME NEW i \in DOMAIN Layout, i \in KeyIndex(Layout, Layout[i]),
             NEW packet \in 0 .. length - 1
      PROVE  <<i, packet>> \in slots <=> <<Layout[i].id, packet>> \in ids
  <2>1. ASSUME NEW j \in DOMAIN puts
        PROVE  SlotOf(puts[j][1]) = i <=> puts[j][1].id = Layout[i].id
    <3>1. Slot(puts[j][1]) # {}
      BY <1>3, <1>4, InputSlot
    <3>. QED
      BY <1>3, <1>6, <3>1, OneSlot
  <2>2. <<i, packet>> \in slots <=> \E j \in DOMAIN puts : SlotOf(puts[j][1]) = i /\ puts[j][2] = packet
    OBVIOUS
  <2>3. <<Layout[i].id, packet>> \in ids <=>
          \E j \in DOMAIN puts : puts[j][1].id = Layout[i].id /\ puts[j][2] = packet
    OBVIOUS
  <2>. QED
    BY <2>1, <2>2, <2>3
<1>7. given' = [at \in ids |-> v]
  BY <1>1
<1>. HIDE DEF slots, ids, v
<1>8. store'.valid = slots /\ store'.values = [at \in slots |-> v]
  BY <1>5
<1>9. Agrees(Layout, store', length, given')
  BY <1>5, <1>6, <1>7, <1>8 DEF Agrees
<1>10. stages' = stages /\ inputKeys' = inputKeys
  BY DEF BeginBatch, pipeline
<1>11. Layout' = Layout /\ PipelineOK'
  BY <1>3, <1>10 DEF Layout, PipelineOK
<1>12. Agrees(Layout', store', batchLength', given')
  BY <1>1, <1>9, <1>11
<1>13. call' \in Nat /\ nested' = 0 /\ stage' = 1
  BY DEF BeginBatch, FlowInv
<1>14. 1 \in 0 .. Len(stages)
  BY DEF FlowInv
<1>. QED
  BY <1>1, <1>2, <1>10, <1>11, <1>12, <1>13, <1>14 DEF FlowInv

(* A produced value is found where the layout has its id, and nowhere else.*)
LEMMA Produced ==
  ASSUME FlowInv, Produce
  PROVE  FlowInv'
<1>0. PICK key \in ToSet(stages[stage].outputs) : \E packet \in 0 .. batchLength - 1 :
        /\ ~ Refused(store, key, packet)
        /\ store' = Put(store, key, packet, Value(stage))
        /\ given' = With(given, <<key.id, packet>>, Value(stage))
  BY DEF Produce
<1>1. PICK packet \in 0 .. batchLength - 1 :
        /\ ~ Refused(store, key, packet)
        /\ store' = Put(store, key, packet, Value(stage))
        /\ given' = With(given, <<key.id, packet>>, Value(stage))
  BY <1>0
<1>2. UNCHANGED <<pipeline, stage, batchLength, nested>> /\ call' = call
  BY DEF Produce
<1>3. stages' = stages /\ inputKeys' = inputKeys /\ PipelineOK
  BY <1>2 DEF pipeline, FlowInv
<1>4. Layout' = Layout /\ PipelineOK'
  BY <1>3 DEF Layout, PipelineOK
<1>5. Undisturbed' <=> Undisturbed
  BY <1>2 DEF Undisturbed
<1>6. ASSUME Undisturbed
      PROVE  Agrees(Layout, store', batchLength, given')
  <2> DEFINE at == <<SlotOf(key), packet>>
             id == <<key.id, packet>>
             v == Value(stage)
             values == With(store.values, at, v)
             valid == store.valid \cup {at}
  <2>1. Agrees(Layout, store, batchLength, given)
    BY <1>6 DEF FlowInv
  <2>2. store = [length |-> batchLength, valid |-> store.valid, values |-> store.values]
    BY <2>1 DEF Agrees
  <2>3. store' = [store EXCEPT !.values = values, !.valid = valid]
    BY <1>1 DEF Put, SlotOf
  <2>. HIDE DEF values, valid
  <2>4. store' = [length |-> batchLength, valid |-> valid, values |-> values]
    <3> DEFINE r == [store EXCEPT !.values = values]
    <3>1. r = [length |-> batchLength, valid |-> store.valid, values |-> values]
      BY <2>2
    <3>2. [store EXCEPT !.values = values, !.valid = valid] = [r EXCEPT !.valid = valid]
      OBVIOUS
    <3>. HIDE DEF r
    <3>3. [r EXCEPT !.valid = valid] = [length |-> batchLength, valid |-> valid, values |-> values]
      BY <3>1
    <3>. QED
      BY <2>3, <3>2, <3>3
  <2>5. store'.valid = valid /\ store'.values = values
    BY <2>4
  <2>6. /\ DOMAIN values = {at} \cup DOMAIN store.values
        /\ values[at] = v
        /\ \A x \in DOMAIN store.values : x # at => values[x] = store.values[x]
    BY DEF values, With
  <2>7. /\ DOMAIN given' = {id} \cup DOMAIN given
        /\ given'[id] = v
        /\ \A x \in DOMAIN given : x # id => given'[x] = given[x]
    BY <1>1 DEF With
  <2>8. valid = store.valid \cup {at}
    BY DEF valid
  <2>9. Slot(key) # {}
    BY <1>1 DEF Refused
  <2>10. ASSUME NEW i \in DOMAIN Layout, i \in KeyIndex(Layout, Layout[i]),
                NEW other \in 0 .. batchLength - 1
         PROVE  /\ <<i, other>> \in valid <=> <<Layout[i].id, other>> \in DOMAIN given'
                /\ <<i, other>> \in valid => values[<<i, other>>] = given'[<<Layout[i].id, other>>]
    <3> DEFINE x == <<i, other>>
               y == <<Layout[i].id, other>>
    <3>1. i = SlotOf(key) <=> Layout[i].id = key.id
      BY <1>3, <2>9, <2>10, OneSlot
    <3>2. x = at <=> y = id
      BY <3>1
    <3>3. /\ x \in store.valid <=> y \in DOMAIN given
          /\ x \in store.valid => store.values[x] = given[y]
          /\ store.valid \subseteq DOMAIN store.values
      BY <2>1, <2>10 DEF Agrees
    <3>. HIDE DEF x, y, at, id, v
    <3>6. /\ x \in valid <=> y \in DOMAIN given'
          /\ x \in valid => values[x] = given'[y]
      <4>1. CASE x = at
        BY <2>6, <2>7, <2>8, <3>2, <4>1
      <4>2. CASE x # at
        <5>1. x \in valid <=> x \in store.valid
          BY <2>8, <4>2
        <5>2. y \in DOMAIN given' <=> y \in DOMAIN given
          BY <2>7, <3>2, <4>2
        <5>3. y \in DOMAIN given => given'[y] = given[y]
          BY <2>7, <3>2, <4>2
        <5>4. x \in store.valid => values[x] = store.values[x]
          BY <2>6, <3>3, <4>2
        <5>. QED
          BY <3>3, <5>1, <5>2, <5>3, <5>4
      <4>. QED
        BY <4>1, <4>2
    <3>. QED
      BY <3>6 DEF x, y
  <2>11. valid \subseteq DOMAIN values
    BY <2>1, <2>6, <2>8 DEF Agrees
  <2>. HIDE DEF at, id, v
  <2>. QED
    BY <2>4, <2>5, <2>10, <2>11 DEF Agrees
<1>7. Undisturbed' => Agrees(Layout', store', batchLength', given')
  BY <1>2, <1>4, <1>5, <1>6
<1>. QED
  BY <1>2, <1>3, <1>4, <1>7 DEF FlowInv

(* A refused call copies its store, and nothing is claimed from then on.   *)
LEMMA NestedCallDisturbs ==
  ASSUME FlowInv, NestedCall
  PROVE  FlowInv'
<1>1. stages' = stages /\ inputKeys' = inputKeys
  BY DEF NestedCall, pipeline
<1>2. PipelineOK'
  BY <1>1 DEF PipelineOK, FlowInv
<1>3. nested' = nested + 1 /\ nested' # 0 /\ call' = call /\ stage' = stage /\ batchLength' = batchLength
  BY DEF NestedCall, FlowInv
<1>. QED
  BY <1>1, <1>2, <1>3 DEF FlowInv, Undisturbed

(* The end of a callback leaves the store as it is.                        *)
LEMMA StageReturned ==
  ASSUME FlowInv, StageReturns
  PROVE  FlowInv'
<1>1. UNCHANGED <<pipeline, store, batchLength, call, nested, given>>
  BY DEF StageReturns
<1>2. stages' = stages /\ inputKeys' = inputKeys
  BY <1>1 DEF pipeline
<1>3. PipelineOK' /\ Layout' = Layout
  BY <1>2 DEF PipelineOK, FlowInv, Layout
<1>4. stage # 0 /\ stage' \in 0 .. Len(stages)
  BY DEF StageReturns, FlowInv
<1>5. Undisturbed' => Agrees(Layout', store', batchLength', given')
  <2>1. Undisturbed' => Undisturbed
    BY <1>1, <1>4 DEF Undisturbed
  <2>. QED
    BY <1>1, <1>3, <2>1 DEF FlowInv
<1>. QED
  BY <1>1, <1>2, <1>3, <1>4, <1>5 DEF FlowInv

(* A step of another part leaves everything as it is.                      *)
LEMMA FlowStutters ==
  ASSUME FlowInv, UNCHANGED flow
  PROVE  FlowInv'
<1>1. UNCHANGED <<stages, inputKeys, store, stage, batchLength, call, nested, given>>
  BY DEF flow, pipeline, progress
<1>2. PipelineOK' /\ Layout' = Layout /\ (Undisturbed' <=> Undisturbed)
  BY <1>1 DEF PipelineOK, FlowInv, Layout, Undisturbed
<1>3. Undisturbed' => Agrees(Layout', store', batchLength', given')
  BY <1>1, <1>2 DEF FlowInv
<1>. QED
  BY <1>1, <1>2, <1>3 DEF FlowInv

(* The invariant of the flow.                                              *)
LEMMA FlowInvariant == FlowSpec => []FlowInv
<1>1. FlowInit => FlowInv
  BY FlowStarts
<1>2. FlowInv /\ [Flow]_flow => FlowInv'
  BY BatchBegins, Produced, NestedCallDisturbs, StageReturned, FlowStutters DEF Flow
<1>. QED
  BY <1>1, <1>2, PTL DEF FlowSpec

(* DeclaredAccessNeverFails, for every pipeline the compiler accepts: a    *)
(* produced key has its slot because the layout conflicts with none, a     *)
(* consumed one because what offers it is produced or an input key.        *)
THEOREM DeclaredAccessSafe == FlowSpec => []DeclaredAccessNeverFails
<1>1. FlowInv => DeclaredAccessNeverFails
  <2>. SUFFICES ASSUME FlowInv, Undisturbed, NEW key \in Accessible(stage),
                       NEW packet \in 0 .. batchLength - 1
                PROVE  ~ Refused(store, key, packet)
    BY DEF DeclaredAccessNeverFails, Accessible
  <2>1. stage \in DOMAIN stages /\ PipelineOK
    <3>1. DOMAIN stages = 1 .. Len(stages)
      BY ListFacts DEF FlowInv, PipelineOK, DeclaredLists
    <3>. QED
      BY <3>1 DEF FlowInv, Undisturbed
  <2>2. Slot(key) # {}
    BY <2>1, AccessibleSlot
  <2>3. store = [length |-> batchLength, valid |-> store.valid, values |-> store.values]
    BY DEF FlowInv, Agrees
  <2>4. store.length = batchLength
    BY <2>3
  <2>5. ~ (packet >= batchLength)
    BY DEF FlowInv
  <2>. QED
    BY <2>2, <2>4, <2>5 DEF Refused
<1>. QED
  BY <1>1, FlowInvariant, PTL

(* StagesReadThisCall: what a stage reads is what this call has put last.  *)
THEOREM ReadsAreOfThisCall == FlowSpec => []StagesReadThisCall
<1>1. FlowInv => StagesReadThisCall
  <2>. SUFFICES ASSUME FlowInv, Undisturbed, NEW key \in ToSet(stages[stage].inputs),
                       NEW packet \in 0 .. batchLength - 1
                PROVE  Get(store, key, packet) =
                         IF <<key.id, packet>> \in DOMAIN given THEN given[<<key.id, packet>>]
                                                                ELSE Null
    BY DEF StagesReadThisCall
  <2>1. stage \in DOMAIN stages /\ PipelineOK
    <3>1. DOMAIN stages = 1 .. Len(stages)
      BY ListFacts DEF FlowInv, PipelineOK, DeclaredLists
    <3>. QED
      BY <3>1 DEF FlowInv, Undisturbed
  <2>2. Slot(key) # {}
    BY <2>1, ConsumedSlot
  <2> DEFINE i == SlotOf(key)
             x == <<i, packet>>
             y == <<key.id, packet>>
  <2>3. i \in DOMAIN Layout /\ Layout[i].id = key.id /\ i \in KeyIndex(Layout, key)
    BY <2>1, <2>2, OneSlot
  <2>4. i \in KeyIndex(Layout, Layout[i])
    BY <2>3 DEF KeyIndex
  <2>5. Agrees(Layout, store, batchLength, given)
    BY DEF FlowInv
  <2>6. /\ x \in store.valid <=> y \in DOMAIN given
        /\ x \in store.valid => store.values[x] = given[y]
    BY <2>3, <2>4, <2>5 DEF Agrees
  <2>7. Get(store, key, packet) = IF x \in store.valid THEN store.values[x] ELSE Null
    BY DEF Get, SlotOf
  <2>. HIDE DEF x, y
  <2>8. Get(store, key, packet) = IF y \in DOMAIN given THEN given[y] ELSE Null
    BY <2>6, <2>7
  <2>. QED
    BY <2>8 DEF y
<1>. QED
  BY <1>1, FlowInvariant, PTL

(* Two stages that produce one id hold it exclusively neither.             *)
LEMMA ExclusiveProducer ==
  ASSUME PipelineOK, NEW s \in DOMAIN stages, NEW t \in DOMAIN stages, s # t,
         NEW key \in ToSet(stages[s].outputs), NEW other \in ToSet(stages[t].outputs),
         key.id = other.id
  PROVE  ~ key.exclusive
<1>1. PICK i \in DOMAIN stages[s].outputs : key = stages[s].outputs[i]
  BY DEF ToSet
<1>2. PICK e \in DOMAIN stages[t].outputs : other = stages[t].outputs[e]
  BY DEF ToSet
<1>3. MetadataAccepted(stages, inputKeys)
  BY AcceptedPipeline DEF PipelineOK
<1>4. DOMAIN stages = 1 .. Len(stages) /\ Len(stages) \in Nat
  BY ListFacts DEF PipelineOK, DeclaredLists
<1>5. t \in 1 .. s - 1 \/ s \in 1 .. t - 1
  BY <1>4
<1>6. CASE t \in 1 .. s - 1
  BY <1>1, <1>2, <1>3, <1>6 DEF MetadataAccepted
<1>7. CASE s \in 1 .. t - 1
  BY <1>1, <1>2, <1>3, <1>7 DEF MetadataAccepted
<1>. QED
  BY <1>5, <1>6, <1>7

(* ExclusiveValuesStand, for every pipeline the compiler accepts: another  *)
(* producer of the key would have been refused.                            *)
THEOREM ExclusiveValuesSafe == FlowSpec => ExclusiveValuesStand
<1> DEFINE Stands ==
      \A s \in DOMAIN stages : \A key \in ToSet(stages[s].outputs) : \A packet \in 0 .. batchLength - 1 :
        /\ key.exclusive
        /\ <<key.id, packet>> \in DOMAIN given
        /\ given[<<key.id, packet>>].by = s
        /\ call' = call
        => given'[<<key.id, packet>>].by = s
<1>1. FlowInv /\ Flow => Stands
  <2>. SUFFICES ASSUME FlowInv, Flow, NEW s \in DOMAIN stages,
                       NEW key \in ToSet(stages[s].outputs), NEW packet \in 0 .. batchLength - 1,
                       key.exclusive, <<key.id, packet>> \in DOMAIN given,
                       given[<<key.id, packet>>].by = s, call' = call
                PROVE  given'[<<key.id, packet>>].by = s
    OBVIOUS
  <2>1. CASE BeginBatch
    BY <2>1 DEF BeginBatch, FlowInv
  <2>2. CASE Produce
    <3>1. PICK other \in ToSet(stages[stage].outputs) : \E at \in 0 .. batchLength - 1 :
            given' = With(given, <<other.id, at>>, Value(stage))
      BY <2>2 DEF Produce
    <3>2. PICK at \in 0 .. batchLength - 1 : given' = With(given, <<other.id, at>>, Value(stage))
      BY <3>1
    <3> DEFINE x == <<key.id, packet>>
               y == <<other.id, at>>
    <3>3. CASE x # y
      <4>1. given'[x] = given[x]
        BY <3>2, <3>3 DEF With
      <4>. QED
        BY <4>1
    <3>4. CASE x = y
      <4>1. given'[x].by = stage
        BY <3>2, <3>4 DEF With, Value
      <4>2. stage \in DOMAIN stages /\ PipelineOK
        <5>1. DOMAIN stages = 1 .. Len(stages)
          BY ListFacts DEF FlowInv, PipelineOK, DeclaredLists
        <5>. QED
          BY <2>2, <5>1 DEF FlowInv, Produce
      <4>3. key.id = other.id
        BY <3>4
      <4>4. stage = s
        BY <4>2, <4>3, ExclusiveProducer
      <4>. QED
        BY <4>1, <4>4
    <3>. QED
      BY <3>3, <3>4
  <2>3. CASE NestedCall
    BY <2>3 DEF NestedCall
  <2>4. CASE StageReturns
    BY <2>4 DEF StageReturns
  <2>. QED
    BY <2>1, <2>2, <2>3, <2>4 DEF Flow
<1>2. FlowInv /\ [Flow]_flow => [Stands]_flow
  BY <1>1
<1>. HIDE DEF Stands
<1>3. FlowSpec => [][Stands]_flow
  BY <1>2, FlowInvariant, PTL DEF FlowSpec
<1>. QED
  BY <1>3 DEF ExclusiveValuesStand, Stands

-----------------------------------------------------------------------------
(***************************************************************************)
(* The suite of declarations that must not compile (CompileFail).          *)
(***************************************************************************)

(* Lists that are written out.                                             *)
LEMMA WrittenLists ==
  ASSUME NEW a, NEW b, NEW c, NEW d, NEW e
  PROVE  /\ IsList(<<a>>)
         /\ IsList(<<a, b>>)
         /\ IsList(<<a, b, c>>)
         /\ IsList(<<a, b, c, d, e>>)
<1>1. <<a>> \in Seq({a}) /\ <<a, b>> \in Seq({a, b}) /\ <<a, b, c>> \in Seq({a, b, c})
  OBVIOUS
<1>2. <<a, b, c, d, e>> \in Seq({a, b, c, d, e})
  OBVIOUS
<1>. QED
  BY <1>1, <1>2, ListsAreLists

LEMMA TwoLists ==
  ASSUME NEW a, NEW b, IsList(a), IsList(b)
  PROVE  IsList(a \o b)
BY JoinedLists

(* The cases are numbered from 1 to how many there are.                    *)
LEMMA CasesAreList == IsList(CASES)
<1>1. IsList(ApiSurfaceCases) /\ IsList(ShapeCases) /\ IsList(IdentityCases)
  BY WrittenLists DEF ApiSurfaceCases, ShapeCases, IdentityCases
<1>2. IsList(SignatureCases) /\ IsList(StateCases) /\ IsList(WorkCases)
  BY WrittenLists DEF SignatureCases, StateCases, WorkCases
<1>3. IsList(ResourceCases) /\ IsList(DispositionCases) /\ IsList(ProducerCases)
  BY WrittenLists DEF ResourceCases, DispositionCases, ProducerCases
<1>4. IsList(ValueCases)
  BY WrittenLists DEF ValueCases
<1>5. IsList(UndeclaredReadCase) /\ IsList(SchemaCases)
  BY WrittenLists DEF UndeclaredReadCase, SchemaCases
<1>6. IsList(ApiSurfaceCases \o ShapeCases \o IdentityCases \o SignatureCases \o StateCases
             \o WorkCases)
  BY <1>1, <1>2, TwoLists
<1>. QED
  BY <1>3, <1>4, <1>5, <1>6, TwoLists DEF CASES

(* A library reports no check that it has lost.                            *)
LEMMA LostIsNotReported ==
  ASSUME NEW checks, NEW lost, NEW diagnostic \in FirstFault(checks, lost)
  PROVE  diagnostic \notin lost
BY Zenon DEF FirstFault

(* What the cases that are finished have shown.                            *)
SuiteInv ==
  /\ finished \in Nat
  /\ verdict = "running" =>
       \A i \in DOMAIN CASES : i < finished => CASES[i].expected \notin lacking
  /\ PassedHasLostNothing

(* A case that lets the suite go on has met a check that the library has.  *)
LEMMA CaseIsMet ==
  ASSUME NEW case, CaseVerdict(case) \in {"running", "passed"}
  PROVE  CaseVerdict(case) = Continue /\ case.expected \notin lacking
<1>1. case.expected \in Reported(case) /\ CaseVerdict(case) = Continue
  BY DEF CaseVerdict
<1>. QED
  BY <1>1, LostIsNotReported DEF Reported

LEMMA SuiteStarts == CompileFailInit => SuiteInv
<1>. SUFFICES ASSUME CompileFailInit PROVE SuiteInv
  OBVIOUS
<1>1. DOMAIN CASES = 1 .. Len(CASES)
  BY CasesAreList, ListFacts
<1>. QED
  BY <1>1 DEF CompileFailInit, SuiteInv, PassedHasLostNothing

LEMMA SuiteGoesOn == SuiteInv /\ [CompileFail]_suite => SuiteInv'
<1>. SUFFICES ASSUME SuiteInv, [CompileFail]_suite PROVE SuiteInv'
  OBVIOUS
<1>0. DOMAIN CASES = 1 .. Len(CASES) /\ Len(CASES) \in Nat
  BY CasesAreList, ListFacts
<1>1. CASE RunLegitimatePipeline
  <2>1. finished' = 1 /\ verdict' # "passed"
    BY <1>1 DEF RunLegitimatePipeline, Finish
  <2>. QED
    BY <1>0, <2>1 DEF SuiteInv, PassedHasLostNothing
<1>2. CASE RunCase
  <2> DEFINE expected(i) == CASES[i].expected
  <2>1. /\ finished \in DOMAIN CASES /\ lacking' = lacking /\ finished' = finished + 1
        /\ verdict' = CaseVerdict(CASES[finished])
        /\ \A i \in DOMAIN CASES : i < finished => expected(i) \notin lacking
    BY <1>2 DEF RunCase, Finish, SuiteInv
  <2>2. ASSUME verdict' \in {"running", "passed"}
        PROVE  \A i \in DOMAIN CASES : i < finished + 1 => expected(i) \notin lacking
    <3>1. expected(finished) \notin lacking
      BY <2>1, <2>2, CaseIsMet
    <3>. HIDE DEF expected
    <3>. QED
      BY <1>0, <2>1, <3>1
  <2>3. ASSUME verdict' = "passed"
        PROVE  lacking' \cap Expected' = {}
    <3>0. CaseVerdict(CASES[finished]) = "passed"
      BY <2>1, <2>3
    <3>1. Continue = "passed"
      BY <3>0, CaseIsMet
    <3>3. finished = Len(CASES)
      BY <3>1 DEF Continue
    <3>2. \A i \in DOMAIN CASES : expected(i) \notin lacking
      <4>. HIDE DEF expected
      <4>. QED
        BY <1>0, <2>2, <2>3, <3>3
    <3>. QED
      BY <2>1, <3>2 DEF Expected
  <2>4. finished' \in Nat
    BY <2>1 DEF SuiteInv
  <2>. QED
    BY <2>1, <2>2, <2>3, <2>4 DEF SuiteInv, PassedHasLostNothing
<1>3. CASE UNCHANGED suite
  BY <1>3 DEF suite, SuiteInv, PassedHasLostNothing
<1>. QED
  BY <1>1, <1>2, <1>3 DEF CompileFail

(* The suite passes only in a library that has every check its cases name, *)
(* whatever it has lost and whatever the limits of a pipeline are: a check *)
(* that would refuse the same source does not stand in for the one lost.   *)
THEOREM SuiteCorrect == SuiteSpec => []PassedHasLostNothing
<1>1. SuiteInv => PassedHasLostNothing
  BY DEF SuiteInv
<1>. QED
  BY <1>1, SuiteStarts, SuiteGoesOn, PTL DEF SuiteSpec
=============================================================================
