--------------------------- MODULE TokenLifecycle ---------------------------
(***************************************************************************)
(* What the ownership machinery promises about every token (INV-PKT-001):  *)
(* after the worker takes it from the input, exactly one party holds it at *)
(* a time, it is handed from one to the next along the arrows below, and   *)
(* once done it stays done.  clean is the verdict of shutdown              *)
(* verification: nothing that was received is still held.                  *)
(*                                                                         *)
(*    input --> worker --> output --> done                                 *)
(*                 |-----> lease ---> done                                 *)
(*                 `----------------> done                                 *)
(***************************************************************************)
CONSTANT Token

VARIABLES holder, clean

vars == <<holder, clean>>

Holder == {"input", "worker", "output", "lease", "done"}

(* Nobody downstream of the input owes a completion. *)
NothingHeld == \A t \in Token : holder[t] \in {"input", "done"}

Init ==
  /\ holder = [t \in Token |-> "input"]
  /\ clean = TRUE

(* The worker receives a burst. *)
Take(S) ==
  /\ \A t \in S : holder[t] = "input"
  /\ holder' = [t \in Token |-> IF t \in S THEN "worker" ELSE holder[t]]

(* The worker passes one token to the output or to a lease. *)
HandOn(t, to) ==
  /\ holder[t] = "worker"
  /\ holder' = [holder EXCEPT ![t] = to]

(* Whoever holds the token finishes it. *)
Finish(t) ==
  /\ holder[t] \in {"worker", "output", "lease"}
  /\ holder' = [holder EXCEPT ![t] = "done"]

Next ==
  /\ \/ \E S \in SUBSET Token : Take(S)
     \/ \E t \in Token, to \in {"output", "lease"} : HandOn(t, to)
     \/ \E t \in Token : Finish(t)
  /\ clean' = NothingHeld'

Spec == Init /\ [][Next]_vars
=============================================================================
