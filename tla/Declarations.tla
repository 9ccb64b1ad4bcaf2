---------------------------- MODULE Declarations ----------------------------
(***************************************************************************)
(* The contract of processor declarations from its two sides: the cases    *)
(* that must not compile, and the metadata of the pipelines that do.  The  *)
(* compile-fail tool and a worker share nothing but the checks, so a       *)
(* behaviour follows one of them.                                          *)
(***************************************************************************)
EXTENDS CompileFail, MetadataFlow

VARIABLE side           \* "tool" or "worker"

vars == <<suite, flow, side>>

Init ==
  /\ side \in {"tool", "worker"}
  /\ IF side = "tool"
     THEN /\ CompileFailInit
          /\ stages = << >> /\ inputKeys = << >> /\ store = Empty(0) /\ stage = 0
          /\ batchLength = 0 /\ call = 0 /\ nested = 0 /\ given = << >>
     ELSE /\ FlowInit
          /\ lacking = {} /\ finished = 0 /\ verdict = "running"

Next ==
  /\ UNCHANGED side
  /\ \/ side = "tool" /\ CompileFail /\ UNCHANGED flow
     \/ side = "worker" /\ Flow /\ UNCHANGED suite

Spec == Init /\ [][Next]_vars
=============================================================================
