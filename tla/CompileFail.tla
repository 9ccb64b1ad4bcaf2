----------------------------- MODULE CompileFail -----------------------------
(***************************************************************************)
(* tools/m3/compile-fail.py: one pipeline outside the library that must    *)
(* compile, and declarations that must not, each with the diagnostic that  *)
(* it must raise.  The library is one in which a check may be lacking, and *)
(* the cases should notice.                                                *)
(***************************************************************************)
EXTENDS ProcessorDeclarations

CONSTANTS
  PublicNames,          \* what `processor` and a context type offer by name
  LackingChecks         \* the diagnostics a library may have lost: <<text, named>>

VARIABLES
  lacking,              \* the diagnostics this library has lost
  finished,             \* the cases that were run
  verdict               \* "running", "passed", or which way it was raised

suite == <<lacking, finished, verdict>>

-----------------------------------------------------------------------------
(* PREFIX: Good, and GOOD_MEMBERS.                                         *)

Inline(name, size) == [name |-> name, size |-> size, leaves |-> {"int"}]

U8 == Inline("u8", 1)

U16 == Inline("u16", 2)

Exactly(members) == [member \in members |-> "exact"]

GoodMembers == Exactly({"descriptor", "Prepared", "Worker"} \cup ToSet(Functions))

Good ==
  [members |-> GoodMembers, id |-> 1, api |-> ApiVersion,
   needsArtifact |-> FALSE, namesArtifact |-> FALSE,
   inputs |-> << >>, outputs |-> << >>, metadataScratch |-> FALSE,
   reads |-> {}, produces |-> {}, metrics |-> << >>, events |-> << >>,
   work |-> [fixed |-> 0, perPacket |-> 1, maximum |-> MaxBatch],
   dispositions |-> {}, outputIds |-> << >>,
   stateful |-> FALSE, workerHoldsState |-> FALSE, updateModes |-> {}, defaultMode |-> "none",
   errorMode |-> "infallible", policy |-> [kind |-> "infallible"]]

Bad == [Good EXCEPT !.id = 2]

WithMembers(members) == [Good EXCEPT !.members = Restrict(@, members)]

Key(name, value) ==
  [name |-> name, members |-> Exactly({"id", "Value"}), id |-> 1, value |-> value,
   exclusive |-> TRUE]

Producing(id, keys) ==
  [Good EXCEPT !.id = id, !.outputs = keys, !.metadataScratch = TRUE]

(* A case: the names it uses, its stages, the pipeline's input keys, and   *)
(* the diagnostic it expects.                                              *)
Case(stages, inputs, text, named) ==
  [uses |-> {}, stages |-> stages, inputs |-> inputs, expected |-> <<text, named>>]

Uses(name) ==
  [uses |-> {name}, stages |-> << >>, inputs |-> << >>, expected |-> <<"has no member", name>>]

-----------------------------------------------------------------------------
(* CASES                                                                   *)

ApiSurfaceCases ==
  << Uses("invokeProcessor"), Uses("InstalledCapabilities"), Uses("authority_binding") >>

ShapeCases ==
  << Case(<<WithMembers({})>>, << >>, "missing", "descriptor"),
     Case(<<WithMembers({"descriptor"})>>, << >>, "missing", "Prepared"),
     Case(<<WithMembers({"descriptor", "Prepared", "Worker"})>>, << >>,
          "missing", "estimateResources") >>

IdentityCases ==
  << Case(<<Good, Good>>, << >>, "duplicate id", "processor"),
     Case(<<[Bad EXCEPT !.id = 0]>>, << >>, "invalid id", "processor"),
     Case(<<[Bad EXCEPT !.api = ApiVersion + 1]>>, << >>, "API mismatch", "processor") >>

SignatureCases ==
  << Case(<<[Bad EXCEPT !.members.estimateResources = "other"]>>, << >>,
          "has wrong signature", "estimateResources"),
     Case(<<[Bad EXCEPT !.errorMode = "bounded"]>>, << >>,
          "error policy/result mismatch", "infallible") >>

StateCases ==
  << Case(<<[Bad EXCEPT !.workerHoldsState = TRUE]>>, << >>, "worker state/flag mismatch", "state"),
     Case(<<[Bad EXCEPT !.workerHoldsState = TRUE, !.stateful = TRUE,
                        !.updateModes = {"flush"}, !.defaultMode = "retain_compatible"]>>, << >>,
          "unsupported default update mode", "state") >>

WorkCases ==
  << Case(<<[Bad EXCEPT !.work.maximum = 0]>>, << >>, "invalid bounded-work declaration", "work"),
     Case(<<[Bad EXCEPT !.work.fixed = 1]>>, << >>,
          "bounded-work formula exceeds maximum_total", "work") >>

ResourceCases ==
  << Case(<<[Producing(2, <<Key("Key", U8)>>) EXCEPT !.metadataScratch = FALSE]>>, << >>,
          "metadata/resource mismatch", "processor") >>

DispositionCases ==
  << Case(<<[Bad EXCEPT !.errorMode = "bounded",
                        !.policy = [kind |-> "terminal_active",
                                    terminal |-> [disposition |-> "drop", outputs |-> {}]]]>>,
          << >>, "error policy uses undeclared disposition", "drop") >>

ProducerCases ==
  << Case(<<Producing(2, <<Key("A", U8), Key("B", U8)>>)>>, << >>,
          "duplicate metadata producer in one stage", "produced"),
     Case(<<Producing(2, <<Key("A", U8)>>), Producing(3, <<Key("B", U16)>>)>>, << >>,
          "metadata producer type conflict", "produced"),
     Case(<<[Bad EXCEPT !.inputs = <<Key("Key", U8)>>, !.metadataScratch = TRUE]>>, << >>,
          "metadata consumed before producer", "consumed") >>

(* A pointer, a slice, a function, a nested pointer and an allocator.      *)
ValueCases ==
  LET holding(leaf) == [name |-> leaf, size |-> 8, leaves |-> {leaf}]
      case(value) == Case(<<Good>>, <<Key("Key", value)>>, "must not contain pointer", "metadata value")
  IN  << case(holding("pointer")), case([holding("pointer") EXCEPT !.size = 16]),
         case(holding("fn")), case([holding("pointer") EXCEPT !.name = "struct"]),
         case([name |-> "Allocator", size |-> 16, leaves |-> {"pointer"}]) >>

(* The pipeline is not named here: the body alone is analysed.             *)
UndeclaredReadCase ==
  << Case(<<[Bad EXCEPT !.reads = {Key("Key", U8)}]>>, << >>, "used undeclared", "metadata input") >>

SchemaCases ==
  LET declared(bound) ==
        [members |-> Exactly({"id", "Value", "Payload"}), id |-> 1, value |-> U8, bound |-> bound]
  IN  << Case(<<[Bad EXCEPT !.metrics = <<declared(0)>>]>>, << >>,
              "requires nonzero bound", "metrics"),
         Case(<<[Bad EXCEPT !.events = <<declared(1), declared(1)>>]>>, << >>,
              "duplicate id", "events") >>

CASES ==
  ApiSurfaceCases \o ShapeCases \o IdentityCases \o SignatureCases \o StateCases \o WorkCases
  \o ResourceCases \o DispositionCases \o ProducerCases \o ValueCases
  \o UndeclaredReadCase \o SchemaCases

Expected == {CASES[i].expected : i \in DOMAIN CASES}

-----------------------------------------------------------------------------
(* What the output of `zig test` reports of a source: nothing, or the      *)
(* first diagnostic of a check that the library has.                       *)

Reported(case) ==
  LET checks == InOrderOf(SetToSeq(case.uses), LAMBDA i :
                  Check("has no member", SetToSeq(case.uses)[i],
                        SetToSeq(case.uses)[i] \notin PublicNames))
                \o PipelineChecks(case.stages, case.inputs)
                \o InOrderOf(case.stages, LAMBDA s : BodyChecks(case.stages[s]))
  IN  FirstFault(checks, lacking)

CompileFailInit ==
  /\ lacking \in LackingChecks
  /\ finished = 0
  /\ verdict = "running"

Finish(result) ==
  /\ verdict' = result
  /\ finished' = finished + 1
  /\ UNCHANGED lacking

(* run_legitimate_pipeline, before the cases.                              *)
RunLegitimatePipeline ==
  /\ verdict = "running"
  /\ finished = 0
  /\ Finish(IF Reported(Case(<<Good>>, << >>, "none", "none")) = {}
            THEN "running" ELSE "refused")

Continue == IF finished = Len(CASES) THEN "passed" ELSE "running"

(* Deviation: any failure to compile will do.                              *)
CaseVerdict_AnyDiagnostic(case) ==
  IF Reported(case) = {} THEN "compiled" ELSE Continue

(* The expected text may stand anywhere in the output.                     *)
CaseVerdict(case) ==
  IF Reported(case) = {} THEN "compiled"
  ELSE IF case.expected \in Reported(case) THEN Continue
  ELSE "unexpected"

(* run_case: the first case that does not go as expected ends the run.     *)
RunCase ==
  /\ verdict = "running"
  /\ finished \in DOMAIN CASES
  /\ Finish(CaseVerdict(CASES[finished]))

CompileFail == RunLegitimatePipeline \/ RunCase

SuiteSpec == CompileFailInit /\ [][CompileFail]_suite

-----------------------------------------------------------------------------
(* A library that has lost any of the checks the cases name does not pass, *)
(* even where another check would refuse the same source.                  *)
PassedHasLostNothing == verdict = "passed" => lacking \cap Expected = {}

(* No other library fails: each case meets its own check first, in the     *)
(* order in which the library makes them.                                  *)
OtherLibrariesPass ==
  verdict \notin {"running", "passed"} => lacking \cap Expected # {}

(* The contract of the cases: the suite tells a library that has lost one  *)
(* of the checks they name from one that has not.                          *)
LostChecksAreNoticed == PassedHasLostNothing /\ OtherLibrariesPass
=============================================================================
