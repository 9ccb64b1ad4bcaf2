------------------------ MODULE M3BenchmarkEvidence ------------------------
(***************************************************************************)
(* tools/m3/benchmark-gate.py, the controller that launches the benchmark  *)
(* and has its output turned into evidence, and                            *)
(* tools/m3/benchmark-evidence.py, which generates the document, validates *)
(* a fresh or a retained one, and tests itself.                            *)
(***************************************************************************)
EXTENDS Repository, RawSamples

CONSTANTS
  M3Sources,            \* SOURCES
  M3Environment,        \* ENVIRONMENT
  M3EvolvedPaths,       \* EVOLVED_RETAINED_PATHS
  M3Launches            \* per launch, what it can print

ASSUME M3EvidenceAssumption ==
  /\ M3Sources \in Seq(Path)
  /\ M3Environment \in Path \ M3EvolvedPaths
  /\ \A run \in Runs : \A output \in M3Launches[run] : output \in Seq(ToSet(output))

VARIABLES
  m3,                   \* the running program
  m3Artifact            \* the document at benchmark.m3.json, if one is there

m3Vars == <<m3, m3Artifact>>

NoEvidence == << >>

M3Resting == {"idle", "passed", "validated", "test failed"}

(* measured is history: the sources each launch was built from.  forgery   *)
(* counts the negative controls, 0 being the positive one, and retain says *)
(* whether the document is, or is to be, the retained one.                 *)
M3Idle == [at |-> "idle", retain |-> FALSE, commit |-> 0, raw |-> << >>, measured |-> {},
           read |-> 0, forgery |-> 0, evidence |-> NoEvidence]

M3Init == m3 = M3Idle /\ m3Artifact = NoEvidence

(* A failed check is a ValueError or a SystemExit: the program ends, and a *)
(* document that is written already stays where it is.                     *)
M3Continue(check, next) ==
  m3' = IF check THEN next ELSE M3Idle

M3To(at) == [m3 EXCEPT !.at = at]

M3Paths == {M3Sources[i] : i \in DOMAIN M3Sources} \cup {M3Environment}

Bytes(tree) == [path \in M3Paths |-> tree[path]]

AllPresent(bytes) == \A path \in M3Paths : bytes[path] # Absent

-----------------------------------------------------------------------------
(* Documents.                                                              *)

(* document_for, but for the sources and the environment.  measured is a   *)
(* history field: what the raw output was measured with.                   *)
DocumentFor(raw, commit) ==
  [commit |-> commit, tree |-> TreeOf(commit), raw |-> raw, rawHash |-> raw,
   generation |-> TRUE, environment |-> Absent, sources |-> << >>,
   runs |-> IndependentRuns, summaries |-> M3Summarize(raw), ratios |-> M3Ratios(raw),
   pass |-> TRUE, measured |-> {}]

(* The rest of it, from the bytes that read_source finds.                  *)
Binding(document, bytes) ==
  [document EXCEPT !.environment = bytes[M3Environment],
                   !.sources = [i \in DOMAIN M3Sources |-> <<M3Sources[i], bytes[M3Sources[i]]>>]]

DocumentPossible(raw) == M3ParseRaw(raw) /\ PerfCorePass(raw)

(* The hashes of the document are those of the given bytes.                *)
HashesMatch(document, bytes) ==
  /\ document.environment = bytes[M3Environment]
  /\ \A i \in DOMAIN document.sources : document.sources[i][2] = bytes[document.sources[i][1]]

(* Deviation: the raw output is not compared with its hash.                *)
Unaltered_Unhashed(document) == document.generation

Unaltered(document) == document.generation /\ document.rawHash = document.raw

SourcesListed(document) ==
  [i \in DOMAIN document.sources |-> document.sources[i][1]] = M3Sources

Recomputed(document) ==
  /\ M3ParseRaw(document.raw)
  /\ document.runs = IndependentRuns
  /\ document.summaries = M3Summarize(document.raw)
  /\ document.ratios = M3Ratios(document.raw)
  /\ document.pass = PerfCorePass(document.raw)

(* What validate_document finds in the document alone.                     *)
SelfConsistent(document) ==
  Unaltered(document) /\ SourcesListed(document) /\ Recomputed(document)

(* The JSON schema asks for a benchmark that passed.                       *)
SchemaCheck(document) == document.pass

(* retained_topology: exactly one of the two accepted lines.               *)
RetainedTopology(newer) == Ancestor(PreSquashTip, newer) # Ancestor(Squash, newer)

(* validate_retained_bridge; the anchors themselves are as Repository has  *)
(* them.                                                                   *)
RetainedBridge(document) ==
  /\ document.commit = RetainedSource
  /\ document.tree = TreeOf(RetainedSource)
  /\ Ancestor(RetainedSource, FinalGate)
  /\ Ancestor(FinalGate, PreSquashTip)

HashesAtAnchors(document) ==
  \A commit \in {document.commit, PreSquashTip, Squash} :
    HashesMatch(document, Bytes(TreeOf(commit)))

-----------------------------------------------------------------------------
(* benchmark-gate.py up to the evidence it has generated.                  *)

M3GateBegin ==
  /\ m3.at \in M3Resting
  /\ \E retain \in BOOLEAN :
       M3Continue(StatusEmpty, [M3Idle EXCEPT !.at = "gate commit", !.retain = retain])

M3GateReadCommit ==
  /\ m3.at = "gate commit"
  /\ m3' = [M3To("launch") EXCEPT !.commit = head]

M3Launch ==
  /\ m3.at = "launch"
  /\ m3.read < IndependentRuns
  /\ \E output \in M3Launches[m3.read + 1] :
       M3Continue(output # << >>,
                  [m3 EXCEPT !.read = @ + 1, !.raw = @ \o output,
                             !.measured = @ \cup {Bytes(work)}])

(* Deviation: generate trusts the status the gate began with.              *)
M3GenerateBegin_Unchecked ==
  /\ m3.at = "launch"
  /\ m3.read = IndependentRuns
  /\ m3' = [M3To("generate") EXCEPT !.read = 0]

(* generate: the same look at the status, and a HEAD of its own.           *)
M3GenerateBegin ==
  /\ m3.at = "launch"
  /\ m3.read = IndependentRuns
  /\ M3Continue(StatusEmpty, [M3To("generate") EXCEPT !.read = 0])

(* Work that was taken back by now is nobody's to find.                    *)
M3GenerateDocument ==
  /\ m3.at = "generate"
  /\ LET bytes == Bytes(TreeOf(head))
     IN  M3Continue(DocumentPossible(m3.raw) /\ AllPresent(bytes),
           [M3To("write") EXCEPT
              !.evidence = [Binding(DocumentFor(m3.raw, head), bytes) EXCEPT
                              !.measured = IF undone THEN {} ELSE m3.measured]])

(* Written first, validated after.                                         *)
M3WriteDocument ==
  /\ m3.at = "write"
  /\ m3' = M3To("fresh head")
  /\ m3Artifact' = IF m3.retain THEN m3.evidence ELSE m3Artifact

(* validate_document in FRESH_MODE; HEAD is read twice.                    *)
M3FreshHead ==
  /\ m3.at = "fresh head"
  /\ M3Continue(SchemaCheck(m3.evidence), [M3To("fresh tree") EXCEPT !.read = head])

FreshValid(document, commit, tree, bytes) ==
  /\ document.commit = commit
  /\ document.tree = tree
  /\ TreeOf(document.commit) = tree
  /\ HashesMatch(document, bytes)
  /\ SelfConsistent(document)

M3FreshTree ==
  /\ m3.at = "fresh tree"
  /\ M3Continue(FreshValid(m3.evidence, m3.read, TreeOf(head),
                           Bytes(TreeOf(m3.evidence.commit))),
                M3To("gate recheck commit"))

M3GateRecheckCommit ==
  /\ m3.at = "gate recheck commit"
  /\ M3Continue(head = m3.commit,
                M3To(IF m3.retain THEN "passed" ELSE "gate recheck status"))

M3GateRecheckStatus ==
  /\ m3.at = "gate recheck status"
  /\ M3Continue(StatusEmpty, M3To("passed"))

M3Gate ==
  \/ /\ \/ M3GateBegin \/ M3GateReadCommit \/ M3Launch \/ M3GenerateBegin
        \/ M3GenerateDocument \/ M3FreshHead \/ M3FreshTree
        \/ M3GateRecheckCommit \/ M3GateRecheckStatus
     /\ UNCHANGED <<repository, m3Artifact>>
  \/ /\ M3WriteDocument
     /\ OutputWritten(m3.retain)

-----------------------------------------------------------------------------
(* The retained evidence.                                                  *)

M3ValidateBegin ==
  /\ m3.at \in M3Resting
  /\ m3Artifact # NoEvidence
  /\ M3Continue(SchemaCheck(m3Artifact),
                [M3Idle EXCEPT !.at = "retained bridge", !.evidence = m3Artifact])

(* Everything that is read from commits; HEAD is read once.                *)
M3RetainedBridge ==
  /\ m3.at = "retained bridge"
  /\ M3Continue(/\ RetainedBridge(m3.evidence)
                /\ RetainedTopology(head)
                /\ HashesAtAnchors(m3.evidence),
                [M3To("retained environment") EXCEPT !.commit = head])

M3RetainedEnvironment ==
  /\ m3.at = "retained environment"
  /\ M3Continue(m3.evidence.environment = work[M3Environment], M3To("retained sources"))

RetainedSourceCurrent(record) == record[1] \in M3EvolvedPaths \/ work[record[1]] = record[2]

M3RetainedSource ==
  /\ m3.at = "retained sources"
  /\ m3.read < Len(M3Sources)
  /\ M3Continue(RetainedSourceCurrent(m3.evidence.sources[m3.read + 1]),
                [m3 EXCEPT !.read = @ + 1])

M3RetainedSamples ==
  /\ m3.at = "retained sources"
  /\ m3.read = Len(M3Sources)
  /\ M3Continue(SelfConsistent(m3.evidence), M3To("validated"))

M3Validate ==
  /\ \/ M3ValidateBegin \/ M3RetainedBridge \/ M3RetainedEnvironment
     \/ M3RetainedSource \/ M3RetainedSamples
  /\ UNCHANGED <<repository, m3Artifact>>

-----------------------------------------------------------------------------
(* The self test: a document of synthetic samples and of the work tree,    *)
(* and then the retained one, each validated as it is and in every forged  *)
(* form, one step for every look at HEAD or at a file.                     *)

M3Forgeries ==
  <<"commit", "raw-hash", "tree", "generation", "source-list", "median", "ratio",
    "run-count", "duplicate-order", "inconsistent-elapsed", "inconsistent-cycles">>

RetainedForgeries == <<"retained-source", "retained-self-path", "retained-statistics">>

WithRaw(document, raw) == [document EXCEPT !.raw = raw, !.rawHash = raw]

(* The first sample line is the second line; the next is of order 2.       *)
Forged(document, name) ==
  CASE name = "commit" ->
         [document EXCEPT !.commit = RetainedSource, !.tree = TreeOf(RetainedSource)]
    [] name = "raw-hash" -> [document EXCEPT !.rawHash = << >>]
    [] name = "tree" -> [document EXCEPT !.tree = << >>]
    [] name = "generation" -> [document EXCEPT !.generation = FALSE]
    [] name = "source-list" ->
         [document EXCEPT !.sources = SubSeq(@, 1, Len(@) - 1)]
    [] name = "median" ->
         [document EXCEPT !.summaries[<<0, BatchOrder[1], VariantOrder[1]>>][1] = 1]
    [] name \in {"ratio", "retained-statistics"} ->
         [document EXCEPT !.ratios[BatchOrder[1]] = <<99, 1>>]
    [] name = "run-count" -> [document EXCEPT !.runs = @ - 1]
    [] name = "duplicate-order" ->
         WithRaw(document, [document.raw EXCEPT ![3].order = 1])
    [] name = "inconsistent-elapsed" ->
         WithRaw(document, [document.raw EXCEPT ![2].elapsed = @ + 1])
    [] name = "inconsistent-cycles" ->
         WithRaw(document, [document.raw EXCEPT ![2].cycles = @ + 1])
    [] name = "retained-source" ->
         [document EXCEPT !.commit = FinalGate, !.tree = TreeOf(FinalGate)]
    [] name = "retained-self-path" ->
         [document EXCEPT !.sources =
            [i \in DOMAIN @ |-> IF @[i][1] \in M3EvolvedPaths THEN <<@[i][1], Absent>> ELSE @[i]]]

Names == IF m3.retain THEN RetainedForgeries ELSE M3Forgeries

(* The document under validation.                                          *)
Candidate == IF m3.forgery = 0 THEN m3.evidence ELSE Forged(m3.evidence, Names[m3.forgery])

M3SelfTestBegin ==
  /\ m3.at \in M3Resting
  /\ M3Continue(DocumentPossible(SyntheticRaw),
                [M3Idle EXCEPT !.at = "self sources", !.evidence = DocumentFor(SyntheticRaw, head)])

M3SelfTestSource ==
  /\ m3.at = "self sources"
  /\ Len(m3.evidence.sources) < Len(M3Sources)
  /\ LET path == M3Sources[Len(m3.evidence.sources) + 1]
     IN  M3Continue(work[path] # Absent,
                    [m3 EXCEPT !.evidence.sources = Append(@, <<path, work[path]>>)])

M3SelfTestEnvironment ==
  /\ m3.at = "self sources"
  /\ Len(m3.evidence.sources) = Len(M3Sources)
  /\ M3Continue(work[M3Environment] # Absent,
                [M3To("control head") EXCEPT !.evidence.environment = work[M3Environment]])

M3SelfTestRetained ==
  /\ m3.at = "self retained"
  /\ M3Continue(m3Artifact # NoEvidence /\ SchemaCheck(m3Artifact),
                [M3Idle EXCEPT !.at = "control head", !.retain = TRUE, !.evidence = m3Artifact])

NextControl ==
  IF m3.forgery < Len(Names)
    THEN [M3To("control head") EXCEPT !.forgery = @ + 1, !.read = 0]
    ELSE IF m3.retain THEN M3Idle ELSE M3To("self retained")

(* The end of a validation.  The positive control has to be accepted, the  *)
(* others are not to be.                                                   *)
M3Verdict(accepted) ==
  m3' = IF accepted = (m3.forgery = 0) THEN NextControl
        ELSE IF accepted THEN M3To("test failed")
        ELSE M3Idle

M3Check(check, next) == IF check THEN m3' = next ELSE M3Verdict(FALSE)

(* Fresh, two looks at HEAD and the checks up to the first file read;      *)
(* retained, one look and all that is read from commits.                   *)
M3ControlHead ==
  /\ m3.at = "control head"
  /\ IF m3.retain
       THEN M3Check(/\ RetainedBridge(Candidate)
                    /\ RetainedTopology(head)
                    /\ Unaltered(Candidate)
                    /\ SourcesListed(Candidate)
                    /\ HashesAtAnchors(Candidate),
                    [M3To("control environment") EXCEPT !.commit = head])
       ELSE m3' = [M3To("control tree") EXCEPT !.commit = head]

M3ControlTree ==
  /\ m3.at = "control tree"
  /\ M3Check(/\ Candidate.commit = m3.commit
             /\ Candidate.tree = TreeOf(head)
             /\ TreeOf(Candidate.commit) = TreeOf(head)
             /\ Unaltered(Candidate),
             M3To("control environment"))

(* A file that is gone is no ValueError: the self test ends there.         *)
M3ControlEnvironment ==
  /\ m3.at = "control environment"
  /\ IF work[M3Environment] = Absent
       THEN m3' = M3Idle
       ELSE M3Check(Candidate.environment = work[M3Environment] /\ SourcesListed(Candidate),
                    M3To("control sources"))

M3ControlSource ==
  /\ m3.at = "control sources"
  /\ m3.read < Len(M3Sources)
  /\ LET record == Candidate.sources[m3.read + 1]
         evolved == m3.retain /\ record[1] \in M3EvolvedPaths
     IN  IF ~evolved /\ work[record[1]] = Absent
           THEN m3' = M3Idle
           ELSE M3Check(evolved \/ work[record[1]] = record[2], [m3 EXCEPT !.read = @ + 1])

M3ControlSamples ==
  /\ m3.at = "control sources"
  /\ m3.read = Len(M3Sources)
  /\ M3Verdict(Recomputed(Candidate))

M3SelfTest ==
  /\ \/ M3SelfTestBegin \/ M3SelfTestSource \/ M3SelfTestEnvironment
     \/ M3SelfTestRetained
     \/ M3ControlHead \/ M3ControlTree \/ M3ControlEnvironment
     \/ M3ControlSource \/ M3ControlSamples
  /\ UNCHANGED <<repository, m3Artifact>>

(* The retained document is a file like any other.                         *)
M3Edited(document) ==
  {[document EXCEPT !.commit = commit, !.tree = TreeOf(commit)] : commit \in Commit}
    \cup {Forged(document, name) : name \in {"duplicate-order", "inconsistent-elapsed"}}
    \cup UNION {{[document EXCEPT !.sources[i][2] = hash] : hash \in Content} :
                 i \in DOMAIN M3Sources}

(* Nothing was measured for what is edited.                                *)
M3Forge ==
  /\ m3Artifact # NoEvidence
  /\ \E edited \in M3Edited(m3Artifact) : m3Artifact' = [edited EXCEPT !.measured = {}]
  /\ DeveloperTurn
  /\ UNCHANGED <<history, head, work, untracked, undone, m3>>
=============================================================================
