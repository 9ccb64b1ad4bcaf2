---------------------------- MODULE CoverageGates ----------------------------
(***************************************************************************)
(* The coverage and version gates over one source tree: the import walk    *)
(* finds the tests that the canonical root runs, somebody edits the        *)
(* coverage map, and the validators give their verdicts.  No validator     *)
(* looks at the map twice, so edits need not interleave with the walk.     *)
(***************************************************************************)
EXTENDS ImportWalk, CoverageMap

CONSTANTS
  Sources,              \* source trees: files, imports, and the bound on edits
  InitialMap,           \* the map before it is edited
  Line,                 \* lines an edit can bring in
  TestsIn,              \* per file, the names of its tests
  M3Files,              \* the files m3_tests adds
  VersionMatches        \* what the version patterns can find in a file

(* The map is lines, and only `code` and `tests` open a list.              *)
ASSUME MapAssumption ==
  /\ InitialMap \in Seq(ToSet(InitialMap))
  /\ \A line \in Line \cup ToSet(InitialMap) :
       line.kind = "section" => line.value \in Sections

(* Every file is below the directories that all_zig_tests looks through.   *)
ASSUME SourcesAssumption ==
  \A tree \in Sources :
    /\ tree.files \subseteq Name \cap DOMAIN TestsIn
    /\ tree.imports \in [tree.files -> Seq(Name)]

(* No test has a name that the self-tests make up.                         *)
ASSUME TestsAssumption ==
  /\ Unknown # "fixture"
  /\ \A path \in DOMAIN TestsIn : TestsIn[path] \cap {Unknown, "fixture"} = {}

VARIABLES
  lines,                \* coverage.yaml
  edits,                \* edits left
  verdict               \* of each gate, once they have run

gatesVars == <<source, walk, lines, edits, verdict>>

NoVerdict == << >>

GatesInit ==
  /\ \E tree \in Sources :
       files = tree.files /\ imports = tree.imports /\ edits = tree.edits
  /\ WalkInit
  /\ lines = InitialMap
  /\ verdict = NoVerdict

EditMap ==
  /\ edits > 0
  /\ outcome = "found"
  /\ verdict = NoVerdict
  /\ \/ \E i \in DOMAIN lines : lines' = RemoveAt(lines, i)
     \/ \E i \in DOMAIN lines, line \in Line : lines' = ReplaceAt(lines, i, line)
  /\ edits' = edits - 1
  /\ UNCHANGED <<source, walk, verdict>>

Walk == WalkNext /\ UNCHANGED <<lines, edits, verdict>>

TestNames(paths) == UNION {TestsIn[path] : path \in paths}

(* all_zig_tests, reachable_zig_tests, m3_tests                            *)
Discovered == TestNames(files \cap DOMAIN TestsIn)

Executed == TestNames(reachable)

M3Tests == TestNames(M3Files)

RunCoverageGates ==
  /\ outcome = "found"
  /\ verdict = NoVerdict
  /\ verdict' = [coverage |-> <<M1Coverage(lines, Discovered, Executed),
                               M2Coverage(lines, Discovered, Executed),
                               M3Coverage(lines, Discovered, Executed, M3Tests)>>,
                 selfTest |-> SelfTestsPass(lines, Discovered, Executed),
                 version |-> << >>]
  /\ UNCHANGED <<source, walk, lines, edits>>

RunVersionGates ==
  /\ verdict # NoVerdict
  /\ verdict.version = << >>
  /\ \E package \in VersionMatches, api \in VersionMatches :
       verdict' = [verdict EXCEPT !.version = <<M1Version(lines, package, api),
                                                M2Version(lines, package, api),
                                                M3Version(lines, package, api)>>]
  /\ UNCHANGED <<source, walk, lines, edits>>

GatesNext == EditMap \/ Walk \/ RunCoverageGates \/ RunVersionGates

GatesSpec == GatesInit /\ [][GatesNext]_gatesVars /\ WF_gatesVars(Walk)

-----------------------------------------------------------------------------

(* However the imports of the files form cycles, the walk comes to an end. *)
(* The fairness is that of a program that goes on running.                 *)
WalkEnds == <>(outcome # "running")

(* What a record should hold, read off the text without a parser's state:  *)
(* of the lines from its id to the next, the last scalar of each field and *)
(* the items whose nearest line above that is neither item nor comment     *)
(* opens the list.                                                         *)
Latest(indices) == CHOOSE i \in indices : \A j \in indices : j <= i

IdLines == {i \in DOMAIN lines : lines[i].kind = "id"}

Owner(i) == Latest({j \in IdLines : j <= i})

Opener(i) == Latest({j \in 1 .. i - 1 : lines[j].kind \notin {"item", "comment"}})

InOrder(indices) == ElementsAt([i \in DOMAIN lines |-> i], indices)

ScalarWritten(span, field) ==
  LET written == {i \in span : lines[i].kind = field}
  IN  IF written = {} THEN NoField ELSE lines[Latest(written)].value

ItemsWritten(span, section) ==
  LET written == InOrder({i \in span : /\ lines[i].kind = "item"
                                      /\ lines[Opener(i)].kind = "section"
                                      /\ lines[Opener(i)].value = section})
  IN  [k \in DOMAIN written |-> lines[written[k]].value]

WrittenRecord(start) ==
  LET span == {i \in start .. Len(lines) : Owner(i) = start}
  IN  [id |-> lines[start].value,
       design |-> ScalarWritten(span, "design"),
       status |-> ScalarWritten(span, "status"),
       since |-> ScalarWritten(span, "since"),
       code |-> ItemsWritten(span, "code"),
       tests |-> ItemsWritten(span, "tests")]

(* A line that belongs nowhere: of no kind, before the first id, or an item *)
(* that no list is open for.                                               *)
Misplaced(i) ==
  \/ lines[i].kind \notin Scalars \cup {"comment", "id", "section", "item"}
  \/ lines[i].kind \notin {"comment", "id"} /\ \A start \in IdLines : start > i
  \/ lines[i].kind = "item" /\ lines[Opener(i)].kind # "section"

(* Edits of the map never make the parser give a record a field or an item *)
(* of another record or another list, and it skips nothing it cannot read: *)
(* it raises exactly on a text with a misplaced line, and otherwise its    *)
(* records are what is written.                                            *)
ParsedAsWritten ==
  outcome = "found" =>
    LET parsed == ParseCoverage(lines)
        starts == InOrder(IdLines)
    IN  /\ parsed.raised <=> \E i \in DOMAIN lines : Misplaced(i)
        /\ ~parsed.raised =>
             parsed.records = [r \in DOMAIN starts |-> WrittenRecord(starts[r])]

(* A claim of M1 or M2 rests on a test that only M3 counts as executed.    *)
EarlierClaimOnM3Test ==
  \E start \in IdLines :
    /\ lines[start].value \in M2Ids
    /\ ToSet(WrittenRecord(start).tests) \cap (M3Tests \ Executed) # {}

(* The cumulative gates: a map and a tree that pass a later milestone's    *)
(* gate pass the earlier ones, though M1 and M2 select their claims from a *)
(* map that later milestones extend.  M3 counts more tests as executed, so *)
(* there it holds where no claim of M1 or M2 rests on one of those; the    *)
(* claims that M3 adds may.                                                *)
EarlierGatesStillPass ==
  verdict # NoVerdict =>
    /\ verdict.coverage[2] => verdict.coverage[1]
    /\ verdict.coverage[3] => verdict.coverage[2] \/ EarlierClaimOnM3Test
    /\ verdict.version # << >> =>
         /\ verdict.version[3] => verdict.version[2]
         /\ verdict.version[2] => verdict.version[1]

(* The negative self-tests mutate the first record of whatever map there   *)
(* is: on every map that M1 accepts, all seven forgeries are refused with  *)
(* the message of their class.                                             *)
SelfTestsRefuseForgeries ==
  verdict # NoVerdict /\ verdict.coverage[1] => verdict.selfTest
=============================================================================
