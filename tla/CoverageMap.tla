----------------------------- MODULE CoverageMap -----------------------------
(***************************************************************************)
(* docs/requirements/coverage.yaml as the validators of M1, M2 and M3 read *)
(* it.  A line has a kind, and a value where the kind has one; a since     *)
(* line may quote its value.  A failure is the class of a message and the  *)
(* id it names.                                                            *)
(***************************************************************************)
EXTENDS Selection, SequencesExt

CONSTANTS
  M1Ids,                \* EXPECTED_M1_IDS
  M2OnlyIds,            \* what EXPECTED_M2_IDS adds to them
  M3OnlyIds,            \* EXPECTED_M3_ONLY
  Catalogue,            \* catalogue_ids
  ExistingPaths,        \* what `design` and `code` can name
  AcceptedStatuses,     \* ACCEPTED_STATUSES
  Unknown               \* a value that is none of them

ASSUME IdsAssumption ==
  /\ M1Ids # {}
  /\ M1Ids \cap M2OnlyIds = {}
  /\ (M1Ids \cup M2OnlyIds) \cap M3OnlyIds = {}
  /\ IsFiniteSet(M1Ids \cup M2OnlyIds \cup M3OnlyIds)
  /\ Unknown \notin M1Ids \cup M2OnlyIds \cup M3OnlyIds \cup Catalogue
  /\ Unknown \notin ExistingPaths \cup AcceptedStatuses

M2Ids == M1Ids \cup M2OnlyIds

M3Ids == M2Ids \cup M3OnlyIds

-----------------------------------------------------------------------------
(* parse_coverage                                                          *)

Scalars == {"design", "status", "since"}

Sections == {"code", "tests"}

NoField == "none"

ASSUME FieldAssumption == NoField # Unknown

NewRecord(id) ==
  [id |-> id, design |-> NoField, status |-> NoField, since |-> NoField,
   code |-> << >>, tests |-> << >>]

Parsing == [records |-> << >>, section |-> NoField, raised |-> FALSE]

(* Deviation: a scalar field leaves the list open.                         *)
WithScalar_OpenList(parsed, line) ==
  [parsed EXCEPT !.records[Len(parsed.records)][line.kind] = line.value]

(* A field set again is set anew; it closes the list that was open.        *)
WithScalar(parsed, line) ==
  [parsed EXCEPT !.records[Len(parsed.records)][line.kind] = line.value,
                 !.section = NoField]

(* `current` is the last record.  A line of no kind, a field before the    *)
(* first id and an item in no section raise.                               *)
InRecord(parsed, line, kinds) == line.kind \in kinds /\ parsed.records # << >>

ParseLine(parsed, line) ==
  LET last == Len(parsed.records)
  IN  IF parsed.raised THEN parsed
      ELSE CASE line.kind = "comment" -> parsed
             [] line.kind = "id" ->
                  [parsed EXCEPT !.records = Append(@, NewRecord(line.value)), !.section = NoField]
             [] InRecord(parsed, line, Scalars) ->
                  WithScalar(parsed, line)
             [] InRecord(parsed, line, {"section"}) ->
                  [parsed EXCEPT !.section = line.value]
             [] InRecord(parsed, line, {"item"}) /\ parsed.section # NoField ->
                  [parsed EXCEPT !.records[last][parsed.section] = Append(@, line.value)]
             [] OTHER -> [parsed EXCEPT !.raised = TRUE]

ParseCoverage(lines) == FoldLeft(ParseLine, Parsing, lines)

Selected(records, ids) ==
  ElementsAt(records, {i \in DOMAIN records : records[i].id \in ids})

-----------------------------------------------------------------------------
(* validate_records                                                        *)

Ids(records) == {records[i].id : i \in DOMAIN records}

(* Deviation: `seen` is never added to.                                    *)
Duplicates_Unseen(records) == {}

Duplicates(records) ==
  {records[i].id : i \in {j \in DOMAIN records : \E k \in 1 .. j - 1 : records[k].id = records[j].id}}

MissingPath(record) ==
  \/ record.design \notin ExistingPaths
  \/ \E i \in DOMAIN record.code : record.code[i] \notin ExistingPaths

(* The failures of one record, whatever comes before it.                   *)
RecordFailures(record, discovered, executed) ==
  LET class(name, fails) == IF fails THEN {<<name, record.id>>} ELSE {}
      tests == ToSet(record.tests)
  IN  class("unknown id", record.id \notin Catalogue)
      \cup class("lacks field", \E field \in Scalars : record[field] = NoField)
      \cup class("empty code", record.code = << >>)
      \cup class("missing path", MissingPath(record))
      \cup class("invalid status", record.status \notin AcceptedStatuses \cup {NoField})
      \cup class("no test", record.status \in AcceptedStatuses /\ record.tests = << >>)
      \cup class("missing test", tests \ discovered # {})
      \cup class("unreachable test", (tests \cap discovered) \ executed # {})

M1Seen(records) ==
  {records[i].id : i \in {j \in DOMAIN records : records[j].since = "m1"}}

ValidateRecords(records, discovered, executed) ==
  {<<"duplicate id", id>> : id \in Duplicates(records)}
  \cup (UNION {RecordFailures(records[i], discovered, executed) : i \in DOMAIN records})
  \cup {<<"lacks required", id>> : id \in M1Ids \ M1Seen(records)}
  \cup {<<"unselected", id>> : id \in M1Seen(records) \ M1Ids}

-----------------------------------------------------------------------------
(* The three validators: the map is read whole, at once.                   *)

M1Records(lines) == Selected(ParseCoverage(lines).records, M1Ids)

M1Coverage(lines, discovered, executed) ==
  /\ ~ParseCoverage(lines).raised
  /\ ValidateRecords(M1Records(lines), discovered, executed) = {}

(* The version under which a claim was made stays with it.                 *)
Provenance(id) == IF id \in M1Ids THEN "m1" ELSE IF id \in M2OnlyIds THEN "m2" ELSE "m3"

ProvenanceKept(records) ==
  \A i \in DOMAIN records : records[i].since = Provenance(records[i].id)

M2Coverage(lines, discovered, executed) ==
  LET records == Selected(ParseCoverage(lines).records, M2Ids)
  IN  /\ ~ParseCoverage(lines).raised
      /\ ValidateRecords(records, discovered, executed) = {}
      /\ Ids(records) = M2Ids
      /\ ProvenanceKept(records)

(* Deviation: the records are left to the gates of M1 and M2.              *)
M3Coverage_IdsOnly(lines, discovered, executed, m3Tests) ==
  LET records == ParseCoverage(lines).records
  IN  /\ ~ParseCoverage(lines).raised
      /\ Ids(records) = M3Ids
      /\ ProvenanceKept(records)

(* No selection here; the tests of two M3 files count as executed too.     *)
M3Coverage(lines, discovered, executed, m3Tests) ==
  LET records == ParseCoverage(lines).records
  IN  /\ ~ParseCoverage(lines).raised
      /\ ValidateRecords(records, discovered, executed \cup m3Tests) = {}
      /\ Ids(records) = M3Ids
      /\ ProvenanceKept(records)

-----------------------------------------------------------------------------
(* validate-version.py of the three: the since lines are counted in the    *)
(* text, where a quoted version is another word.                           *)

SinceLines(lines, version) ==
  Cardinality({i \in DOMAIN lines :
    lines[i].kind = "since" /\ lines[i].value = version /\ ~lines[i].quoted})

CountsKept(lines, versions) ==
  \A version \in versions :
    SinceLines(lines, version) =
      Cardinality(CASE version = "m1" -> M1Ids
                    [] version = "m2" -> M2OnlyIds
                    [] version = "m3" -> M3OnlyIds)

(* package and api are the versions that match in the two files.           *)
OneVersion(package, api, supported) ==
  Len(package) = 1 /\ Len(api) = 1 /\ package = api /\ package[1] \in supported

M1Version(lines, package, api) ==
  OneVersion(package, api, {"m1", "m2", "m3"}) /\ CountsKept(lines, {"m1"})

M2Version(lines, package, api) ==
  OneVersion(package, api, {"m2", "m3"}) /\ CountsKept(lines, {"m1", "m2"})

M3Version(lines, package, api) ==
  OneVersion(package, api, {"m3"}) /\ CountsKept(lines, {"m1", "m2", "m3"})

-----------------------------------------------------------------------------
(* run_self_tests: seven forgeries of an accepted map, each of which must  *)
(* fail with a message of its own.                                         *)

First(records, field, value) == [records EXCEPT ![1][field] = value]

SelfTestForgeries(records) ==
  { <<"unknown id", First(records, "id", Unknown)>>,
    <<"duplicate id", Append(records, records[1])>>,
    <<"missing path", First(records, "code", <<Unknown>>)>>,
    <<"missing test", First(records, "tests", <<Unknown>>)>>,
    <<"unreachable test", First(records, "tests", <<"fixture">>)>>,
    <<"invalid status", First(records, "status", Unknown)>>,
    <<"empty code", First(records, "code", << >>)>> }

(* expect_self_test_failure: some failure of that class.                   *)
FailureExpected(forgery, discovered, executed) ==
  \E failure \in ValidateRecords(forgery[2], discovered \cup {"fixture"}, executed) :
    failure[1] = forgery[1]

SelfTestsPass(lines, discovered, executed) ==
  /\ M1Coverage(lines, discovered, executed)
  /\ \A forgery \in SelfTestForgeries(M1Records(lines)) :
       FailureExpected(forgery, discovered, executed)
=============================================================================
