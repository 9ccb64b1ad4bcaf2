---------------------------- MODULE FuzzEvidence ----------------------------
(***************************************************************************)
(* tools/m2/fuzz-smoke.sh, which builds and fuzzes a target,               *)
(* tools/m2/write-fuzz-summary.py, which it calls once a campaign has      *)
(* passed, and tools/m2/validate-fuzz-evidence.py.  Seeds are hashed       *)
(* before HEAD is read, sources and dictionary after it.                   *)
(***************************************************************************)
EXTENDS Repository, SequencesExt

CONSTANTS
  FuzzTargets,          \* SUMMARIES, in order
  FuzzSources,          \* per --target, source_paths
  FuzzSeeds,            \* per target, the files of its corpus, sorted
  FuzzDictionary        \* per target

ASSUME FuzzEvidenceAssumption ==
  /\ FuzzTargets \in Seq(DOMAIN FuzzSources)
  /\ FuzzSources \in [DOMAIN FuzzSources -> Seq(Path)]
  /\ FuzzSeeds \in [DOMAIN FuzzSources -> Seq(Path)]
  /\ FuzzDictionary \in [DOMAIN FuzzSources -> Path]

VARIABLES
  fuzz,                 \* the running program
  fuzzSummary           \* per target, the retained summary

fuzzVars == <<fuzz, fuzzSummary>>

FuzzTarget == {FuzzTargets[i] : i \in DOMAIN FuzzTargets}

NoSummary == << >>

FuzzResting == {"idle", "validated"}

(* While validating, `target` counts through FuzzTargets and `position`    *)
(* through the records of the summary at hand.                             *)
FuzzIdle == [at |-> "idle", target |-> 0, position |-> 0, summary |-> NoSummary]

FuzzInit == fuzz = FuzzIdle /\ fuzzSummary = [target \in FuzzTarget |-> NoSummary]

FuzzContinue(check, next) ==
  fuzz' = IF check THEN next ELSE FuzzIdle

FuzzTo(at) == [fuzz EXCEPT !.at = at]

Present(paths) ==
  FoldLeft(LAMBDA found, path : IF work[path] = Absent THEN found ELSE Append(found, path),
           << >>, paths)

(* A record per path: the path and the digest of its file.                 *)
Recorded(paths) == [i \in DOMAIN paths |-> <<paths[i], work[paths[i]]>>]

-----------------------------------------------------------------------------
(* fuzz-smoke.sh.  measured is a history field of the summary: what was    *)
(* built and what was fuzzed with.                                         *)

FuzzBuild(target) ==
  /\ fuzz.at \in FuzzResting
  /\ FuzzContinue(Present(FuzzSources[target]) = FuzzSources[target],
       [FuzzIdle EXCEPT !.at = "campaign",
          !.summary = [target |-> target, commit |-> 0, tree |-> << >>, dirty |-> FALSE,
                       seeds |-> << >>, sources |-> << >>, dictionary |-> << >>,
                       measured |-> {work}]])
  /\ UNCHANGED fuzzSummary

(* A crash, a hang or a replay that differs ends it.                       *)
FuzzCampaign ==
  /\ fuzz.at = "campaign"
  /\ \E passed \in BOOLEAN :
       FuzzContinue(passed, [FuzzTo("hash seeds") EXCEPT !.summary.measured = @ \cup {work}])
  /\ UNCHANGED fuzzSummary

-----------------------------------------------------------------------------
(* write-fuzz-summary.py                                                   *)

FuzzHashSeeds ==
  /\ fuzz.at = "hash seeds"
  /\ LET seeds == Present(FuzzSeeds[fuzz.summary.target])
     IN  FuzzContinue(seeds # << >>,
                      [FuzzTo("read commit") EXCEPT !.summary.seeds = Recorded(seeds)])
  /\ UNCHANGED fuzzSummary

FuzzReadCommit ==
  /\ fuzz.at = "read commit"
  /\ fuzz' = [FuzzTo("read tree") EXCEPT !.summary.commit = head]
  /\ UNCHANGED fuzzSummary

FuzzReadTree ==
  /\ fuzz.at = "read tree"
  /\ fuzz' = [FuzzTo("read dirty") EXCEPT !.summary.tree = TreeOf(head)]
  /\ UNCHANGED fuzzSummary

(* HEAD is not read again: a commit that was made in between, like work    *)
(* that was taken back, is nobody's to find.                               *)
FuzzReadDirty ==
  /\ fuzz.at = "read dirty"
  /\ fuzz' = [FuzzTo("hash sources") EXCEPT
                !.summary.dirty = ~StatusEmpty,
                !.summary.measured = IF undone \/ head # fuzz.summary.commit THEN {} ELSE @]
  /\ UNCHANGED fuzzSummary

FuzzHashSources ==
  /\ fuzz.at = "hash sources"
  /\ LET paths == FuzzSources[fuzz.summary.target]
     IN  FuzzContinue(Present(paths) = paths,
                      [FuzzTo("hash dictionary") EXCEPT !.summary.sources = Recorded(paths)])
  /\ UNCHANGED fuzzSummary

FuzzHashDictionary ==
  /\ fuzz.at = "hash dictionary"
  /\ LET paths == <<FuzzDictionary[fuzz.summary.target]>>
     IN  FuzzContinue(Present(paths) = paths,
                      [FuzzTo("write") EXCEPT !.summary.dictionary = Recorded(paths)])
  /\ UNCHANGED fuzzSummary

(* --output is any path: that of the target's summary, or of another one.  *)
FuzzWriteSummary(output) ==
  /\ fuzz.at = "write"
  /\ fuzzSummary' = [fuzzSummary EXCEPT ![output] = fuzz.summary]
  /\ fuzz' = FuzzIdle

FuzzWrite ==
  \/ /\ \/ \E target \in DOMAIN FuzzSources : FuzzBuild(target)
        \/ FuzzCampaign \/ FuzzHashSeeds \/ FuzzReadCommit \/ FuzzReadTree \/ FuzzReadDirty
        \/ FuzzHashSources \/ FuzzHashDictionary
     /\ UNCHANGED repository
  \/ /\ \E output \in FuzzTarget : FuzzWriteSummary(output)
     /\ \E insideTree \in BOOLEAN : OutputWritten(insideTree)

-----------------------------------------------------------------------------
(* validate-fuzz-evidence.py: both summaries, one after the other.         *)

FuzzValidateBegin ==
  /\ fuzz.at \in FuzzResting
  /\ \A target \in FuzzTarget : fuzzSummary[target] # NoSummary
  /\ fuzz' = [FuzzIdle EXCEPT !.at = "next target"]
  /\ UNCHANGED fuzzSummary

(* The file is read, and its target, dirty flag and source commit checked  *)
(* against the accepted history (validate_squash_bridge).                  *)
FuzzValidateBridge ==
  /\ fuzz.at = "next target"
  /\ fuzz.target < Len(FuzzTargets)
  /\ LET target == FuzzTargets[fuzz.target + 1]
         summary == fuzzSummary[target]
     IN  FuzzContinue(/\ summary.target = target
                      /\ ~summary.dirty
                      /\ TreeOf(summary.commit) = summary.tree
                      /\ Ancestor(summary.commit, FinalGate)
                      /\ Ancestor(Squash, head),
                      [at |-> "records", target |-> fuzz.target + 1, position |-> 0,
                       summary |-> summary])
  /\ UNCHANGED fuzzSummary

FuzzRecords(summary) == summary.sources \o summary.seeds \o summary.dictionary

(* One turn of validate_hash_records: work tree, commit and squash agree.  *)
FuzzRecordValid(record, commit) ==
  /\ work[record[1]] = record[2]
  /\ Blob(commit, record[1]) = record[2]
  /\ Blob(Squash, record[1]) = record[2]

FuzzValidateRecord ==
  /\ fuzz.at = "records"
  /\ fuzz.position < Len(FuzzRecords(fuzz.summary))
  /\ FuzzContinue(FuzzRecordValid(FuzzRecords(fuzz.summary)[fuzz.position + 1],
                                  fuzz.summary.commit),
                  [fuzz EXCEPT !.position = @ + 1])
  /\ UNCHANGED fuzzSummary

FuzzTargetValid ==
  /\ fuzz.at = "records"
  /\ fuzz.position = Len(FuzzRecords(fuzz.summary))
  /\ fuzz' = FuzzTo(IF fuzz.target = Len(FuzzTargets) THEN "validated" ELSE "next target")
  /\ UNCHANGED fuzzSummary

FuzzValidate ==
  /\ \/ FuzzValidateBegin \/ FuzzValidateBridge
     \/ FuzzValidateRecord \/ FuzzTargetValid
  /\ UNCHANGED repository
=============================================================================
