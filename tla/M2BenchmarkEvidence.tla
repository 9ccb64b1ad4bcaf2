------------------------ MODULE M2BenchmarkEvidence ------------------------
(***************************************************************************)
(* tools/m2/benchmark-evidence.py: `--summary` captures a new artifact at  *)
(* HEAD, no option validates the retained one.  One step for every look at *)
(* the repository; the commits themselves never change, so what is only    *)
(* read from them needs no step of its own.                                *)
(***************************************************************************)
EXTENDS Repository, RawSamples

CONSTANTS
  M2Sources,            \* SOURCE_PATHS
  M2Environment,        \* ENVIRONMENT
  M2EvolvedPaths,       \* EXPECTED_EVOLVED_PATHS
  M2Outputs             \* what the benchmark can print

ASSUME M2EvidenceAssumption ==
  /\ M2Sources \in Seq(Path)
  /\ M2Environment \in Path
  /\ \A output \in M2Outputs : output \in Seq(ToSet(output))

VARIABLES
  m2,                   \* the running program
  m2Artifact            \* benchmark.m2.json, or a function of no field

m2Vars == <<m2, m2Artifact>>

NoDocument == << >>

M2Resting == {"idle", "validated"}

(* records are a path and the digest of its file each; measured is history: *)
(* what the benchmark was built from.                                      *)
M2Idle == [at |-> "idle", commit |-> 0, tree |-> << >>, raw |-> << >>, measured |-> {},
           environment |-> Absent, records |-> << >>, position |-> 0,
           artifact |-> NoDocument]

M2Init == m2 = M2Idle /\ m2Artifact = NoDocument

(* A failed check is a SystemExit: the program ends and nothing is kept.   *)
M2Continue(check, next) ==
  m2' = IF check THEN next ELSE M2Idle

M2To(at) == [m2 EXCEPT !.at = at]

-----------------------------------------------------------------------------
(* capture                                                                 *)

M2CaptureBegin ==
  /\ m2.at \in M2Resting
  /\ M2Continue(StatusEmpty, [M2Idle EXCEPT !.at = "read commit"])
  /\ UNCHANGED m2Artifact

M2ReadCommit ==
  /\ m2.at = "read commit"
  /\ m2' = [M2To("read tree") EXCEPT !.commit = head]
  /\ UNCHANGED m2Artifact

M2ReadTree ==
  /\ m2.at = "read tree"
  /\ m2' = [M2To("bench") EXCEPT !.tree = TreeOf(head)]
  /\ UNCHANGED m2Artifact

M2Bench ==
  /\ m2.at = "bench"
  /\ \E raw \in M2Outputs :
       M2Continue(M2ParseRaw(raw),
                  [M2To("recheck status") EXCEPT !.raw = raw, !.measured = {work}])
  /\ UNCHANGED m2Artifact

M2RecheckStatus ==
  /\ m2.at = "recheck status"
  /\ M2Continue(StatusEmpty, M2To("recheck commit"))
  /\ UNCHANGED m2Artifact

M2RecheckCommit ==
  /\ m2.at = "recheck commit"
  /\ M2Continue(head = m2.commit, M2To("recheck tree"))
  /\ UNCHANGED m2Artifact

(* The last look.  Work that was taken back by now is nobody's to find.    *)
M2RecheckTree ==
  /\ m2.at = "recheck tree"
  /\ M2Continue(TreeOf(head) = m2.tree,
                [M2To("hash environment") EXCEPT !.measured = IF undone THEN {} ELSE @])
  /\ UNCHANGED m2Artifact

M2HashEnvironment ==
  /\ m2.at = "hash environment"
  /\ M2Continue(work[M2Environment] # Absent,
                [M2To("hash sources") EXCEPT !.environment = work[M2Environment]])
  /\ UNCHANGED m2Artifact

M2HashSource ==
  /\ m2.at = "hash sources"
  /\ Len(m2.records) < Len(M2Sources)
  /\ LET path == M2Sources[Len(m2.records) + 1]
     IN  M2Continue(work[path] # Absent,
                    [m2 EXCEPT !.records = Append(@, <<path, work[path]>>)])
  /\ UNCHANGED m2Artifact

M2WriteArtifact ==
  /\ m2.at = "hash sources"
  /\ Len(m2.records) = Len(M2Sources)
  /\ m2Artifact' = [commit |-> m2.commit, tree |-> m2.tree,
                    environment |-> m2.environment, records |-> m2.records,
                    raw |-> m2.raw, medians |-> M2Medians(m2.raw),
                    measured |-> m2.measured]
  /\ m2' = M2Idle

M2Capture ==
  \/ /\ \/ M2CaptureBegin \/ M2ReadCommit \/ M2ReadTree \/ M2Bench
        \/ M2RecheckStatus \/ M2RecheckCommit \/ M2RecheckTree
        \/ M2HashEnvironment \/ M2HashSource
     /\ UNCHANGED repository
  \/ /\ M2WriteArtifact
     /\ \E insideTree \in BOOLEAN : OutputWritten(insideTree)

-----------------------------------------------------------------------------
(* validate                                                                *)

(* validate_squash_bridge, as far as it is about the artifact: its tree is *)
(* that of its commit, which belongs to the accepted history.              *)
M2SourceAccepted(commit, tree) ==
  /\ TreeOf(commit) = tree
  /\ Ancestor(commit, FinalGate)

AcceptedSquashInHead == Ancestor(Squash, head)

M2ValidateBegin ==
  /\ m2.at \in M2Resting
  /\ m2Artifact # NoDocument
  /\ m2' = [M2Idle EXCEPT !.at = "bridge", !.artifact = m2Artifact]
  /\ UNCHANGED m2Artifact

M2ValidateBridge ==
  /\ m2.at = "bridge"
  /\ M2Continue(M2SourceAccepted(m2.artifact.commit, m2.artifact.tree) /\ AcceptedSquashInHead,
                M2To("environment"))
  /\ UNCHANGED m2Artifact

(* The environment is compared with the work tree, with no commit.         *)
M2ValidateEnvironment ==
  /\ m2.at = "environment"
  /\ M2Continue(/\ m2.artifact.environment = work[M2Environment]
                /\ m2.artifact.records # << >>,
                M2To("records"))
  /\ UNCHANGED m2Artifact

(* Deviation: only the work tree and the squash are asked.                 *)
M2RecordValid_NotAtSource(record, commit) ==
  /\ record[1] \notin M2EvolvedPaths => work[record[1]] = record[2]
  /\ Blob(Squash, record[1]) = record[2]

(* One turn of validate_hash_records.                                      *)
M2RecordValid(record, commit) ==
  /\ record[1] \notin M2EvolvedPaths => work[record[1]] = record[2]
  /\ Blob(commit, record[1]) = record[2]
  /\ Blob(Squash, record[1]) = record[2]

(* Whatever list the artifact has; M2Sources is not asked.                 *)
M2ValidateRecord ==
  /\ m2.at = "records"
  /\ m2.position < Len(m2.artifact.records)
  /\ M2Continue(M2RecordValid(m2.artifact.records[m2.position + 1], m2.artifact.commit),
                [m2 EXCEPT !.position = @ + 1])
  /\ UNCHANGED m2Artifact

M2ValidateSamples ==
  /\ m2.at = "records"
  /\ m2.position = Len(m2.artifact.records)
  /\ M2Continue(/\ M2ParseRaw(m2.artifact.raw)
                /\ m2.artifact.medians = M2Medians(m2.artifact.raw),
                M2To("validated"))
  /\ UNCHANGED m2Artifact

M2Validate ==
  /\ \/ M2ValidateBegin \/ M2ValidateBridge \/ M2ValidateEnvironment
     \/ M2ValidateRecord \/ M2ValidateSamples
  /\ UNCHANGED repository

(* The retained artifact is a file, and files get edited: another commit,  *)
(* another hash, a lost record or line, or a sample of another value.      *)
M2Edited(artifact) ==
  {[artifact EXCEPT !.commit = commit, !.tree = TreeOf(commit)] : commit \in Commit}
    \cup {[artifact EXCEPT !.records = SubSeq(@, 1, Len(@) - 1)],
          [artifact EXCEPT !.raw = SubSeq(@, 1, Len(@) - 1)],
          [artifact EXCEPT !.raw[Len(artifact.raw)].parser = @ + 9]}
    \cup UNION {{[artifact EXCEPT !.records[i][2] = hash] : hash \in Content} :
                 i \in DOMAIN artifact.records}

(* Nothing was measured for what is edited.                                *)
M2Forge ==
  /\ m2Artifact # NoDocument
  /\ \E edited \in M2Edited(m2Artifact) : m2Artifact' = [edited EXCEPT !.measured = {}]
  /\ DeveloperTurn
  /\ UNCHANGED <<history, head, work, untracked, undone, m2>>
=============================================================================
