---------------------------- MODULE EvidenceTools ----------------------------
(***************************************************************************)
(* The evidence tools in one repository, with the developer between any    *)
(* two of their steps.  The three families of tools share nothing but the  *)
(* repository, so a behaviour follows one of them.                         *)
(***************************************************************************)
EXTENDS M2BenchmarkEvidence, FuzzEvidence, M3BenchmarkEvidence

CONSTANT Turns          \* bound: steps of the developer, per family

VARIABLE family

vars == <<repository, m2Vars, fuzzVars, m3Vars, family>>

Init ==
  /\ RepositoryInit
  /\ M2Init
  /\ FuzzInit
  /\ M3Init
  /\ family \in {"m2", "fuzz", "m3"}
  /\ turns = Turns[family]

Next ==
  /\ UNCHANGED family
  /\ \/ Develop /\ UNCHANGED <<m2Vars, fuzzVars, m3Vars>>
     \/ /\ family = "m2"
        /\ M2Capture \/ M2Validate \/ M2Forge
        /\ UNCHANGED <<fuzzVars, m3Vars>>
     \/ /\ family = "fuzz"
        /\ FuzzWrite \/ FuzzValidate
        /\ UNCHANGED <<m2Vars, m3Vars>>
     \/ /\ family = "m3"
        /\ M3Gate \/ M3Validate \/ M3SelfTest \/ M3Forge
        /\ UNCHANGED <<m2Vars, fuzzVars>>

Spec == Init /\ [][Next]_vars

-----------------------------------------------------------------------------

(* What was built and measured, the hashes of it and the commit are read   *)
(* at different times, and files change in between.  Evidence that its     *)
(* validator accepts is evidence of its own hashes all the same: whatever  *)
(* a measurement was built from had the bytes they record.  Work taken     *)
(* back while it was measured is left out, and in fuzzing a commit between *)
(* the reading of HEAD and that of the status, which no tool can notice;   *)
(* so is the environment file, which is no input of a measurement.         *)
AcceptedEvidenceWasMeasured ==
  /\ m2.at = "validated" =>
       \A bytes \in m2.artifact.measured, i \in DOMAIN m2.artifact.records :
         bytes[m2.artifact.records[i][1]] = m2.artifact.records[i][2]
  /\ fuzz.at = "validated" =>
       \A bytes \in fuzz.summary.measured, i \in DOMAIN FuzzRecords(fuzz.summary) :
         bytes[FuzzRecords(fuzz.summary)[i][1]] = FuzzRecords(fuzz.summary)[i][2]
  /\ m3.at = "validated" =>
       \A bytes \in m3.evidence.measured : HashesMatch(m3.evidence, bytes)

(* The gate measures the work tree, generates from HEAD and holds no lock  *)
(* on either.  Unless the developer takes work back in the meantime, what  *)
(* every launch was built from is what the commit of the evidence holds,   *)
(* and that commit is the one the gate began with.                         *)
GateMeasuresItsCommit ==
  m3.at = "passed" /\ ~undone =>
    /\ m3.evidence.commit = m3.commit
    /\ m3.measured = {Bytes(TreeOf(m3.commit))}

(* One line for every launch, batch, sample and variant, the variants of a *)
(* sample in some order.                                                   *)
CompleteDesign(raw) ==
  LET cell(line) == <<line.run, line.batch, line.sample, line.variant>>
      cells == Runs \X Batches \X (1 .. SamplesPerRun) \X Variants
  IN  /\ Cardinality(Samples(raw)) = Cardinality(cells)
      /\ {cell(raw[i]) : i \in Samples(raw)} = cells
      /\ \A i, j \in Samples(raw) :
           /\ raw[i].order \in 1 .. Cardinality(Variants)
           /\ SubSeq(cell(raw[i]), 1, 3) = SubSeq(cell(raw[j]), 1, 3) /\ i # j =>
                raw[i].order # raw[j].order

(* Lines of the launches get lost, repeated or mixed up; medians and the   *)
(* threshold are only ever those of a complete set of measurements.        *)
AcceptedSamplesAreComplete ==
  /\ m3.at \in {"passed", "validated"} =>
       /\ CompleteDesign(m3.evidence.raw)
       /\ PerfCorePass(m3.evidence.raw)
       /\ m3.evidence.summaries = M3Summarize(m3.evidence.raw)
  /\ m2.at = "validated" =>
       /\ \A batch \in BatchSizes :
            Len(M2Batch(m2.artifact.raw, batch)) = Repetitions
       /\ m2.artifact.medians = M2Medians(m2.artifact.raw)

(* The self test accuses the validator of having accepted a forgery only   *)
(* where forging the commit changes nothing, at the retained source commit *)
(* itself, wherever the developer moves HEAD or the work tree meanwhile,   *)
(* within a validation too.                                                *)
NegativeControlsReject ==
  m3.at = "test failed" =>
    ~m3.retain /\ m3.commit = RetainedSource /\ M3Forgeries[m3.forgery] = "commit"
=============================================================================
