----------------------------- MODULE MCEvidence -----------------------------
(***************************************************************************)
(* Four files with two contents, a branch that changed the evolved file or *)
(* nothing since the source commit; M2: two batch sizes, three             *)
(* repetitions; one fuzz target; M3: two launches of one sample of two     *)
(* variants.                                                               *)
(***************************************************************************)
EXTENDS EvidenceTools

MCPath == {"code", "tool", "data", "seed"}

AllOnes == [path \in MCPath |-> 1]

MCAcceptedTrees ==
  {<<AllOnes, AllOnes>>, <<AllOnes, [AllOnes EXCEPT !["tool"] = 2]>>}

MCTurns == [tools \in {"m2", "fuzz", "m3"} |-> IF tools = "m2" THEN 3 ELSE 2]

MCBatchOrder == <<32>>

MCVariantOrder == <<"direct0", "direct4">>

MCFuzzTargets == <<"parser">>

MCSources == <<"code", "tool">>

MCFuzzSources == [target \in {"parser"} |-> <<"tool">>]

MCFuzzSeeds == [target \in {"parser"} |-> <<"seed">>]

MCFuzzDictionary == [target \in {"parser"} |-> "data"]

M2Line(batch, run, parser) ==
  [kind |-> "sample", batch |-> batch, run |-> run, parser |-> parser, noop |-> 5]

M2Complete ==
  << [kind |-> "settings", agreed |-> TRUE],
     M2Line(1, 1, 9), M2Line(1, 2, 7), M2Line(1, 3, 8),
     M2Line(4, 1, 3), M2Line(4, 2, 3), M2Line(4, 3, 1) >>

Without(raw, i) == SubSeq(raw, 1, i - 1) \o SubSeq(raw, i + 1, Len(raw))

MCM2Outputs ==
  { M2Complete,
    << >>,                                              \* failed to build
    [M2Complete EXCEPT ![1].agreed = FALSE],            \* other settings
    Without(M2Complete, 1),
    Without(M2Complete, 7),                             \* a line is lost
    Append(M2Complete, M2Line(4, 3, 1)),                \* or twice there
    [M2Complete EXCEPT ![2].run = 2, ![3].run = 1],     \* or out of order
    [M2Complete EXCEPT ![7].batch = 16],
    [M2Complete EXCEPT ![7].parser = 0] }

M3Sample(run, order, variant, elapsed) ==
  [kind |-> "sample", run |-> run, batch |-> 32, sample |-> 1, order |-> order,
   variant |-> variant, elapsed |-> elapsed, cycles |-> elapsed,
   perPacket |-> <<elapsed, elapsed>>]

M3Output(run) ==
  << [kind |-> "settings", run |-> run, samples |-> 1],
     M3Sample(run, 1, "direct0", 100), M3Sample(run, 2, "direct4", 102) >>

MCM3Launches ==
  << { M3Output(1),
       [M3Output(1) EXCEPT ![3].elapsed = 120, ![3].perPacket[1] = 120],   \* slow
       Without(M3Output(1), 3),
       [M3Output(1) EXCEPT ![3].variant = "direct0"],
       [M3Output(1) EXCEPT ![3].perPacket[1] = 101] },
     { [M3Output(2) EXCEPT ![2].order = 2, ![3].order = 1],
       << >>,
       [M3Output(2) EXCEPT ![1].samples = 2],
       Append(M3Output(2), M3Output(2)[3]),
       [M3Output(2) EXCEPT ![3].run = 1],
       [M3Output(2) EXCEPT ![3].order = 1],
       [M3Output(2) EXCEPT ![3].sample = 2] } >>
=============================================================================
