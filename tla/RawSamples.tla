----------------------------- MODULE RawSamples -----------------------------
(***************************************************************************)
(* What the benchmark programs print and how the evidence tools read it.   *)
(* A raw output is a sequence of lines: settings lines and sample lines,   *)
(* the lines of neither form being skipped by both parsers.  A reported    *)
(* metric is kept as the counter it was computed from.                     *)
(***************************************************************************)
EXTENDS Selection, FiniteSets, SequencesExt

CONSTANTS
  BatchSizes,           \* M2: BATCH_SIZES
  Repetitions,          \* M2: REPETITIONS
  BatchOrder,           \* M3: BATCHES
  VariantOrder,         \* M3: VARIANTS
  IndependentRuns,      \* M3: INDEPENDENT_RUNS
  SamplesPerRun,        \* M3: SAMPLES_PER_RUN
  PacketsPerSecond      \* rate of one packet per unit of elapsed time

ASSUME RawSamplesAssumption ==
  /\ Repetitions \in Nat \ {0}
  /\ IndependentRuns \in Nat \ {0}
  /\ SamplesPerRun \in Nat \ {0}

Batches == ToSet(BatchOrder)

Variants == ToSet(VariantOrder)

ASSUME VariantsAssumption == {"direct0", "direct4"} \subseteq Variants

(* Where the lines of a form are.                                          *)
Places(raw, kind) == {i \in DOMAIN raw : raw[i].kind = kind}

Settings(raw) == ElementsAt(raw, Places(raw, "settings"))

Samples(raw) == Places(raw, "sample")

Ordered(numbers) == SortSeq(numbers, <)

(* Twice the median, so that the mean of the middle two stays a number.    *)
TwiceMedian(numbers) ==
  LET sorted == Ordered(numbers)
      n == Len(sorted)
  IN  sorted[(n + 1) \div 2] + sorted[(n \div 2) + 1]

FieldOf(lines, Value(_)) == [i \in DOMAIN lines |-> Value(lines[i])]

UpTo(n) == [i \in 1 .. n |-> i]

(* The numbers, sorted, are those from 1 to n.                             *)
SortedUpTo(numbers, n) == Len(numbers) = n /\ ToSet(numbers) = 1 .. n

-----------------------------------------------------------------------------
(* M2: one settings line; per batch the repetitions, in order.             *)

M2Batch(raw, batch) == ElementsAt(raw, {i \in Samples(raw) : raw[i].batch = batch})

M2ParseRaw(raw) ==
  /\ Len(Settings(raw)) = 1
  /\ Settings(raw)[1].agreed
  /\ \A i \in Samples(raw) :
       raw[i].batch \in BatchSizes /\ raw[i].parser > 0 /\ raw[i].noop > 0
  /\ \A batch \in BatchSizes :
       FieldOf(M2Batch(raw, batch), LAMBDA line : line.run) = UpTo(Repetitions)

M2Medians(raw) ==
  [batch \in BatchSizes |->
     << TwiceMedian(FieldOf(M2Batch(raw, batch), LAMBDA line : line.parser)),
        TwiceMedian(FieldOf(M2Batch(raw, batch), LAMBDA line : line.noop)) >>]

-----------------------------------------------------------------------------
(* M3: a factorial design of launches, batches, samples and variants, the  *)
(* order of the variants being a permutation in every sample.              *)

M3Settings(raw) ==
  FieldOf(Settings(raw), LAMBDA line : <<line.run, line.samples>>)

M3Group(raw, run, batch, variant) ==
  ElementsAt(raw, {i \in Samples(raw) :
    <<raw[i].run, raw[i].batch, raw[i].variant>> = <<run, batch, variant>>})

M3Order(raw, run, batch, sample) ==
  ElementsAt(raw, {i \in Samples(raw) :
    <<raw[i].run, raw[i].batch, raw[i].sample>> = <<run, batch, sample>>})

Keys(raw, Key(_)) == {Key(raw[i]) : i \in Samples(raw)}

Runs == 1 .. IndependentRuns

MetricsConsistent(line) ==
  /\ line.elapsed > 0 /\ line.cycles > 0
  /\ line.perPacket = <<line.elapsed, line.cycles>>

(* Deviation: a variant may be given a place that is taken.                *)
M3CompleteOrder_AnyPlace(lines) ==
  /\ Len(lines) = Cardinality(Variants)
  /\ {lines[i].variant : i \in DOMAIN lines} = Variants

M3CompleteOrder(lines) ==
  /\ SortedUpTo(FieldOf(lines, LAMBDA line : line.order), Cardinality(Variants))
  /\ {lines[i].variant : i \in DOMAIN lines} = Variants

M3ParseRaw(raw) ==
  /\ M3Settings(raw) = [run \in Runs |-> <<run, SamplesPerRun>>]
  /\ \A i \in Samples(raw) : MetricsConsistent(raw[i])
  /\ Keys(raw, LAMBDA line : <<line.run, line.batch, line.variant>>)
       = Runs \X Batches \X Variants
  /\ Keys(raw, LAMBDA line : <<line.run, line.batch, line.sample>>)
       = Runs \X Batches \X (1 .. SamplesPerRun)
  /\ \A run \in Runs, batch \in Batches :
       /\ \A sample \in 1 .. SamplesPerRun :
            M3CompleteOrder(M3Order(raw, run, batch, sample))
       /\ \A variant \in Variants :
            SortedUpTo(FieldOf(M3Group(raw, run, batch, variant), LAMBDA line : line.sample),
                       SamplesPerRun)

PacketRate(line) == (line.batch * PacketsPerSecond) \div line.perPacket[1]

M3VariantSummary(lines) ==
  << TwiceMedian(FieldOf(lines, PacketRate)),
     TwiceMedian(FieldOf(lines, LAMBDA line : line.perPacket[2])) >>

(* Per launch, and under launch 0 all launches together.                   *)
M3Summarize(raw) ==
  [run \in Runs \cup {0}, batch \in Batches, variant \in Variants |->
     M3VariantSummary(
       ElementsAt(raw, {i \in Samples(raw) :
         /\ run \in {0, raw[i].run}
         /\ raw[i].batch = batch
         /\ raw[i].variant = variant}))]

(* The rates of direct4 and of direct0, of which the ratio is made.        *)
M3Ratios(raw) ==
  [batch \in Batches |->
     << M3Summarize(raw)[0, batch, "direct4"][1], M3Summarize(raw)[0, batch, "direct0"][1] >>]

(* PERF-CORE-001: the median rate of direct4 is at least 0.95 of direct0's.*)
PerfCorePass(raw) ==
  \A batch \in Batches : 100 * M3Ratios(raw)[batch][1] >= 95 * M3Ratios(raw)[batch][2]

(* synthetic_raw: a variant takes a little longer than the one before it.  *)
SyntheticLine(run, batch, sample, order) ==
  LET counters == <<batch * (99 + order), batch * (199 + order)>>
  IN  [kind |-> "sample", run |-> run, batch |-> batch, sample |-> sample,
       order |-> order, variant |-> VariantOrder[order],
       elapsed |-> counters[1], cycles |-> counters[2], perPacket |-> counters]

SyntheticRaw ==
  FlattenSeq([run \in Runs |->
    <<[kind |-> "settings", run |-> run, samples |-> SamplesPerRun]>> \o
    FlattenSeq([b \in DOMAIN BatchOrder |->
      FlattenSeq([sample \in 1 .. SamplesPerRun |->
        [order \in DOMAIN VariantOrder |->
           SyntheticLine(run, BatchOrder[b], sample, order)]])])])
=============================================================================
