# A verification of Saint Shield

Saint Shield is a Zig library for building packet pipelines. A caller receives
packets from an input adapter into a batch, runs a statically generated pipeline
of processors over it, and hands every packet to an output, a retention pool or
back to the input. Its promises are about *ownership* (every packet is finished
exactly once), *authority* (a handle reaches what it was issued for or nothing)
and *failure* (an error anywhere leaves nothing half done). Around the library stand
Python tools that decide whether the project may claim what it claims: benchmark and
fuzz *evidence* bound to commits, the *coverage* of requirements by tests that run,
and the declarations that must not *compile*. This directory models the code that
keeps those promises and the tools that judge it, checks both with TLC on small
instances and proves what matters most with TLAPS.

All paths below are relative to the repository; `packet` is
`src/packet/root.zig`, `pipeline` is `src/pipeline/root.zig`, `processor` is
`src/processor/root.zig`, `invocation` is `src/internal/processor_invocation.zig`,
`synthetic` is `src/io/synthetic/root.zig`, `testing` is `src/testing/root.zig`;
`m1`, `m2` and `m3` are the directories of `tools`.

## The system

| Part | State | Operations | What makes it correct |
|---|---|---|---|
| token tracker (`packet` 20-240) | state of every adapter token, two counters | register, receive, submit, return, retain, complete, verify | every token follows one lifecycle and ends once; the counters agree with the states |
| batch owner (`packet` 640-1350) | generations, slots, slot access, escape flags, raw-editor authorities, journals | begin, invalidate, views, editors, output handles, raw editors | a handle resolves in its own batch, to its own slot, or not at all |
| parser and views (`packet` 900-1640) | a parse cache per slot | parse, read, iterate segments | a parse tells of the bytes as they are, cached or not |
| mutation and finalizer (`packet` 1640-2620) | a journal per slot; packet bytes and lengths | field edits, resizes, raw writes, finalize | the declared lengths of a packet that may leave describe its bytes; a failed finalize changes nothing |
| retention pool (`packet` 2700-2970) | records with generations | acquire, read, complete, verify | a lease holds one token, settles it once, and seals the slot it came from |
| disposition writer (`packet` 2970-3250) | one recorder per batch | init, set, setSelection, retain | a terminal disposition stands; writer, batch and pool agree |
| disposition routing (`packet` 3250-3470) | none | validate, resolve | the groups of a result hold every packet once, in receive order |
| identity counters (`packet`, `pipeline`, `invocation`) | process-wide atomics | allocate | no identity is handed out twice |
| processor invocation (`invocation`) | a thread-local record, a cookie counter | begin, authenticate, end | a context works in the callback it was made for and nowhere else |
| processor context (`processor`) | worker metadata, the invocation | dispositions, edits, metadata, reads | a callback stays within its declared rights |
| pipeline (`pipeline`) | prepared pipeline, worker slots, one call's locals | prepare, instantiate, processBatch, deinitWorker, deinit | routing cannot fail once callbacks ran; a failed call revokes its batch; partial construction is undone |
| synthetic queues (`synthetic`) | queued descriptors, observations | enqueue, receive, submitBatch, complete | a refusal leaves the packet with the worker |
| testing harness (`testing`) | none between submissions | submit, reconcile | every token is final however the submission ends |
| declarations (`pipeline` 100-383, `processor` 460-480, 724) | none: evaluated at compile time | the checks of `Pipeline(...)`, the key layout | what is accepted does not fail at run time for a reason that was declared |
| compile-fail contract (`m3/compile-fail.py`) | the cases done | compile, compare the diagnostic | a library that lost a check does not pass |
| benchmark and fuzz evidence (`m2/benchmark-evidence.py`, `m2/write-fuzz-summary.py`, `m2/validate-fuzz-evidence.py`, `m3/benchmark-gate.py`, `m3/benchmark-evidence.py`) | locals, one JSON file each; they read git and the work tree | capture, gate, generate, validate, self-test | evidence that is accepted is of the commit it names and of a complete set of measurements |
| coverage and version gates (`m1`, `m2`, `m3`: `validate-coverage.py`, `validate-version.py`) | locals; they read the map and the sources | walk the imports, parse, validate, self-test | a claim rests on tests that run; a later gate keeps the earlier claims |
| pcap, DPDK shim, foundation, scaffolds, other tools | see "Not modelled" | | |

The parts meet in four ways. **Calls**: the harness drives queue, owner, pipeline
and output; the pipeline calls processors; processors call back through their
context. **Shared state**: owner, writer, pool and tracker change one slot and one
token together, in a fixed order within one call. **Handles**: every object is
named by a scalar a caller may keep for ever; identities and generations decide
whether it still means anything. **The repository**: the tools share nothing but the
work tree and the history, which a developer goes on changing while they run.

The hard behaviours are: handles used late, in any order, across reuse of slots,
records and memory; several threads inside the identity loops; pipeline calls from
inside callbacks; errors at every point of a submission, with cleanups running
innermost first; counters and generations at their last value; metadata of one call
in the store of the next; tools that look at HEAD, the status and the files at
different moments. `PROJECT.json` lists
each hazard at its line with the properties that watch it.

## The modules

Composition, bottom up:

    TokenTracker --> BatchOwner --> RetentionPool --> DispositionWriter
                                                       |        |
                              TokenLifecycle <~~ PacketOwnership |
                                                      ^          |
                        DispositionRouting --> StaticPipeline <--+
                                                      |
                                  PacketOwnership <~~ HarnessSubmission

    IdentityAllocator --> OwnerLifetimes
                      --> ProcessorInvocation

    JournalOutcome --> BatchOwner
                   --> PacketMutation

    PipelineLifecycle

    ProcessorDeclarations --> CompileFail  --> Declarations
                          --> MetadataFlow -->

    Repository, RawSamples --> M2BenchmarkEvidence --> EvidenceTools
                           --> M3BenchmarkEvidence -->
    Repository             --> FuzzEvidence        -->

    ImportWalk, CoverageMap --> CoverageGates

(`-->` is EXTENDS, `<~~` is the direction of a refinement.)

* **TokenTracker**: `TokenTracker` and `AdapterToken`. One operator `Transfer`
  carries every transition, because `apply` does in the code; a burst changes all
  its tokens or none. `SubmitAndComplete` is two transitions made in one call of the
  output queue with no other code between them.
* **TokenLifecycle**: the abstract promise. A token is the input's, the worker's,
  an output's or a lease's, and then done; `clean` is the verdict of shutdown
  verification, which must be given exactly when nobody holds a token.
* **BatchOwner**: one `PacketBatchOwner`. Handles are represented by what they
  carry (generation and slot), and every operation takes a handle that may be old.
  A journal is reduced here to what `validateForOutput` reads of it. Raw-editor
  tokens come from a keyed hash, so any nonzero value may come out that no live editor
  has, one that an earlier editor had included; zero and values that could be taken for a
  view's handle are refused.
* **RetentionPool**: records, lease generations, `acquire`, `complete`, the
  shutdown verification.
* **DispositionWriter**: the recorder of a batch, `setSelection` and the order of
  checks of `retain`, whose changes to writer, slot, record and token are one step.
* **PacketOwnership**: all of these with the input and output queues. The callers
  are arbitrary: any call, in any order, with any handle they were ever given. A call that fails without changing anything is not a step; a call that fails *after*
  changing something is one (`SubmitFails`, `MintRawFails`). Every handle ever issued is
  in a history, raw editors with the packet they were minted for (`rawHandles`).
* **IdentityAllocator**: the load and weak compare-and-swap loop, one step per
  atomic operation. **OwnerLifetimes** builds and destroys owners in reused memory
  with it; **ProcessorInvocation** mints cookies with it and adds the thread-local
  record, reentrant calls and kept contexts.
* **DispositionRouting**: validation and resolution of a routing configuration as
  operators on the recorded dispositions.
* **StaticPipeline**: one call of `processBatch`. A callback is a phase in which a
  processor takes any steps its descriptor allows and then returns a result, an
  error, or a claim of more work than it declared.
* **HarnessSubmission**: `submit` from the first `enqueue` to the last deferred
  cleanup, with a failure possible wherever the code can return an error.

* **JournalOutcome**: the four things an output can learn from a journal and how
  they move. `BatchOwner` uses them in place of the journal; `PacketMutation` has the
  journal, and its property `JournalAsOwnerAssumes` says that every step of it moves
  as `BatchOwner` lets it.
* **PacketMutation**: one packet under its editors. `header` is what the bytes at the
  front of the frame say (protocols, declared lengths, whether each checksum is
  right), `frame` and `headroom` where the active bytes lie in their storage. Both
  move independently, as in the code: a resize leaves the declared lengths, a write
  leaves the frame. `Parse` is what `parseSlot` finds present, `journal` has the
  fields of `MutationJournal` the finalizer reads, `cache` is the slot's parse cache
  keyed by the parser's limits. The finalizer is three actions for its three ends:
  refused by a check before the first write (`FinalizeRefused`), written and undone
  because the result does not parse (`FinalizeRolledBack`), done (`FinalizeDone`). The
  writes are the set `Pending` of fields `prepareHeaderWrite` prepared; a rolled back
  finalizer makes them all and undoes those in `Restored`, which is the same set because
  the loop of `restoreHeaderWrites` covers every one.
  Options, VLAN tags and extension headers are part of one header length per
  protocol; the bytes of a caller's write or prefix may spell any of `CallerHeaders`.
* **PipelineLifecycle**: `prepare`, `instantiate`, `deinitWorker` and `deinit` with
  one `BudgetAllocator` per part and stage. A part is the prepared tuple (0) or a
  worker slot. `op` is the call in progress: `build` goes up the stages, `unwind` and
  `destroy` go down; a stage's constructor and destructor are the time between two of
  its steps, in which any allocator that somebody still holds can be called. `issued`
  is the history of handles: worker `n` is the one whose handle is at index `n`.

* **ProcessorDeclarations**: what `Pipeline(...)` checks, as sequences of checks in the
  order the compiler evaluates them; the first that fails is what is reported. A processor
  is a record of its declarations, and a key, metric or event a record of which of its
  members it has and of what type. `AllMetadataKeys` is the layout of the metadata store.
* **CompileFail**: the legitimate pipeline and every case of the tool, each as what it
  changes of a good processor and the diagnostic it expects, found anywhere in what is
  reported, run against a library that may have lost checks (`lacking`).
* **MetadataFlow**: a worker of any accepted pipeline: the copy of the caller's metadata
  at the start of a call, reads and productions by the stages, and a callback that calls
  its own worker again. `given` is the history of what this call was given.
  **Declarations** puts the tool and the worker in one specification.
* **Repository**: commits with trees and ancestors, HEAD, the work tree, whether a tool
  left its output in it; and a developer who edits, commits, merges, and resets to any commit,
  discarding what is not committed. The accepted history of M3 is the first five commits.
* **RawSamples**: what the benchmarks print, line by line, and how both parsers read it;
  its list comprehensions are **Selection**'s `ElementsAt`, the elements at some places,
  which the proofs can look into as they cannot into `SelectSeq`.
* **M2BenchmarkEvidence**, **FuzzEvidence**, **M3BenchmarkEvidence**: one action for
  every `git` command and every group of files read, in the order of the code, so that
  the developer of **EvidenceTools** can act between any two. `FuzzEvidence` begins with
  `fuzz-smoke.sh`: the build and the launches whose summary is written. The self-test of M3
  goes through its forgeries with one step for every look of `validate_document` at HEAD
  or at a file. A failed check ends the
  program and leaves behind what it has written. A hash is the content it is of;
  `measured`, also as a field of what the tools write, and `undone` are history.
* **ImportWalk**: the stack of `reachable_zig_sources`, one step per `pop`.
  **CoverageMap** has the parser of `coverage.yaml` (a fold over its lines) and the
  validators as operators; **CoverageGates** runs them over a map somebody edits.

Slots and packets are numbered from 1 in the models and from 0 in the code. Names
ending in a suffix (`Exchange_Unconditional`) are deviations: what a plausible bug would
make of the definition after them. No specification uses them; they show that each
property would notice.

## The runs

| Run | Instance | Question |
|---|---|---|
| `ownership` | 2 tokens, 2 slots, 2 batches, 2 writers, 1 record with 2 lease generations, 2 raw tokens and counter values, 1 output | do tokens follow the lifecycle (refinement of TokenLifecycle) with exactly one holder each and counters that agree; does every stale handle resolve to nothing, and every raw editor to its packet only, although values come again; is none left once a slot is retained? (2.4 million states) |
| `lifetimes` | 2 threads, 2 addresses, 4 identities | does a handle outlive its owner harmlessly? |
| `invocation` | 3 threads, 2 contexts, 4 cookies, nesting 2 | is a context good in its own callback only? |
| `submission` | up to 2 packets, 3 stages, 4 processors, 5 configurations | routing, error policies and cleanup: does every packet end as its stages decided, does every received token end, and is every step one PacketOwnership allows? |
| `mutation` | 8 fixtures in 6 bytes of storage, lengths to 4, deltas -3..2 | do edits, resizes, raw writes and finalizers in any order keep journal, cache, lengths and checksums together, does a failed finalizer put back what it wrote, and does a legal edit always finalize? |
| `pipeline_life` | 1 address used twice, 2 stages, 2 worker slots used twice, 4 requests: exact limits, room to spare, one short, a total that exceeds `usize` | are partial construction and teardown undone exactly, is memory within the admitted limits, and do handles survive reuse of slots and addresses? |
| `evidence` | 4 files of 2 contents or absent, 6 commits, 3 steps of the developer (2 beside M3), 9 outputs of the M2 benchmark, 11 of each of 2 M3 launches | is evidence that a validator accepts, forged evidence included, of what was measured and complete, whatever the developer does between two reads; does the self-test refuse every forgery meanwhile? (2.6 million states) |
| `coverage` | every import graph of 3 files over 5 names; a map of 3 claims with 2 edits out of 6 lines or removals | does the walk end with exactly what is imported; is the map read as written; do the gates agree with each other and refuse the forgeries? |
| `declarations` | a library with all checks, without one or without two of them; every accepted pipeline of 1 stage (batches to 2) or 3 stages (batch of 1) over 4 keys, 2 calls, 1 nested | does the suite notice a lost check, and pass otherwise; do accepted declarations never fail, and do stages read this call's metadata? |
| `later_stage_edits` | 2 stages | violated: see Findings |
| `mutation_resumed` | as `mutation` | violated: see Findings |
| `mutation_snapshot` | as `mutation` | violated: see Findings |

Several properties are conjunctions of named parts, each about one hazard of the same
state: `TokensAccountedFor` (counters, leases, outputs), `RawAuthorityExact` (sealed
slots, kept raw handles that reach their packet), `AuthorityIsTheCallbacks` (cookies, scope, matching
ends), `LifetimesNest` (unwinding, prepared values outliving workers). The type
invariants are proved and not run.

**Why the bounds are enough.** What goes wrong here goes wrong between two of a
kind: two slots whose order or index is confused, two generations of one object,
two leases on one record, two threads in one loop. Each run has at least two of
whatever its properties compare, and one more where a third matters (a third
stage, so that something lies between a decision and the end; a third thread to pass
a waiting one). Every
counter reaches its last value in its run, so exhaustion is covered: `MaxGeneration`,
`MaxWriterGeneration`, `MaxLeaseGeneration`, `MaxMint` and `MaxIdentity` stand for
2^56 - 1 and 2^64 - 1 in the code and appear in the guards exactly where the code
compares with those values. Two bounds have no counterpart: `MaxDepth` cuts the
nesting of calls from callbacks, of which the second level already fails, and
`MaxHandles` the number of workers ever built, which is enough to use both slots
twice. In `pipeline_life` `MaxSize` is 7, so that one request's product passes it.
In `PacketMutation` headers are one or two bytes long, so that the shortest packet
of each kind fits with a byte of payload, a byte of padding and a byte of room;
`MaxLength` and `MaxDelta` stand for the limits of `u16` and `i32`, and the run
passes both. The raw tokens and the retention records are left out of the submission runs
(`RawToken = {}`, `PoolCapacity = 0`) because the harness has no retention pool.
The tools compare two of everything as well: two contents, two accepted lines, two
launches of two variants, a sample order and its reverse, a claim of each milestone. A
behaviour of `EvidenceTools` follows one family of tools (`family`), one of
`Declarations` the compiler or a worker (`side`), since these share no state they
write. Three developer steps are what it takes to change a file, commit, and come back;
the accepted history is five commits and one more can be made.

**Deadlock.** The library runs let callers stop, and their counters run out, so
`CHECK_DEADLOCK FALSE` is stated there; the tools end, and the developer's steps run out. The submission and mutation runs check deadlock: until
`submit` has returned some step is always possible, including where the code says
an error "cannot" happen and the model therefore has no step for it.

**Fairness.** `HarnessSubmission` states `WF_vars(Progress)`: `submit` runs on one
thread which is never blocked, so it takes its next step; a processor declares
bounded work and returns. Steps taken inside a callback are not in `Progress`, so
nothing forces a processor to act. `PipelineLifecycle` states `WF_vars(CleanupStep)`
for each pipeline: unwinding and teardown run without waiting on the caller's thread,
and a destructor frees what its stage holds and returns (one that does not stops the
program at the assertion in `endCleanup`). Nothing forces a constructor to return. `CoverageGates` states `WF_gatesVars(Walk)`: the
walk is a loop of one program that waits for nobody.

## Findings

1. `docs/user/m3-native-pipeline.md:53` says "Terminal packets never reach later
   stages." Dispositions check the active selection, but `setIpv4Ttl`, `finalize`,
   `trustedRawWrite` and reads go by index, so a later stage can edit a packet
   already decided. Run `later_stage_edits` shows it.
2. `finalize` never resets the tail delta and the parse taken before the first tail
   resize. A packet that is appended to, finalized, trimmed by as much and finalized
   again arrives at the second finalizer with a tail delta of 0; it is parsed with
   the lengths the first one declared, does not fit its frame, and can never be
   output (run `mutation_resumed`; the review record `evidence/m2/REVIEW.md:264` and
   `docs/user/m2-packet-processing.md:40` promise otherwise).
3. From the same cause, `mutation_snapshot`: a packet followed by padding is cut into
   its payload, finalized, lengthened again and finalized. The new length is the one
   first received, so "not changed" and not written, but both checksums are computed
   for it. The journal says finalized, against INV-PKT-005
   (`01-architecture/invariants.md:11`).

Not findings, because nothing promises otherwise, but worth knowing: a UDP first
fragment with any edit, an ICMP packet with edited addresses and an edited frame without
IP can never be finalized; head and tail resizes of one packet cannot be combined
unless the tail deltas cancel; a raw write between a tail resize and its finalizer is
overwritten at the places the old parse names. The comment at `packet:354` says a token
"remains worker-owned while views exist"; `submitBatch` moves it on while the batch and
its views stay live, so this holds only for callers that drop their views first. A call
of a worker from inside its own callback is refused only after the outer call's metadata
has been overwritten (`pipeline:772`): `StagesReadThisCall` holds up to the first such
call. The M3 gate compares HEAD by name at its end, so a developer who checks out another
commit during the launches and comes back lets it pass with measurements of that other
commit; `GateMeasuresItsCommit` holds as long as no work is taken back (`undone`). M2's
validator compares the hash of the environment file with the work tree alone, that of a
source with commit and squash too; the sources it compares are those the artifact lists, so
that a shortened list passes. M3
counts the tests of two more files as executed, so a claim of M1 or M2 that rests on one
of those passes its gate and fails the earlier ones. An artifact that `generate` has
written stays when a later step of the gate fails, and in fuzzing a commit made between the
reading of HEAD and that of the status goes unnoticed: HEAD then names the commit before,
and the status, of the one after, is empty. An IPv6 payload length of 65496 or more
is accepted by the parser, and the finalizer refuses the packet (`PacketTooLarge`,
`packet:2285`), where the total, header included, must fit 16 bits. The self-test of the M3 validator
fails when HEAD is the retained source commit, where its first forgery changes nothing.

## The proofs

Everything is proved for all values of the constants, from the named assumptions of the
modules. For the library they say that constants are natural numbers and declarations are
lists; for the tools, that the tables in their code and the files they read have the form
they have there (which is said below where it is used).

* `PacketOwnership_proofs`. `TypeCorrect` is inductive as it stands.
  `OwnershipInv` is the invariant behind the rest: types, the cursors of the
  registry (which tokens are registered and received), the accounting of the
  counters, and the two "exactly one holder" facts. None of the last three is
  inductive alone: that a new lease is the only holder of its token needs that a
  worker-owned token has none, and that a counter moves with a token needs the type
  of both. A lemma counts what `Transfer` does to the set of finished tokens; frame
  lemmas cover the actions that touch neither tokens, records nor observations.
  `OwnershipRefinesLifecycle` maps the holder of a token to what would hand it on
  (a live record, a pending observation, the input cursor), shows that under
  `OwnershipInv` this is its tracker state, and that shutdown verification
  (`ReceivedCompleted`) succeeds exactly when nobody holds a token: the second
  half of its condition, the equality of the counters, is implied by the first.
  `TokensAccounted` is the run's property, the three facts together.
  The second half is about the handles of the same model. `HandleSteps` reduces
  every step to the eight that touch owner, recorder, pool or handles. `RawInv` relates each slot's authority to the history of raw handles: it is what the
  last mint for the slot in this batch left there, and no other slot has it, because a mint
  takes only a value that no live slot has; it is gone when the slot is retained, and
  a later batch compares generations before values. So a kept handle reaches the packet of the
  last mint of its value and no other (`RawAuthorityCorrect`): when the hash makes a value
  again the old handle and the new are one, as they are in the code. `HandleInv` adds to `WriterMatchesBatch` what keeps it: no
  handle is ahead of the counter that issues it (so a new generation is fresh), a batch
  without a recorder has no retained slot, and nothing terminal is active even after
  its batch. From it follow `HandlesStayStale` and the action property
  `TerminalStands`.
* `FoldInduction` is the induction the other modules need. The folds of the community
  modules are recursive functions, and a `CHOOSE` of one says nothing until such a function
  is shown to exist. The library's induction theorems take an operator, which the
  installed provers cannot instantiate; a set of numbers says the same (`Induction`, from
  the well-foundedness of `<`), and with it `FoldExists` builds the function on all
  subsets of an interval and `LeftFoldAccumulates` unfolds a left fold into a sequence
  of partial results, one per element. The sums over a function are the same for any
  finite set: `SubsetInduction` goes up through its subsets by the element `CHOOSE` takes, and
  gives `SumMonotone` (a larger summand, a larger sum) and `SumOfEquals` (n times a value).
  `ElementsAtPlaces` and `ElementsAreAtPlaces` say of a list comprehension how long it is and
  which elements it has.
* `HarnessSubmission_proofs`, about a whole submission: queues, owner, writer, stages and
  routing together, for any number of fixtures, stages and outputs and any configuration.
  Its invariant has a part for each thing the argument rests on, none inductive without
  the others. `PlaceInv`: where `submit` is decides which batch is live and in which phase
  the call is. `CallInv`: a call in progress owns the live batch and a live writer, and was
  accepted; a returned one has the groups `resolve` computes. `StatusInv` and `StageInv`:
  the stages behind the current one ran, and one that was skipped or applied a
  terminal policy left nothing active. `DecidedInv`: active is what no stage decided,
  and each decision was its processor's to make. `LoopInv`: what was submitted and what is
  left to submit make up the result. `TokenInv` and `CountInv`: the state of every token
  follows from these, and the final ones are counted. On the operators, `ResolveSteps` and
  `OutputOrderSteps` unfold the two folds of routing; from them come that every packet is
  in the group of its disposition once, in receive order, and that the concatenation in
  output order has no packet twice. `FailuresRevoke`, `GroupsAccount`, `TokensReconciled`
  and the action property `DecisionsOnce` follow. `RefinesOwnership` maps the submission to
  `PacketOwnership` step by step: `submit`'s queue operations, `openBatch` and `closeBatch` are
  that module's actions, the decisions of a stage its decisions, everything else a
  stutter. It needs `WriterInv` besides: a live recorder is the last one opened.
* `OwnerLifetimes_proofs` and `Processor_proofs` both start from the counter they
  draw from: what a thread has read is never ahead of it, so a successful exchange is
  fresh. In the first, the invariant says identities of live owners are
  different and not ahead of the counter, and that a handle with the identity of a
  live owner was issued by this lifetime of it.
* In `Processor_proofs` the invariant of the invocations relates the thread-local record to
  the innermost call and keeps cookies unique; reentrant calls are harmless because
  an inner call can begin only when no record is active, so calls never nest.
  `AuthorityCorrect` is the conjunction the run checks.
  The second part of `Processor_proofs` is about typed metadata, for `FlowSpec`, the worker
  that `MCDeclarations` runs beside the compile-fail tool. It begins with what the compiler's
  acceptance says. The checks of a pipeline are one long list, made of lists of lists;
  `JoinedLists` and `FlattenedLists` take it apart, and `AcceptedPipeline` is what is left: no
  two input keys with one id, every consumed key offered with its type, no exclusive key
  with two producers, no produced key in conflict with the layout. `LayoutHolds` unfolds the
  two nested folds that build the layout: it begins with the input keys, moves none, and has
  every produced id. Hence every accessible key has a slot, and one only (`AccessibleSlot`,
  `OneSlot`), which is `DeclaredAccessSafe`. `FlowInv` adds what the values are: at the first
  position of every id the store and the history agree, as long as no refused call has
  intervened (`InputIsFilled` unfolds the puts of the caller's input). `ReadsAreOfThisCall` and
  `ExclusiveValuesSafe` follow. What is assumed of the constants is that a processor's
  declarations are lists, as they are in its type; the keys in them may be anything.
  The last part is about the compile-fail tool, for `SuiteSpec`, its side of `Declarations`.
  A library reports no check that it has lost (`LostIsNotReported`), and a case lets the suite
  go on only when what is reported contains what it expects; so the cases that are finished name
  nothing that is lost (`SuiteInv`), and when the suite passes they are all of them
  (`PassedHasLostNothing`, half of what the run checks). `SuiteCorrect` looks at no check of
  a pipeline, hence holds for every library.
* `PacketMutation_proofs`. `TypeCorrect` is inductive once it is known that the new
  lengths of the finalizer fit their fields (`NewLengthsType`), which rests on a
  transport extent never ending after its packet (`ResizedEndBounded`).
  `DeltasCorrect` and `CacheCorrect` are inductive beside it, as every step either
  leaves lengths and deltas alone (`Still`) or resizes both; `JournalSteps` sorts the
  steps by what they do to the journal, for the two action properties. For
  `FailuresChangeNothing` the case that matters is the rolled back finalizer: with all that
  was prepared undone, what stands is the header as it was (`RolledBackStill`).
  The rest of the module is about what the finalizer makes of an edited packet.
  `SnapshotInv` says what the retained snapshot is worth: the parse of the bytes the
  finalizer writes over as long as nothing disturbed the headers, and after one finalizer the
  parse of the same header with the lengths it declared before (`Sealed`); beside it, that
  the journal's deltas lead from the snapshot's frame to this one, for a length derived from
  the right snapshot and the wrong frame is wrong as well. `SnapshotSteps` sorts the
  steps into writes to a field, raw writes, resizes of either end and a finalizer that
  succeeds; there is a lemma for each. What the finalizer relies on is gathered in
  `Trusted`; under it the lengths it derives fit the frame and the new header parses, so
  a packet that may leave has right checksums over the lengths it declares
  (`ReadyConsistent`); it is declared to end with the frame if it did before its tail resizes
  or was cut off by them, else where it did (`LengthsCorrect`); and no legal edit is refused
  (`LegalEditsCorrect`). All three hold only without bytes of callers where the headers
  were and without a second round of tail resizes after a finalizer, the second also only
  without resizes of the front: on the other histories the code does otherwise, as findings
  2 and 3 show. That an edited packet that may leave parses holds on every history.
* `PipelineLifecycle_proofs`. `LifeInv` says of each pipeline what the call in
  progress owns: the stages that exist are those `ExpectedAlive` names, the slot being
  built or destroyed has no worker, `live_workers` is the number of workers in slots
  (so `deinit` passes only when there is none), and nothing is at an address without
  an identity. `HandleInv` adds the history: identities are fresh and different, a
  handle's generation never exceeds that of its slot, and a worker in its slot carries
  what its handle says. From both follow `HandlesResolve` and `DeadStayDead`, which
  compares two states and is proved but not run. `LifetimesCorrect` is the conjunction
  the run checks.
  `MemoryInv` is about what the allocator counts: a stage that stands is sealed and counted
  no more than its estimate, one being built is counted no more than that either, and one
  that does not exist is counted nothing, but for what an unwinding with an
  underestimated destructor left. The limits are bounds on sums, over stages and over
  workers; they follow from the bound on each stage because sums are monotone and no
  pipeline has more workers than its capacity. `SealedMemoryCorrect` is the action
  property, from the same invariant and one lemma per action on the count it moves.
* `RepositoryTools_proofs`, about the tools that read the repository, with the developer
  of `EvidenceTools` at work beside them. Everything rests on what a step can do to the
  repository (`RepositoryStep`): commits never change, and as long as no work is taken
  back HEAD stays or goes to a commit just made, and a file that differs from HEAD goes on
  differing. So what a launch of the gate measured is HEAD's bytes or the work tree still
  gives the difference away (`LaunchOK`), and a HEAD that is where it was when the gate
  looks again has never been away (`GenerateOK`, `RecheckOK`); `GateCorrect` follows. What
  was measured is compared with what evidence says was measured by `MeasuredCorrect`, for
  evidence that may also be forged. `M2MeasuredOK` follows M2's capture from the launch to
  the second look at HEAD and the status: what was measured has the files of the commit, or
  HEAD has moved, or the work tree gives the difference away. `FuzzMeasuredOK` says the same
  of a summary that is not dirty and whose commit is in the accepted history: a
  commit made meanwhile is never in it. `M3MeasuredOK` needs only that a document of the
  retained source commit was measured with that commit's files. The validators compare hashes
  with the commit named (`M2RecordsOK`, `FuzzRecordsOK`, `RetainedOK`), and the two give the
  theorem. The constants are assumed to be what the tools' tables are, sequences of paths, and M3's
  environment file not to be one that may evolve, which in the code is the validator alone.
  Left out are what the tools cannot notice, work taken back while it is measured and the
  commit between two reads of the fuzz summary, and the environment file of M2, which is
  hashed but is no input of a measurement.
  The last of these results is `AcceptedSamplesCorrect`. `M3SamplesOK` says of every place in
  the gate and the validator what the evidence in hand has been checked for: it is a whole
  document whose raw output is a list; after the schema, its claims are of the form they must
  have; after the comparison, they are what its raw output gives, which the parser accepted.
  `M2SamplesOK` is the same of M2's artifact. What the parsers let through is a question of
  counting. They compare only how many samples there are and which variants and orders
  occur: as many as there are variants, and every variant met, is each variant once
  (`EveryValueOnce`, `GroupIsPermutation`), so every batch is a complete order of its
  variants; and every sample falls in a group of its launch and batch (`ParsedIsComplete`).
  Assumed is that what a launch prints is a list of lines.
  The second part is the import walk of the coverage gate. `WalkInv` says that
  whatever a visited file imports is visited or
  on the stack (`Frontier`), and that every path seen lies in every closed set of paths
  (`Forced`); when the stack is empty the first makes the result closed and the second
  makes it the least. A lemma says what `pop` leaves on the stack. `WalkCorrect` holds for
  `WalkSpec`, any files and any imports; the run adds that the walk ends.
  The last part is the coverage map and its gates, for any map and any edits.
  `GatesInv` says that the map is a list of lines whose values the constants have, and that
  the walk is `WalkInv`'s; `VerdictInv`, that a verdict is of the map and the walk as they
  are. `EarlierGatesCorrect` compares the validators record by record. M1 and M2 count the same
  tests as executed; from M3 to M2 it holds unless a claim of M1 or M2 itself rests on a test
  that only M3 counts, whatever the claims of M3 rest on. It uses what the parser does with
  an accepted map, from below. `SelfTestsCorrect` goes
  through the seven forgeries: the first record of an accepted map is legitimate, so
  whatever the validator says of a forgery is said of the one thing that was forged.
  `ParserCorrect` compares the parser, which keeps a record and an open list, with
  `WrittenRecord`, which looks back from each line: it raises exactly when some line belongs
  to no record or no list, and else its records are the written ones. `ReadUpTo` says what the parser knows
  after n lines: as many records as ids were seen, each what is written for it so far, and
  the open section is that of the nearest line that is neither item nor comment. One lemma
  per kind of line says what it adds to `RecordUpTo`; the fold takes them from the first
  line to the last. The proof found one error in the model: two guards of the parser's
  `CASE` could both hold, so that what it did was unspecified; TLC had taken the first.
  Assumed of the constants: the map is a list and opens only the lists a record has, the
  files are below the directories the tool searches, and neither a field's absence nor an
  unknown name is one of the names in use.

Model-checked only: liveness (fairness and ENABLED are out of the prover's reach, so
`TokensLeaveTheWorker` and the like stay with TLC), and two conditions.
`NegativeControlsReject` of EvidenceTools depends on the samples: one of the self-test's
forgeries overwrites a median with a fixed number, and is refused only because no
measurement has that median, so it is no theorem for every value of the constants.
`OtherLibrariesPass`, the other half of `LostChecksAreNoticed` of CompileFail, says what the
checks of each of the suite's cases evaluate to, one concrete pipeline after the other: TLC
computes that for all the cases there are, and a proof would be the same computation by hand.

## Not modelled

* The parser's walk over the bytes (VLAN tags, options, extension headers), segment
  arithmetic and the checksum sums: pure functions of the bytes; `PacketMutation` has
  what a parse finds present and whether a sum is right.
* Retained reads, instrumentation counters, seeded traces, scripts of the queues:
  they decide nothing; scripted behaviours are choices in the models.
* Of the declarations: the ids of metrics and events are compared like those of keys; the
  order in which a compiler reports errors of different declarations is taken to be that of
  evaluation, and what it prints besides the first failed check is left out.
* Of preparation: the totals for metadata, pools and work (checked the way memory is),
  the peak and allocation counts, metadata bytes, and two threads calling one
  prepared pipeline at once (`docs/internals/modules/pipeline.md:39`: single-worker-owned,
  no concurrent publication); the model takes one call at a time.
* `trustedRawWrite`'s own authority: minted and used within one call; the model has
  its effect on the journal, and raw authorities are the subject of PacketOwnership.
* Of the evidence tools: tool versions, host observations and time stamps, which are
  recorded and not compared; the collision of hashes; a merge with conflicts.
* The pcap codec: its hazards are in the reading of single bytes. The DPDK shim: a
  feasibility test around external calls whose behaviour would be assumed.
* `m0/check-public-docs.py`, `m2/scapy-differential.py`, `m2/decode-fuzz-seeds.py` and
  the shell scripts other than `fuzz-smoke.sh`: filters over text and bytes without state,
  and sequences of commands.
* Foundation, observability, policy, state, update: identifiers, a deterministic
  clock, empty scaffolds. Benchmarks, examples, fuzz drivers: they hold no state of the
  library.
