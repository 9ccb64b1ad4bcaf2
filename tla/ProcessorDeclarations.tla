------------------------ MODULE ProcessorDeclarations ------------------------
(***************************************************************************)
(* What the compiler checks of a static pipeline (validateProcessors of    *)
(* pipeline/root.zig): a check raises a diagnostic, and the first check    *)
(* that fails ends the compilation.  A processor, a metadata key, a metric *)
(* or an event is a record of what its type and descriptor declare;        *)
(* members maps each declaration of the type to whether it has exactly the *)
(* required type or signature.                                             *)
(***************************************************************************)
EXTENDS Integers, SequencesExt

CONSTANTS
  MaxBatch,             \* packet.max_batch
  MaxWork,              \* bound: the largest usize
  MaxKeys,              \* MetadataStore.max_keys
  MaxValueSize,         \* MetadataStore.max_value_size
  ApiVersion            \* processor.api_version

ASSUME DeclarationsAssumption == {MaxBatch, MaxWork, MaxKeys, MaxValueSize} \subseteq Nat

(* A check is a diagnostic and whether it is raised; the diagnostic's text *)
(* and what it names, a declaration of the type or the schema.             *)
Check(text, named, fails) == <<[text |-> text, named |-> named, fails |-> fails]>>

Diagnostic(check) == <<check.text, check.named>>

(* The diagnostic of the first check that fails, in a library that has     *)
(* lost some of them, if one fails.                                        *)
FirstFault(checks, lost) ==
  LET faults == {i \in DOMAIN checks : checks[i].fails /\ Diagnostic(checks[i]) \notin lost}
  IN  {Diagnostic(checks[i]) : i \in {first \in faults : \A other \in faults : first <= other}}

Passes(checks) == \A i \in DOMAIN checks : ~ checks[i].fails

(* The checks of every element of a list, in its order: inline for.        *)
InOrderOf(list, checks(_)) == FlattenSeq([i \in DOMAIN list |-> checks(i)])

Lacks(declared, member) == member \notin DOMAIN declared.members

Inexact(declared, member) ==
  Lacks(declared, member) \/ declared.members[member] # "exact"

(* @hasDecl, and the same with the type it must have.                      *)
Missing(declared, member) == Check("missing", member, Lacks(declared, member))

Wrong(declared, member, text) == Check(text, member, Inexact(declared, member))

-----------------------------------------------------------------------------
(* Values and metadata keys.  leaves: what a type has at its leaves.       *)

AuthorityLeaves == {"pointer", "fn", "frame"}

ComptimeLeaves == {"type", "comptime_int", "opaque"}

(* validateInlineValueType                                                 *)
InlineValue(value, label) ==
  Check("must not contain pointer", label, value.leaves \cap AuthorityLeaves # {})
  \o Check("must be a runtime inline value", label, value.leaves \cap ComptimeLeaves # {})

KeyIndex(keys, key) ==
  {i \in DOMAIN keys : keys[i].id = key.id /\ \A j \in 1 .. i - 1 : keys[j].id # key.id}

(* Deviation: a key found by its id is taken whatever its value type.      *)
TypeConflict_Never(keys, key) == FALSE

(* keys hold key's id first with another type.                             *)
TypeConflict(keys, key) == \E i \in KeyIndex(keys, key) : keys[i].value # key.value

AppendUnique(keys, key) == IF KeyIndex(keys, key) = {} THEN Append(keys, key) ELSE keys

(* allMetadataKeys: the layout of the store.                               *)
AllMetadataKeys(stages, inputs) ==
  FoldLeft(LAMBDA keys, stage : FoldLeft(AppendUnique, keys, stage.outputs), inputs, stages)

(* producedBefore: the keys that stage s may consume, as they are searched.*)
Offered(stages, inputs, s) ==
  inputs \o FlattenSeq([e \in 1 .. s - 1 |-> stages[e].outputs])

ConsumedChecks(stages, inputs, s) ==
  InOrderOf(stages[s].inputs, LAMBDA i :
    LET key == stages[s].inputs[i]
        offered == Offered(stages, inputs, s)
    IN  InlineValue(key.value, "metadata value")
        \o Check("metadata type conflict", "consumed", TypeConflict(offered, key))
        \o Check("metadata consumed before producer", "consumed", KeyIndex(offered, key) = {}))

KeyChecks(key, label) ==
  InlineValue(key.value, "metadata value")
  \o Check("metadata value exceeds slot", label, key.value.size > MaxValueSize)
  \o Check("metadata id must be nonzero", label, key.id = 0)

(* Deviation: only the later of two producers is asked.                    *)
ProducerChecks_LaterOnly(earlier, key) ==
  InOrderOf(earlier.outputs, LAMBDA e :
    LET other == earlier.outputs[e]
    IN  IF other.id # key.id THEN << >>
        ELSE Check("metadata producer type conflict", "produced", other.value # key.value)
             \o Check("duplicate exclusive metadata producer", "produced", key.exclusive))

(* Of two stages that produce one key, neither may hold it exclusively.    *)
ProducerChecks(earlier, key) ==
  InOrderOf(earlier.outputs, LAMBDA e :
    LET other == earlier.outputs[e]
    IN  IF other.id # key.id THEN << >>
        ELSE Check("metadata producer type conflict", "produced", other.value # key.value)
             \o Check("duplicate exclusive metadata producer", "produced",
                      other.exclusive \/ key.exclusive))

ProducedChecks(stages, s) ==
  InOrderOf(stages[s].outputs, LAMBDA i :
    LET key == stages[s].outputs[i]
    IN  KeyChecks(key, "produced")
        \o Check("duplicate metadata producer in one stage", "produced",
                 \E e \in 1 .. i - 1 : stages[s].outputs[e].id = key.id)
        \o InOrderOf(SubSeq(stages, 1, s - 1), LAMBDA e : ProducerChecks(stages[e], key)))

(* validateMetadata                                                        *)
MetadataChecks(stages, inputs) ==
  InOrderOf(inputs, LAMBDA i :
    KeyChecks(inputs[i], "input")
    \o Check("duplicate input metadata id", "input",
             \E e \in 1 .. i - 1 : inputs[e].id = inputs[i].id))
  \o InOrderOf(stages, LAMBDA s :
       ConsumedChecks(stages, inputs, s) \o ProducedChecks(stages, s))

(* allMetadataKeys merges the keys of all stages into the inputs.          *)
LayoutChecks(stages, inputs) ==
  LET layout == AllMetadataKeys(stages, inputs)
  IN  Check("metadata type conflict for key id", "pipeline",
            \E s \in DOMAIN stages : \E key \in ToSet(stages[s].outputs) : TypeConflict(layout, key))
      \o Check("pipeline exceeds metadata key capacity", "pipeline", Len(layout) > MaxKeys)

(* Metrics or events of stage s.  bound 0: it is not declared.             *)
ValueMember(schema) == IF schema = "metrics" THEN "Value" ELSE "Payload"

SchemaChecks(stages, s, schema) ==
  InOrderOf(stages[s][schema], LAMBDA i :
    LET declared == stages[s][schema]
        earlier == UNION {ToSet(stages[e][schema]) : e \in 1 .. s - 1}
    IN  Wrong(declared[i], "id", "requires id")
        \o Missing(declared[i], ValueMember(schema))
        \o Check("requires nonzero bound", schema, declared[i].bound = 0)
        \o InlineValue(declared[i].value, schema)
        \o Check("duplicate id", schema, \E e \in 1 .. i - 1 : declared[e].id = declared[i].id)
        \o Check("conflicting declaration across pipeline", schema,
                 \E other \in earlier :
                   /\ other.id = declared[i].id
                   /\ <<other.value, other.bound>> # <<declared[i].value, declared[i].bound>>))

-----------------------------------------------------------------------------
(* One processor: validateProcessor.                                       *)

Functions == <<"estimateResources", "prepare", "instantiate", "deinitWorker",
               "deinitPrepared", "processBatch">>

WorkChecks(work) ==
  LET total == work.fixed + work.perPacket * MaxBatch
  IN  Check("invalid bounded-work declaration", "work",
            work.maximum = 0 \/ work.fixed > work.maximum \/ work.perPacket > work.maximum)
      \o Check("bounded-work overflow", "work", total > MaxWork)
      \o Check("bounded-work formula exceeds maximum_total", "work", total > work.maximum)

StateChecks(p) ==
  Check("worker state/flag mismatch", "state", p.stateful # p.workerHoldsState)
  \o Check("state/update-mode mismatch", "state", p.stateful # (p.updateModes # {}))
  \o Check("missing default update mode", "state", p.stateful /\ p.defaultMode = "none")
  \o Check("unsupported default update mode", "state",
           p.stateful /\ p.defaultMode \notin p.updateModes)
  \o Check("stateless update default", "state", ~p.stateful /\ p.defaultMode # "none")

(* validateTerminalPolicy                                                  *)
TerminalChecks(p, terminal) ==
  Check("error policy uses undeclared disposition", terminal.disposition,
        terminal.disposition \notin p.dispositions)
  \o Check("error policy uses undeclared output", terminal.disposition,
           ~(terminal.outputs \subseteq ToSet(p.outputIds)))

PolicyChecks(p) ==
  Check("error policy/result mismatch", p.policy.kind,
        p.errorMode # (IF p.policy.kind = "infallible" THEN "infallible" ELSE "bounded"))
  \o IF p.policy.kind \in {"terminal_active", "terminal_active_and_stop"}
     THEN TerminalChecks(p, p.policy.terminal)
     ELSE << >>

ProcessorChecks(p) ==
  Missing(p, "descriptor")
  \o Wrong(p, "descriptor", "has wrong type")
  \o Missing(p, "Prepared")
  \o Missing(p, "Worker")
  \o Check("invalid id", "processor", p.id = 0)
  \o Check("API mismatch", "processor", p.api # ApiVersion)
  \o Check("artifact requirement is inconsistent", "processor", p.needsArtifact # p.namesArtifact)
  \o Check("metadata/resource mismatch", "processor",
           p.metadataScratch # (p.inputs \o p.outputs # << >>))
  \o WorkChecks(p.work)
  \o InOrderOf(p.outputIds, LAMBDA i :
       Check("invalid id", "output", p.outputIds[i] = 0)
       \o Check("duplicate id", "output", \E e \in 1 .. i - 1 : p.outputIds[e] = p.outputIds[i]))
  \o StateChecks(p)
  \o PolicyChecks(p)
  \o InOrderOf(Functions, LAMBDA f :
       Missing(p, Functions[f]) \o Wrong(p, Functions[f], "has wrong signature"))

(* validateProcessors                                                      *)
PipelineChecks(stages, inputs) ==
  InOrderOf(stages, LAMBDA s :
    ProcessorChecks(stages[s])
    \o Check("duplicate id", "processor", \E e \in 1 .. s - 1 : stages[e].id = stages[s].id))
  \o MetadataChecks(stages, inputs)
  \o InOrderOf(stages, LAMBDA s :
       SchemaChecks(stages, s, "metrics") \o SchemaChecks(stages, s, "events"))
  \o LayoutChecks(stages, inputs)

(* validateKeyType, when the store is given its layout or asked for a key: *)
(* of several keys at once.                                                *)
KeyTypeChecks(keys) ==
  Check("missing", "id", \E key \in keys : Lacks(key, "id"))
  \o Check("missing", "Value", \E key \in keys : Lacks(key, "Value"))
  \o Check("must be u32", "id", \E key \in keys : Inexact(key, "id"))

(* requireDeclaredKey, in the body of a processBatch that is analysed: by  *)
(* the type of the key, not by its id.                                     *)
BodyChecks(p) ==
  Check("used undeclared", "metadata input", p.reads \ ToSet(p.inputs) # {})
  \o Check("used undeclared", "metadata output", p.produces \ ToSet(p.outputs) # {})
  \o KeyTypeChecks(p.reads \cup p.produces)

Accepted(stages, inputs) ==
  /\ Passes(PipelineChecks(stages, inputs))
  /\ Passes(KeyTypeChecks(ToSet(AllMetadataKeys(stages, inputs))))
  /\ \A s \in DOMAIN stages : Passes(BodyChecks(stages[s]))
=============================================================================
