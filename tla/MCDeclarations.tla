--------------------------- MODULE MCDeclarations ---------------------------
(***************************************************************************)
(* A library that has lost any one of the checks some case could meet, or  *)
(* two of them; and every accepted pipeline of one or three stages that    *)
(* consume and produce at most one key each, of two ids, two value types,  *)
(* held exclusively or not.                                                *)
(***************************************************************************)
EXTENDS Declarations

MCPublicNames == {"ProcessContext", "MetadataKeys"}

MCDiagnostics ==
  Expected \cup
  { <<"missing", "Worker">>, <<"missing", "prepare">>, <<"state/update-mode mismatch", "state">>,
    <<"missing default update mode", "state">>, <<"bounded-work overflow", "work">>,
    <<"metadata id must be nonzero", "input">>,
    <<"duplicate exclusive metadata producer", "produced">>,
    <<"metadata type conflict for key id", "pipeline">>, <<"duplicate id", "metrics">> }

MCLackingChecks ==
  {{}} \cup {{diagnostic} : diagnostic \in MCDiagnostics}
  \cup {{<<"missing", "descriptor">>, diagnostic} : diagnostic \in MCDiagnostics}

MCKey(id, value, exclusive) ==
  [Key("key", value) EXCEPT !.id = id, !.exclusive = exclusive]

MCKeys == {MCKey(1, U8, TRUE), MCKey(1, U8, FALSE), MCKey(1, U16, FALSE), MCKey(2, U8, TRUE)}

MCKeyLists == {<< >>} \cup {<<key>> : key \in MCKeys}

MCStageChoices ==
  {[Good EXCEPT !.inputs = consumed, !.outputs = produced,
                !.reads = ToSet(consumed), !.produces = ToSet(produced),
                !.metadataScratch = consumed \o produced # << >>] :
     consumed \in MCKeyLists, produced \in MCKeyLists}

MCLengthBound == (1 :> 2) @@ (3 :> 1)

MCInputKeyChoices == MCKeyLists \cup {<<MCKey(1, U16, FALSE), MCKey(2, U8, FALSE)>>}
=============================================================================
