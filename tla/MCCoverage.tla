----------------------------- MODULE MCCoverage -----------------------------
(***************************************************************************)
(* Every import graph of three files with two, two and one imports at      *)
(* most over an unedited map; and one graph over a map of one claim per    *)
(* milestone with up to two edits.                                         *)
(***************************************************************************)
EXTENDS CoverageGates

MCName == {"root", "a", "b", "missing", "outside"}

MCRepository == MCName \ {"outside"}

MCFiles == {"root", "a", "b"}

ImportLists(most) ==
  {list \in UNION {[1 .. n -> MCName] : n \in 0 .. most} :
     Len(list) = 2 => list[1] # list[2]}

MCImports == {[root |-> atRoot, a |-> atA, b |-> atB] :
                atRoot \in ImportLists(2), atA \in ImportLists(2), atB \in ImportLists(1)}

PlainImports == [file \in MCFiles |-> IF file = "root" THEN <<"a">> ELSE << >>]

Plain == [files |-> MCFiles, imports |-> PlainImports, edits |-> 2]

MCSources ==
  {[files |-> MCFiles, imports |-> graph, edits |-> 0] : graph \in MCImports}
  \cup {Plain}

MCTestsIn ==
  [file \in MCFiles |-> CASE file = "root" -> {"root test"}
                         [] file = "a" -> {"a test"}
                         [] file = "b" -> {"b test"}]

Claim(id, version, test) ==
  << [kind |-> "id", value |-> id],
     [kind |-> "design", value |-> "design.md"],
     [kind |-> "section", value |-> "code"],
     [kind |-> "item", value |-> "code.zig"],
     [kind |-> "section", value |-> "tests"],
     [kind |-> "item", value |-> test],
     [kind |-> "status", value |-> "passing"],
     [kind |-> "since", value |-> version, quoted |-> FALSE],
     [kind |-> "comment"] >>                    \* where an edit may put a line

MCInitialMap == 
  Claim("A", "m1", "root test") \o Claim("B", "m2", "a test") \o Claim("C", "m3", "b test")

MCLine ==
  { [kind |-> "id", value |-> "A"],
    [kind |-> "id", value |-> "D"],
    [kind |-> "status", value |-> "unknown"],
    [kind |-> "since", value |-> "m2", quoted |-> TRUE],
    [kind |-> "section", value |-> "tests"],
    [kind |-> "item", value |-> "b test"],
    [kind |-> "unsupported"] }

MCVersionMatches == { <<"m3">>, <<"m2">>, <<"m3", "m3">> }
=============================================================================
