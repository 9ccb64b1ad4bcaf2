----------------------------- MODULE ImportWalk -----------------------------
(***************************************************************************)
(* reachable_zig_sources of tools/m1/validate-coverage.py: the files that  *)
(* the canonical test root imports, found with a stack of paths.  What a   *)
(* file imports is read once, when the file is first taken off the stack.  *)
(***************************************************************************)
EXTENDS Integers, Sequences

CONSTANTS
  Root,                 \* CANONICAL_TEST_ROOT
  Repository,           \* the paths below ROOT
  Name                  \* everything an @import can name, resolved

ASSUME WalkAssumption == Root \in Name

VARIABLES
  files,                \* the paths at which there is a file
  imports,              \* the names a file imports, in the order of its text
  pending,
  reachable,
  outcome               \* "running", "found", or what was raised

source == <<files, imports>>

walk == <<pending, reachable, outcome>>

WalkInit ==
  /\ pending = <<Root>>
  /\ reachable = {}
  /\ outcome = "running"

(* pending.pop()                                                           *)
Top == pending[Len(pending)]

Popped == SubSeq(pending, 1, Len(pending) - 1)

Escapes(path) == \E i \in DOMAIN imports[path] : imports[path][i] \notin Repository

Raise(error) == outcome' = error /\ UNCHANGED <<pending, reachable>>

(* Deviation: a path that has been visited stays on the stack.             *)
VisitAgain_Kept ==
  /\ outcome = "running"
  /\ pending # << >>
  /\ Top \in reachable
  /\ UNCHANGED walk

VisitAgain ==
  /\ outcome = "running"
  /\ pending # << >>
  /\ Top \in reachable
  /\ pending' = Popped
  /\ UNCHANGED <<reachable, outcome>>

ImportMissing ==
  /\ outcome = "running"
  /\ pending # << >>
  /\ Top \notin reachable
  /\ Top \notin files
  /\ Raise("missing")

ImportEscapes ==
  /\ outcome = "running"
  /\ pending # << >>
  /\ Top \notin reachable
  /\ Top \in files
  /\ Top \notin Repository \/ Escapes(Top)
  /\ Raise("escapes")

(* Deviation: the imports take the place of the rest of the stack.         *)
Visit_Forgets ==
  /\ outcome = "running"
  /\ pending # << >>
  /\ Top \notin reachable
  /\ Top \in files
  /\ Top \in Repository
  /\ ~Escapes(Top)
  /\ reachable' = reachable \cup {Top}
  /\ pending' = imports[Top]
  /\ UNCHANGED outcome

Visit ==
  /\ outcome = "running"
  /\ pending # << >>
  /\ Top \notin reachable
  /\ Top \in files
  /\ Top \in Repository
  /\ ~Escapes(Top)
  /\ reachable' = reachable \cup {Top}
  /\ pending' = Popped \o imports[Top]
  /\ UNCHANGED outcome

WalkEnd ==
  /\ outcome = "running"
  /\ pending = << >>
  /\ outcome' = "found"
  /\ UNCHANGED <<pending, reachable>>

WalkNext ==
  /\ VisitAgain \/ ImportMissing \/ ImportEscapes \/ Visit \/ WalkEnd
  /\ UNCHANGED source

WalkSpec ==
  /\ files \subseteq Name
  /\ imports \in [files -> Seq(Name)]
  /\ WalkInit
  /\ [][WalkNext]_<<source, walk>>

-----------------------------------------------------------------------------
(* What the walk is for.                                                   *)

Imported(path) == {imports[path][i] : i \in DOMAIN imports[path]}

(* A set of paths that has the root, and every import of each of its files.*)
Closed(paths) ==
  /\ Root \in paths
  /\ \A path \in paths \cap files : Imported(path) \subseteq paths

(* The walk finds exactly the files that an import chain from the root     *)
(* leads to, whatever cycles the imports form and however often a file is  *)
(* on the stack; it raises only for a name at the end of such a chain.     *)
(* Exactly: the result is closed, and no smaller set of paths is.          *)
WalkFindsTheClosure ==
  /\ outcome = "found" =>
       /\ Closed(reachable)
       /\ reachable \subseteq files \cap Repository
  /\ \A paths \in SUBSET Name : Closed(paths) =>
       /\ reachable \subseteq paths
       /\ outcome = "missing" => paths \ files # {}
       /\ outcome = "escapes" => paths \ Repository # {}
=============================================================================
