----------------------------- MODULE Repository -----------------------------
(***************************************************************************)
(* The git repository that the evidence tools read, and the developer who  *)
(* goes on working in it while a tool runs.  Every `git` command and every *)
(* file read of a tool is one atomic look at this state; between two of    *)
(* them the developer may do anything below.                               *)
(*                                                                         *)
(* The first five commits are the accepted history whose names the tools   *)
(* hold as constants: a source commit measured for the retained evidence,  *)
(* the final gate and the tip of the branch above it, and the squash of    *)
(* that branch on the main line.                                           *)
(***************************************************************************)
EXTENDS Integers, Sequences, FiniteSets

CONSTANTS
  Path,                 \* the files some evidence binds
  Content,              \* what a file can hold, digests being injective
  Absent,               \* no such file
  AcceptedTrees,        \* trees of the source commit and of the squash
  MaxCommits,           \* bound: commits, the five accepted ones included
  MaxTurns              \* bound: steps of the developer

Tree == [Path -> Content \cup {Absent}]

ASSUME RepositoryAssumption ==
  /\ Absent \notin Content
  /\ AcceptedTrees \subseteq Tree \X Tree
  /\ MaxCommits \in Nat
  /\ MaxTurns \in Nat

VARIABLES
  history,              \* the commits made: tree and ancestors
  head,                 \* the commit HEAD names
  work,                 \* the files of the work tree
  untracked,            \* a tool has left its output in the work tree
  turns,                \* steps the developer has left
  undone                \* history: some work has been taken back

repository == <<history, head, work, untracked, turns, undone>>

Base == 1

RetainedSource == 2

FinalGate == 3

PreSquashTip == 4

Squash == 5

Commit == 1 .. Len(history)

TreeOf(commit) == history[commit].tree

Blob(commit, path) == history[commit].tree[path]

(* A commit is its own ancestor, as for `git merge-base --is-ancestor`.    *)
Ancestor(older, newer) == older \in history[newer].ancestors

StatusEmpty == work = TreeOf(head) /\ ~untracked

(* The squash has the tree of the tip and none of the branch's history.    *)
AcceptedHistory(base, source, gate, tip) ==
  << [tree |-> base, ancestors |-> {Base}],
     [tree |-> source, ancestors |-> {Base, RetainedSource}],
     [tree |-> gate, ancestors |-> {Base, RetainedSource, FinalGate}],
     [tree |-> tip, ancestors |-> Base .. PreSquashTip],
     [tree |-> tip, ancestors |-> {Base, Squash}] >>

RepositoryInit ==
  /\ \E trees \in AcceptedTrees :
       history = AcceptedHistory(trees[1], trees[1], trees[2], trees[2])
  /\ head \in {RetainedSource, PreSquashTip, Squash}
  /\ work = TreeOf(head)
  /\ untracked = FALSE
  /\ undone = FALSE

DeveloperTurn ==
  /\ turns > 0
  /\ turns' = turns - 1

Edit(path, content) ==
  /\ DeveloperTurn
  /\ work[path] # content
  /\ work' = [work EXCEPT ![path] = content]
  /\ undone' = (undone \/ content = Blob(head, path))
  /\ UNCHANGED <<history, head, untracked>>

NewCommit(tree, ancestors) ==
  /\ Len(history) < MaxCommits
  /\ head' = Len(history) + 1
  /\ history' = Append(history, [tree |-> tree, ancestors |-> ancestors \cup {head'}])
  /\ work' = tree
  /\ untracked' = FALSE

CommitAll ==
  /\ DeveloperTurn
  /\ ~StatusEmpty
  /\ NewCommit(work, history[head].ancestors)
  /\ UNCHANGED undone

(* A merge that keeps one side's tree.                                     *)
Merge(other) ==
  /\ DeveloperTurn
  /\ StatusEmpty
  /\ ~Ancestor(other, head)
  /\ \E side \in {head, other} :
       NewCommit(TreeOf(side), history[head].ancestors \cup history[other].ancestors)
  /\ UNCHANGED undone

(* `git reset --hard` to a commit, this one or another, and `git clean`: a *)
(* checkout, with every change and every left output thrown away.          *)
Reset(commit) ==
  /\ DeveloperTurn
  /\ commit # head \/ ~StatusEmpty
  /\ head' = commit
  /\ work' = TreeOf(commit)
  /\ untracked' = FALSE
  /\ undone' = TRUE
  /\ UNCHANGED history

(* A tool writes its output to a path of the user's choice.                *)
OutputWritten(insideTree) ==
  /\ untracked' = (untracked \/ insideTree)
  /\ UNCHANGED <<history, head, work, turns, undone>>

Develop ==
  \/ \E path \in Path, content \in Content \cup {Absent} : Edit(path, content)
  \/ CommitAll
  \/ \E commit \in Commit : Merge(commit) \/ Reset(commit)
=============================================================================
