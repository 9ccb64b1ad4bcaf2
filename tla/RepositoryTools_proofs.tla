----------------------- MODULE RepositoryTools_proofs -----------------------
(***************************************************************************)
(* Theorems about the tools that read the repository: the evidence tools   *)
(* with a developer at work beside them, for any files, contents, history, *)
(* benchmarks and number of turns; the import walk of the coverage gate,   *)
(* for any repository and import graph; and the parser and the validators  *)
(* of the coverage map, for any map and any edits of it.                   *)
(***************************************************************************)
EXTENDS EvidenceTools, CoverageGates, FoldInduction

FileContent == Content \cup {Absent}

CommitRecord == [tree : Tree, ancestors : SUBSET Nat]

(* The accepted history stays, and HEAD names a commit.                    *)
HistoryOK ==
  /\ history \in Seq(CommitRecord)
  /\ Len(history) >= Squash
  /\ head \in Commit
  /\ work \in Tree
  /\ undone \in BOOLEAN
  /\ history[FinalGate].ancestors \subseteq Commit

(* What any step, of a tool or of the developer, may do to the repository: *)
(* commits stay as they are, and unless work is taken back HEAD goes       *)
(* nowhere but to a commit just made, and what differs from HEAD goes on   *)
(* differing.                                                              *)
RepositoryStep ==
  /\ \A commit \in Commit : commit \in Commit' /\ history'[commit] = history[commit]
  /\ undone => undone'
  /\ ~undone' =>
       \/ /\ head' = head
          /\ \A path \in Path : work[path] # Blob(head, path) => work'[path] # Blob(head, path)
       \/ head' \notin Commit

LEMMA RepositoryKept ==
  ASSUME HistoryOK, UNCHANGED <<history, head, work, undone>>
  PROVE  HistoryOK' /\ RepositoryStep
BY DEF HistoryOK, RepositoryStep, Commit, Blob

LEMMA NewCommitStep ==
  ASSUME HistoryOK, NEW tree \in Tree, NEW ancestors \in SUBSET Nat,
         NewCommit(tree, ancestors), undone' = undone
  PROVE  HistoryOK' /\ RepositoryStep
<1>1. Len(history) \in Nat /\ 3 \in Commit /\ head' = Len(history) + 1
  BY DEF HistoryOK, Squash, NewCommit, Commit
<1> DEFINE new == [tree |-> tree, ancestors |-> ancestors \cup {Len(history) + 1}]
<1>2. history' = Append(history, new) /\ new \in CommitRecord
  <2>1. history' = Append(history, [tree |-> tree, ancestors |-> ancestors \cup {head'}])
    BY DEF NewCommit
  <2>2. history' = Append(history, new)
    BY <1>1, <2>1
  <2>3. ancestors \cup {Len(history) + 1} \in SUBSET Nat
    <3>1. Len(history) + 1 \in Nat
      BY <1>1
    <3>. QED
      BY <3>1, Zenon
  <2>4. new \in CommitRecord
    BY <2>3 DEF CommitRecord
  <2>. QED
    BY <2>2, <2>4
<1>. HIDE DEF new
<1>3. /\ history' \in Seq(CommitRecord) /\ Len(history') = Len(history) + 1
      /\ \A commit \in Commit : history'[commit] = history[commit]
  BY <1>2 DEF HistoryOK, Commit
<1>4. /\ \A commit \in Commit : commit \in Commit'
      /\ head' \in Commit' /\ head' \notin Commit
  BY <1>1, <1>3 DEF Commit
<1>5. work' \in Tree
  BY DEF NewCommit
<1>6. (history[FinalGate].ancestors \subseteq Commit)'
  BY <1>1, <1>3, <1>4 DEF HistoryOK, FinalGate
<1>7. Len(history') >= Squash
  BY <1>1, <1>3 DEF HistoryOK, Squash
<1>. QED
  BY <1>3, <1>4, <1>5, <1>6, <1>7 DEF HistoryOK, RepositoryStep

LEMMA CommitFacts ==
  ASSUME HistoryOK, NEW commit \in Commit
  PROVE  TreeOf(commit) \in Tree /\ history[commit].ancestors \in SUBSET Nat
<1>1. history[commit] \in CommitRecord
  BY DEF HistoryOK, Commit
<1>. QED
  BY <1>1 DEF CommitRecord, TreeOf

LEMMA DevelopStep ==
  ASSUME HistoryOK, Develop
  PROVE  HistoryOK' /\ RepositoryStep
<1>1. head \in Commit
  BY DEF HistoryOK
<1>2. TreeOf(head) \in Tree /\ history[head].ancestors \in SUBSET Nat
  BY <1>1, CommitFacts
<1>3. ASSUME NEW path \in Path, NEW content \in FileContent, Edit(path, content)
      PROVE  HistoryOK' /\ RepositoryStep
  <2>1. UNCHANGED <<history, head>> /\ work' = [work EXCEPT ![path] = content]
    BY <1>3 DEF Edit
  <2>2. work' \in Tree
    BY <2>1 DEF HistoryOK, Tree, FileContent
  <2>3. undone' \in BOOLEAN /\ (undone => undone')
    BY <1>3 DEF Edit, HistoryOK
  <2>4. ~undone' => content # Blob(head, path)
    BY <1>3 DEF Edit
  <2>5. HistoryOK'
    BY <2>1, <2>2, <2>3 DEF HistoryOK, Commit
  <2>6. ASSUME NEW p \in Path, work[p] # Blob(head, p), ~undone'
        PROVE  work'[p] # Blob(head, p)
    BY <2>1, <2>4, <2>6 DEF HistoryOK, Tree
  <2>. QED
    BY <2>1, <2>3, <2>5, <2>6 DEF RepositoryStep, Commit
<1>4. ASSUME CommitAll
      PROVE  HistoryOK' /\ RepositoryStep
  BY <1>2, <1>4, NewCommitStep DEF CommitAll, HistoryOK
<1>5. ASSUME NEW other \in Commit, Merge(other)
      PROVE  HistoryOK' /\ RepositoryStep
  <2>1. TreeOf(other) \in Tree /\ history[other].ancestors \in SUBSET Nat
    BY CommitFacts
  <2>2. PICK side \in {head, other} :
          NewCommit(TreeOf(side), history[head].ancestors \cup history[other].ancestors)
    BY <1>5 DEF Merge
  <2>3. TreeOf(side) \in Tree
    BY <1>2, <2>1
  <2>. QED
    BY <1>2, <1>5, <2>1, <2>2, <2>3, NewCommitStep DEF Merge
<1>6. ASSUME NEW commit \in Commit, Reset(commit)
      PROVE  HistoryOK' /\ RepositoryStep
  <2>1. TreeOf(commit) \in Tree
    BY CommitFacts
  <2>. QED
    BY <1>6, <2>1 DEF Reset, HistoryOK, RepositoryStep, Commit
<1>. QED
  BY <1>3, <1>4, <1>5, <1>6 DEF Develop, FileContent

(* The three ways a step can go: the developer's, which leaves the tools   *)
(* alone, and that of a tool or of whoever edits its output.               *)
LEMMA StepOfRepository ==
  ASSUME HistoryOK, [Next]_vars
  PROVE  HistoryOK' /\ RepositoryStep
<1>1. CASE Develop
  BY <1>1, DevelopStep
<1>2. CASE UNCHANGED vars
  BY <1>2, RepositoryKept DEF vars, repository
<1>3. CASE M2Capture \/ M2Validate \/ M2Forge
  BY <1>3, RepositoryKept
     DEF M2Capture, M2Validate, M2Forge, repository, OutputWritten
<1>4. CASE FuzzWrite \/ FuzzValidate
  BY <1>4, RepositoryKept DEF FuzzWrite, FuzzValidate, repository, OutputWritten
<1>5. CASE M3Gate \/ M3Validate \/ M3SelfTest \/ M3Forge
  BY <1>5, RepositoryKept
     DEF M3Gate, M3Validate, M3SelfTest, M3Forge, repository, OutputWritten
<1>. QED
  BY <1>1, <1>2, <1>3, <1>4, <1>5 DEF Next

LEMMA HistoryInit == Init => HistoryOK
<1> SUFFICES ASSUME Init PROVE HistoryOK
  OBVIOUS
<1>1. PICK trees \in AcceptedTrees :
        history = AcceptedHistory(trees[1], trees[1], trees[2], trees[2])
  BY DEF Init, RepositoryInit
<1>2. trees[1] \in Tree /\ trees[2] \in Tree
  BY RepositoryAssumption
<1>3. /\ history \in Seq(CommitRecord) /\ Len(history) = 5
      /\ history[3].ancestors = {1, 2, 3}
  BY <1>1, <1>2
     DEF AcceptedHistory, CommitRecord, Base, RetainedSource, FinalGate,
         PreSquashTip, Squash
<1>4. head \in Commit
  BY <1>3 DEF Init, RepositoryInit, Commit, RetainedSource, PreSquashTip, Squash
<1>5. work \in Tree /\ undone \in BOOLEAN
  <2>1. head \in 1 .. Len(history)
    BY <1>4 DEF Commit
  <2>2. history[head] \in CommitRecord
    BY <1>3, <2>1, ElementOfSeq
  <2>. QED
    BY <2>2 DEF Init, RepositoryInit, TreeOf, CommitRecord
<1>. QED
  BY <1>3, <1>4, <1>5 DEF HistoryOK, Commit, FinalGate, Squash

-----------------------------------------------------------------------------
(* The benchmark gate and the retained evidence of M3.                     *)

M3Shape ==
  m3 = [at |-> m3.at, retain |-> m3.retain, commit |-> m3.commit, raw |-> m3.raw,
        measured |-> m3.measured, read |-> m3.read, forgery |-> m3.forgery,
        evidence |-> m3.evidence]

BeginOK == m3.at = "gate commit" => m3.read = 0 /\ m3.measured = {}

(* Whatever was measured differs from HEAD only if the work tree still does.*)
LaunchOK ==
  m3.at = "launch" =>
    /\ m3.commit \in Commit
    /\ m3.read \in Nat
    /\ m3.read # 0 => m3.measured # {}
    /\ ~undone /\ head = m3.commit =>
         m3.measured \subseteq {Bytes(TreeOf(m3.commit))} \/ work # TreeOf(head)

MeasuredItsCommit == m3.measured = {Bytes(TreeOf(m3.commit))}

(* HEAD may have moved since it was read, in which case the gate will fail. *)
GenerateOK ==
  m3.at \in {"generate", "write", "fresh head", "fresh tree", "gate recheck commit"} =>
    /\ m3.commit \in Commit
    /\ ~undone /\ head = m3.commit =>
         /\ MeasuredItsCommit
         /\ m3.at # "generate" => m3.evidence.commit = m3.commit

RecheckOK ==
  m3.at \in {"gate recheck status", "passed"} =>
    /\ m3.commit \in Commit
    /\ ~undone => MeasuredItsCommit /\ m3.evidence.commit = m3.commit

(* What the bridge has found stays true: commits never change.             *)
RetainedOK ==
  m3.at \in {"retained environment", "retained sources", "validated"} =>
    /\ m3.evidence.commit = RetainedSource
    /\ HashesMatch(m3.evidence, Bytes(TreeOf(RetainedSource)))

M3Inv == M3Shape /\ BeginOK /\ LaunchOK /\ GenerateOK /\ RecheckOK /\ RetainedOK

LEMMA AcceptedCommits ==
  ASSUME HistoryOK
  PROVE  {Base, RetainedSource, FinalGate, PreSquashTip, Squash} \subseteq Commit
BY DEF HistoryOK, Commit, Base, RetainedSource, FinalGate, PreSquashTip, Squash

LEMMA CommitKept ==
  ASSUME RepositoryStep, NEW commit \in Commit
  PROVE  /\ commit \in Commit'
         /\ TreeOf(commit)' = TreeOf(commit)
         /\ Bytes(TreeOf(commit))' = Bytes(TreeOf(commit))
         /\ history'[commit].ancestors = history[commit].ancestors
BY DEF RepositoryStep, TreeOf, Bytes

(* Unless work is taken back, the work tree goes on differing from HEAD.   *)
LEMMA DifferenceKept ==
  ASSUME HistoryOK, HistoryOK', RepositoryStep, ~undone', head' = head,
         work # TreeOf(head)
  PROVE  (work # TreeOf(head))'
<1>1. head \in Commit /\ work \in Tree /\ work' \in Tree
  BY DEF HistoryOK
<1>2. TreeOf(head) \in Tree /\ TreeOf(head)' = TreeOf(head)
  BY <1>1, CommitFacts, CommitKept
<1>3. PICK path \in Path : work[path] # TreeOf(head)[path]
  BY <1>1, <1>2 DEF Tree
<1>4. head' \in Commit
  BY <1>1
<1>5. \A p \in Path : work[p] # Blob(head, p) => work'[p] # Blob(head, p)
  BY <1>4 DEF RepositoryStep
<1>6. work'[path] # TreeOf(head)[path]
  BY <1>3, <1>5 DEF Blob, TreeOf
<1>. QED
  BY <1>2, <1>6

(* A step of the developer, or of another tool.                            *)
LEMMA M3Kept ==
  ASSUME HistoryOK, HistoryOK', RepositoryStep, M3Inv, m3' = m3
  PROVE  M3Inv'
<1>1. M3Shape' /\ BeginOK'
  BY DEF M3Inv, M3Shape, BeginOK
<1>2. ASSUME m3.commit \in Commit
      PROVE  /\ m3.commit \in Commit'
             /\ Bytes(TreeOf(m3.commit))' = Bytes(TreeOf(m3.commit))
  <2> DEFINE commit == m3.commit
  <2>1. commit \in Commit /\ commit' = commit
    BY <1>2
  <2>. HIDE DEF commit
  <2>2. /\ commit \in Commit' /\ history'[commit] = history[commit]
    BY <2>1 DEF RepositoryStep
  <2>3. Bytes(TreeOf(commit))' = Bytes(TreeOf(commit))
    BY <2>1, <2>2 DEF Bytes, TreeOf
  <2>. QED
    BY <2>2, <2>3 DEF commit
<1>3. ASSUME m3.commit \in Commit, (~undone /\ head = m3.commit)'
      PROVE  ~undone /\ head = m3.commit /\ head' = head
  BY <1>3 DEF RepositoryStep
<1>4. LaunchOK'
  <2> SUFFICES ASSUME (m3.at = "launch")'
               PROVE  /\ m3.commit \in Commit'
                      /\ m3.read \in Nat /\ (m3.read # 0 => m3.measured # {})
                      /\ (~undone /\ head = m3.commit)' =>
                            \/ m3.measured \subseteq {Bytes(TreeOf(m3.commit))'}
                            \/ (work # TreeOf(head))'
    BY DEF LaunchOK
  <2>1. LaunchOK /\ m3.at = "launch"
    BY DEF M3Inv
  <2>2. /\ m3.commit \in Commit /\ m3.read \in Nat /\ (m3.read # 0 => m3.measured # {})
        /\ ~undone /\ head = m3.commit =>
              m3.measured \subseteq {Bytes(TreeOf(m3.commit))} \/ work # TreeOf(head)
    BY <2>1 DEF LaunchOK
  <2>3. ASSUME (~undone /\ head = m3.commit)'
        PROVE  \/ m3.measured \subseteq {Bytes(TreeOf(m3.commit))'}
               \/ (work # TreeOf(head))'
    <3>1. ~undone /\ head = m3.commit /\ head' = head
      BY <1>3, <2>2, <2>3
    <3>2. CASE m3.measured \subseteq {Bytes(TreeOf(m3.commit))}
      BY <1>2, <2>2, <3>2
    <3>3. CASE work # TreeOf(head)
      BY <2>3, <3>1, <3>3, DifferenceKept
    <3>. QED
      BY <2>2, <3>1, <3>2, <3>3
  <2>. QED
    BY <1>2, <2>2, <2>3
<1>5. GenerateOK'
  BY <1>2, <1>3 DEF M3Inv, GenerateOK, MeasuredItsCommit
<1>6. RecheckOK'
  <2>1. undone => undone'
    BY DEF RepositoryStep
  <2>. QED
    BY <1>2, <2>1 DEF M3Inv, RecheckOK, MeasuredItsCommit
<1>7. RetainedOK'
  <2>1. RetainedSource \in Commit
    BY AcceptedCommits
  <2>2. Bytes(TreeOf(RetainedSource))' = Bytes(TreeOf(RetainedSource))
    BY <2>1, CommitKept
  <2>3. RetainedOK
    BY DEF M3Inv
  <2>. QED
    BY <2>2, <2>3 DEF RetainedOK, HashesMatch, RetainedSource
<1>. QED
  BY <1>1, <1>4, <1>5, <1>6, <1>7 DEF M3Inv

(* Where a self test can be or end.                                        *)
M3SelfTesting ==
  {"idle", "test failed", "self sources", "self retained",
   "control head", "control tree", "control environment", "control sources"}

(* Where the program is when none of this is at stake.                     *)
M3Elsewhere == M3SelfTesting \cup {"retained bridge"}

LEMMA M3ElsewhereInv ==
  ASSUME M3Shape', m3'.at \in M3Elsewhere
  PROVE  M3Inv'
BY DEF M3Inv, M3Elsewhere, M3SelfTesting, BeginOK, LaunchOK, GenerateOK, RecheckOK, RetainedOK

LEMMA M3IdleInv ==
  ASSUME m3' = M3Idle
  PROVE  M3Inv'
<1>1. M3Shape' /\ m3'.at \in M3Elsewhere
  BY DEF M3Idle, M3Shape, M3Elsewhere, M3SelfTesting
<1>. QED
  BY <1>1, M3ElsewhereInv

(* The step of a check that fails, or the one it lets through.             *)
LEMMA M3Checked ==
  ASSUME NEW check, NEW next, M3Continue(check, next)
  PROVE  M3Inv' \/ (check /\ m3' = next)
BY M3IdleInv DEF M3Continue

(* The fields after a step to another place.                               *)
LEMMA M3ToFields ==
  ASSUME M3Shape, NEW at, m3' = M3To(at)
  PROVE  /\ M3Shape'
         /\ m3'.at = at /\ m3'.commit = m3.commit /\ m3'.evidence = m3.evidence
         /\ m3'.measured = m3.measured /\ m3'.read = m3.read
BY DEF M3Shape, M3To

(* Nothing is moved but the program: what commits hold is what they held.  *)
LEMMA StillRepository ==
  ASSUME UNCHANGED <<history, head, work, undone>>
  PROVE  /\ Commit' = Commit
         /\ \A commit : /\ TreeOf(commit)' = TreeOf(commit)
                        /\ Bytes(TreeOf(commit))' = Bytes(TreeOf(commit))
         /\ StatusEmpty => work = TreeOf(head)
BY DEF Commit, TreeOf, Bytes, StatusEmpty

LEMMA GateBeginInv ==
  ASSUME M3Inv, M3GateBegin
  PROVE  M3Inv'
<1>1. PICK retain \in BOOLEAN :
        M3Continue(StatusEmpty, [M3Idle EXCEPT !.at = "gate commit", !.retain = retain])
  BY DEF M3GateBegin
<1>2. SUFFICES ASSUME m3' = [M3Idle EXCEPT !.at = "gate commit", !.retain = retain]
               PROVE  M3Inv'
  BY <1>1, M3Checked
<1>3. m3'.at = "gate commit" /\ m3'.read = 0 /\ m3'.measured = {}
  BY <1>2 DEF M3Idle
<1>4. M3Shape'
  BY <1>2 DEF M3Idle, M3Shape
<1>. QED
  BY <1>3, <1>4 DEF M3Inv, BeginOK, LaunchOK, GenerateOK, RecheckOK, RetainedOK

LEMMA GateReadCommitInv ==
  ASSUME HistoryOK, M3Inv, M3GateReadCommit, UNCHANGED <<history, head, work, undone>>
  PROVE  M3Inv'
<1>1. m3.read = 0 /\ m3.measured = {}
  BY DEF M3Inv, BeginOK, M3GateReadCommit
<1>2. m3' = [M3To("launch") EXCEPT !.commit = head]
  BY DEF M3GateReadCommit
<1>3. /\ M3Shape' /\ m3'.at = "launch" /\ m3'.commit = head
      /\ m3'.read = m3.read /\ m3'.measured = m3.measured
  BY <1>2 DEF M3Inv, M3Shape, M3To
<1>4. LaunchOK'
  BY <1>1, <1>3 DEF LaunchOK, HistoryOK, Commit
<1>. QED
  BY <1>3, <1>4 DEF M3Inv, BeginOK, GenerateOK, RecheckOK, RetainedOK

LEMMA LaunchInv ==
  ASSUME HistoryOK, M3Inv, M3Launch, UNCHANGED <<history, head, work, undone>>
  PROVE  M3Inv'
<1>1. PICK output \in M3Launches[m3.read + 1] :
        M3Continue(output # << >>,
                   [m3 EXCEPT !.read = @ + 1, !.raw = @ \o output,
                              !.measured = @ \cup {Bytes(work)}])
  BY DEF M3Launch
<1>2. SUFFICES ASSUME m3' = [m3 EXCEPT !.read = @ + 1, !.raw = @ \o output,
                                       !.measured = @ \cup {Bytes(work)}]
               PROVE  M3Inv'
  BY <1>1, M3Checked
<1>3. /\ M3Shape' /\ m3'.at = m3.at /\ m3'.commit = m3.commit
      /\ m3'.read = m3.read + 1 /\ m3'.measured = m3.measured \cup {Bytes(work)}
  BY <1>2 DEF M3Inv, M3Shape
<1>4. m3.at = "launch" /\ LaunchOK
  BY DEF M3Launch, M3Inv
<1>5. /\ m3.commit \in Commit /\ m3.read \in Nat
      /\ ~undone /\ head = m3.commit =>
           m3.measured \subseteq {Bytes(TreeOf(m3.commit))} \/ work # TreeOf(head)
  BY <1>4 DEF LaunchOK
<1>6. m3'.commit \in Commit' /\ m3'.read \in Nat /\ m3'.measured # {}
  BY <1>3, <1>5, StillRepository
<1>7. ASSUME ~undone, head = m3.commit, work = TreeOf(head)
      PROVE  m3'.measured \subseteq {Bytes(TreeOf(m3.commit))}
  BY <1>3, <1>5, <1>7
<1>8. LaunchOK'
  <2>1. TreeOf(head)' = TreeOf(head) /\ Bytes(TreeOf(m3.commit))' = Bytes(TreeOf(m3.commit))
    BY <1>3 DEF TreeOf, Bytes
  <2>. QED
    BY <1>3, <1>6, <1>7, <2>1 DEF LaunchOK
<1>. QED
  BY <1>3, <1>4, <1>8 DEF M3Inv, BeginOK, GenerateOK, RecheckOK, RetainedOK

LEMMA GenerateBeginInv ==
  ASSUME HistoryOK, M3Inv, M3GenerateBegin, UNCHANGED <<history, head, work, undone>>
  PROVE  M3Inv'
<1>1. SUFFICES ASSUME StatusEmpty, m3' = [M3To("generate") EXCEPT !.read = 0]
               PROVE  M3Inv'
  BY M3Checked DEF M3GenerateBegin
<1>2. /\ M3Shape' /\ m3'.at = "generate" /\ m3'.commit = m3.commit
      /\ m3'.measured = m3.measured
  BY <1>1 DEF M3Inv, M3Shape, M3To
<1>3. m3.at = "launch" /\ LaunchOK /\ m3.read # 0
  BY RawSamplesAssumption DEF M3GenerateBegin, M3Inv
<1>4. /\ m3.commit \in Commit /\ m3.measured # {}
      /\ ~undone /\ head = m3.commit => m3.measured \subseteq {Bytes(TreeOf(m3.commit))}
  BY <1>1, <1>3 DEF LaunchOK, StatusEmpty
<1>5. ~undone /\ head = m3.commit => MeasuredItsCommit
  BY <1>4 DEF MeasuredItsCommit
<1>6. GenerateOK'
  <2>1. Bytes(TreeOf(m3.commit))' = Bytes(TreeOf(m3.commit)) /\ Commit' = Commit
    BY <1>2 DEF TreeOf, Bytes, Commit
  <2>. QED
    BY <1>2, <1>4, <1>5, <2>1 DEF GenerateOK, MeasuredItsCommit
<1>. QED
  BY <1>2, <1>6 DEF M3Inv, BeginOK, LaunchOK, RecheckOK, RetainedOK

(* The document that generate makes.                                       *)
Generated ==
  [Binding(DocumentFor(m3.raw, head), Bytes(TreeOf(head))) EXCEPT
     !.measured = IF undone THEN {} ELSE m3.measured]

LEMMA GeneratedFields ==
  /\ Generated.commit = head /\ Generated.raw = m3.raw
  /\ Generated.measured = IF undone THEN {} ELSE m3.measured
BY DEF Generated, Binding, DocumentFor

LEMMA GenerateDocumentInv ==
  ASSUME HistoryOK, M3Inv, M3GenerateDocument, UNCHANGED <<history, head, work, undone>>
  PROVE  M3Inv'
<1>1. SUFFICES ASSUME m3' = [M3To("write") EXCEPT !.evidence = Generated]
               PROVE  M3Inv'
  BY M3Checked DEF M3GenerateDocument, Generated
<1>2. /\ M3Shape' /\ m3'.at = "write" /\ m3'.commit = m3.commit
      /\ m3'.measured = m3.measured
      /\ m3'.evidence = Generated
  BY <1>1 DEF M3Inv, M3Shape, M3To
<1>3. m3'.evidence.commit = head
  BY <1>2, GeneratedFields
<1>4. m3.at = "generate" /\ GenerateOK
  BY DEF M3GenerateDocument, M3Inv
<1>5. /\ m3.commit \in Commit
      /\ ~undone /\ head = m3.commit => MeasuredItsCommit
  BY <1>4 DEF GenerateOK
<1>6. GenerateOK'
  <2>1. Bytes(TreeOf(m3.commit))' = Bytes(TreeOf(m3.commit)) /\ Commit' = Commit
    BY <1>2 DEF TreeOf, Bytes, Commit
  <2>. QED
    BY <1>2, <1>3, <1>5, <2>1 DEF GenerateOK, MeasuredItsCommit
<1>. QED
  BY <1>2, <1>6 DEF M3Inv, BeginOK, LaunchOK, RecheckOK, RetainedOK

(* The evidence and what was measured stay while they are checked.         *)
LEMMA GateChecksInv ==
  ASSUME HistoryOK, M3Inv, UNCHANGED <<history, head, work, undone>>,
         M3WriteDocument \/ M3FreshHead \/ M3FreshTree
  PROVE  M3Inv'
<1>1. m3.at \in {"write", "fresh head", "fresh tree"} /\ GenerateOK
  BY DEF M3WriteDocument, M3FreshHead, M3FreshTree, M3Inv
<1>2. SUFFICES ASSUME M3Shape', m3'.commit = m3.commit, m3'.evidence = m3.evidence,
                      m3'.measured = m3.measured,
                      m3'.at \in {"fresh head", "fresh tree", "gate recheck commit"}
               PROVE  M3Inv'
  <2>1. CASE M3WriteDocument
    BY <1>2, <2>1, M3ToFields DEF M3WriteDocument, M3Inv
  <2>2. CASE M3FreshHead
    <3>1. M3Inv' \/ m3' = [M3To("fresh tree") EXCEPT !.read = head]
      BY <2>2, M3Checked DEF M3FreshHead
    <3>2. ASSUME m3' = [M3To("fresh tree") EXCEPT !.read = head]
          PROVE  /\ M3Shape' /\ m3'.at = "fresh tree" /\ m3'.commit = m3.commit
                 /\ m3'.evidence = m3.evidence /\ m3'.measured = m3.measured
      BY <3>2 DEF M3Inv, M3Shape, M3To
    <3>. QED
      BY <1>2, <3>1, <3>2
  <2>3. CASE M3FreshTree
    <3>1. M3Inv' \/ m3' = M3To("gate recheck commit")
      BY <2>3, M3Checked DEF M3FreshTree
    <3>. QED
      BY <1>2, <3>1, M3ToFields DEF M3Inv
  <2>. QED
    BY <2>1, <2>2, <2>3
<1>3. GenerateOK'
  <2>1. Bytes(TreeOf(m3.commit))' = Bytes(TreeOf(m3.commit)) /\ Commit' = Commit
    BY <1>2 DEF TreeOf, Bytes, Commit
  <2>. QED
    BY <1>1, <1>2, <2>1 DEF GenerateOK, MeasuredItsCommit
<1>. QED
  BY <1>2, <1>3 DEF M3Inv, BeginOK, LaunchOK, RecheckOK, RetainedOK

LEMMA GateRechecksInv ==
  ASSUME HistoryOK, M3Inv, UNCHANGED <<history, head, work, undone>>,
         M3GateRecheckCommit \/ M3GateRecheckStatus
  PROVE  M3Inv'
<1>1. CASE M3GateRecheckCommit
  <2>1. SUFFICES ASSUME head = m3.commit, NEW at \in {"passed", "gate recheck status"},
                        m3' = M3To(at)
                 PROVE  M3Inv'
    BY <1>1, M3Checked DEF M3GateRecheckCommit
  <2>2. m3.at = "gate recheck commit" /\ GenerateOK
    BY <1>1 DEF M3GateRecheckCommit, M3Inv
  <2>3. /\ M3Shape' /\ m3'.at = at /\ m3'.commit = m3.commit
        /\ m3'.evidence = m3.evidence /\ m3'.measured = m3.measured
    BY <2>1, M3ToFields DEF M3Inv
  <2>4. Bytes(TreeOf(m3.commit))' = Bytes(TreeOf(m3.commit)) /\ Commit' = Commit
    BY <2>3 DEF TreeOf, Bytes, Commit
  <2>5. RecheckOK'
    BY <2>1, <2>2, <2>3, <2>4 DEF GenerateOK, RecheckOK, MeasuredItsCommit
  <2>. QED
    BY <2>3, <2>5 DEF M3Inv, BeginOK, LaunchOK, GenerateOK, RetainedOK
<1>2. CASE M3GateRecheckStatus
  <2>1. SUFFICES ASSUME m3' = M3To("passed")
                 PROVE  M3Inv'
    BY <1>2, M3Checked DEF M3GateRecheckStatus
  <2>2. m3.at = "gate recheck status" /\ RecheckOK
    BY <1>2 DEF M3GateRecheckStatus, M3Inv
  <2>3. /\ M3Shape' /\ m3'.at = "passed" /\ m3'.commit = m3.commit
        /\ m3'.evidence = m3.evidence /\ m3'.measured = m3.measured
    BY <2>1, M3ToFields DEF M3Inv
  <2>4. Bytes(TreeOf(m3.commit))' = Bytes(TreeOf(m3.commit)) /\ Commit' = Commit
    BY <2>3 DEF TreeOf, Bytes, Commit
  <2>5. RecheckOK'
    BY <2>2, <2>3, <2>4 DEF RecheckOK, MeasuredItsCommit
  <2>. QED
    BY <2>3, <2>5 DEF M3Inv, BeginOK, LaunchOK, GenerateOK, RetainedOK
<1>. QED
  BY <1>1, <1>2

LEMMA RetainedBridgeInv ==
  ASSUME HistoryOK, M3Inv, UNCHANGED <<history, head, work, undone>>, M3RetainedBridge
  PROVE  M3Inv'
<1>1. SUFFICES ASSUME RetainedBridge(m3.evidence), HashesAtAnchors(m3.evidence),
                      m3' = [M3To("retained environment") EXCEPT !.commit = head]
               PROVE  M3Inv'
  BY M3Checked DEF M3RetainedBridge
<1>2. /\ M3Shape' /\ m3'.at = "retained environment" /\ m3'.evidence = m3.evidence
  BY <1>1 DEF M3Inv, M3Shape, M3To
<1>3. m3.evidence.commit = RetainedSource
  BY <1>1 DEF RetainedBridge
<1>4. HashesMatch(m3.evidence, Bytes(TreeOf(RetainedSource)))
  BY <1>1, <1>3 DEF HashesAtAnchors
<1>5. RetainedOK'
  <2>1. Bytes(TreeOf(RetainedSource))' = Bytes(TreeOf(RetainedSource))
    BY DEF Bytes, TreeOf, RetainedSource
  <2>. QED
    BY <1>2, <1>3, <1>4, <2>1 DEF RetainedOK, HashesMatch, RetainedSource
<1>. QED
  BY <1>2, <1>5 DEF M3Inv, BeginOK, LaunchOK, GenerateOK, RecheckOK

(* Nor does the rest of a validation change what it validates.             *)
LEMMA RetainedChecksInv ==
  ASSUME HistoryOK, M3Inv, UNCHANGED <<history, head, work, undone>>,
         M3RetainedEnvironment \/ M3RetainedSource \/ M3RetainedSamples
  PROVE  M3Inv'
<1>1. m3.at \in {"retained environment", "retained sources"} /\ RetainedOK
  BY DEF M3RetainedEnvironment, M3RetainedSource, M3RetainedSamples, M3Inv
<1>2. SUFFICES ASSUME M3Shape', m3'.commit = m3.commit, m3'.evidence = m3.evidence,
                      m3'.at \in {"retained sources", "validated"}
               PROVE  M3Inv'
  <2>1. CASE M3RetainedEnvironment
    <3>1. M3Inv' \/ m3' = M3To("retained sources")
      BY <2>1, M3Checked DEF M3RetainedEnvironment
    <3>. QED
      BY <1>2, <3>1, M3ToFields DEF M3Inv
  <2>2. CASE M3RetainedSource
    <3>1. M3Inv' \/ m3' = [m3 EXCEPT !.read = @ + 1]
      BY <2>2, M3Checked DEF M3RetainedSource
    <3>2. ASSUME m3' = [m3 EXCEPT !.read = @ + 1]
          PROVE  /\ M3Shape' /\ m3'.at = m3.at /\ m3'.commit = m3.commit
                 /\ m3'.evidence = m3.evidence
      BY <3>2 DEF M3Inv, M3Shape
    <3>. QED
      BY <1>2, <2>2, <3>1, <3>2 DEF M3RetainedSource
  <2>3. CASE M3RetainedSamples
    <3>1. M3Inv' \/ m3' = M3To("validated")
      BY <2>3, M3Checked DEF M3RetainedSamples
    <3>. QED
      BY <1>2, <3>1, M3ToFields DEF M3Inv
  <2>. QED
    BY <2>1, <2>2, <2>3
<1>3. RetainedOK'
  <2>1. Bytes(TreeOf(RetainedSource))' = Bytes(TreeOf(RetainedSource))
    BY DEF Bytes, TreeOf, RetainedSource
  <2>. QED
    BY <1>1, <1>2, <2>1 DEF RetainedOK, HashesMatch, RetainedSource
<1>. QED
  BY <1>2, <1>3 DEF M3Inv, BeginOK, LaunchOK, GenerateOK, RecheckOK

LEMMA ValidateBeginInv ==
  ASSUME M3ValidateBegin
  PROVE  M3Inv'
<1>1. SUFFICES ASSUME m3' = [M3Idle EXCEPT !.at = "retained bridge", !.evidence = m3Artifact]
               PROVE  M3Inv'
  BY M3Checked DEF M3ValidateBegin
<1>2. M3Shape' /\ m3'.at \in M3Elsewhere
  BY <1>1 DEF M3Idle, M3Shape, M3Elsewhere
<1>. QED
  BY <1>2, M3ElsewhereInv

(* A control ends in the next one, or it ends the self test.               *)
LEMMA VerdictFields ==
  ASSUME M3Shape, m3.at \in M3SelfTesting, NEW accepted, M3Verdict(accepted)
  PROVE  M3Shape' /\ m3'.at \in M3SelfTesting /\ m3'.raw \in {<< >>, m3.raw}
<1>1. \/ m3' = [M3To("control head") EXCEPT !.forgery = @ + 1, !.read = 0]
      \/ m3' = M3Idle
      \/ m3' = M3To("self retained")
      \/ m3' = M3To("test failed")
  BY DEF M3Verdict, NextControl
<1>2. CASE m3' = [M3To("control head") EXCEPT !.forgery = @ + 1, !.read = 0]
  <2> DEFINE forgery == m3.forgery + 1
  <2>1. m3' = [M3To("control head") EXCEPT !.forgery = forgery, !.read = 0]
    BY <1>2 DEF M3To, M3Shape
  <2>. HIDE DEF forgery
  <2>. QED
    BY <2>1 DEF M3To, M3Shape, M3SelfTesting
<1>3. CASE m3' = M3Idle
  BY <1>3 DEF M3Idle, M3Shape, M3SelfTesting
<1>4. ASSUME NEW at \in {"self retained", "test failed"}, m3' = M3To(at)
      PROVE  M3Shape' /\ m3'.at = at /\ m3'.raw = m3.raw
  BY <1>4 DEF M3To, M3Shape
<1>. QED
  BY <1>1, <1>2, <1>3, <1>4 DEF M3SelfTesting

(* Wherever the self test goes, it measures nothing.                       *)
LEMMA SelfTestFields ==
  ASSUME M3Shape, M3SelfTest
  PROVE  M3Shape' /\ m3'.at \in M3SelfTesting /\ m3'.raw \in {<< >>, m3.raw}
<1> DEFINE Goal == M3Shape' /\ m3'.at \in M3SelfTesting /\ m3'.raw \in {<< >>, m3.raw}
<1>1. m3' = M3Idle => Goal
  BY DEF M3Idle, M3Shape, M3SelfTesting
<1>2. ASSUME M3SelfTestBegin \/ M3SelfTestSource \/ M3SelfTestEnvironment \/ M3SelfTestRetained
      PROVE  Goal
  <2> DEFINE path == M3Sources[Len(m3.evidence.sources) + 1]
  <2>1. \/ m3' = M3Idle
        \/ m3' = [M3Idle EXCEPT !.at = "self sources",
                                !.evidence = DocumentFor(SyntheticRaw, head)]
        \/ /\ m3.at = "self sources"
           /\ m3' = [m3 EXCEPT !.evidence.sources = Append(@, <<path, work[path]>>)]
        \/ m3' = [M3To("control head") EXCEPT !.evidence.environment = work[M3Environment]]
        \/ m3' = [M3Idle EXCEPT !.at = "control head", !.retain = TRUE, !.evidence = m3Artifact]
    BY <1>2 DEF M3SelfTestBegin, M3SelfTestSource, M3SelfTestEnvironment, M3SelfTestRetained,
                M3Continue
  <2>. HIDE DEF path
  <2>2. CASE m3' = [M3To("control head") EXCEPT !.evidence.environment = work[M3Environment]]
    BY <2>2 DEF M3To, M3Shape, M3SelfTesting
  <2>. QED
    BY <1>1, <2>1, <2>2 DEF M3Idle, M3Shape, M3SelfTesting
<1>3. ASSUME NEW check, NEW next, M3Check(check, next), m3.at \in M3SelfTesting,
             m3' = next => Goal
      PROVE  Goal
  BY <1>3, VerdictFields DEF M3Check
<1>4. CASE M3ControlHead
  <2>1. m3.at \in M3SelfTesting
    BY <1>4 DEF M3ControlHead, M3SelfTesting
  <2>2. ASSUME NEW at \in {"control environment", "control tree"},
               m3' = [M3To(at) EXCEPT !.commit = head]
        PROVE  Goal
    BY <2>2 DEF M3To, M3Shape, M3SelfTesting
  <2>. QED
    BY <1>3, <1>4, <2>1, <2>2 DEF M3ControlHead
<1>5. CASE M3ControlTree
  <2>1. m3.at \in M3SelfTesting
    BY <1>5 DEF M3ControlTree, M3SelfTesting
  <2>2. m3' = M3To("control environment") => Goal
    BY DEF M3To, M3Shape, M3SelfTesting
  <2>. QED
    BY <1>3, <1>5, <2>1, <2>2 DEF M3ControlTree
<1>6. CASE M3ControlEnvironment
  <2>1. m3.at \in M3SelfTesting
    BY <1>6 DEF M3ControlEnvironment, M3SelfTesting
  <2>2. m3' = M3To("control sources") => Goal
    BY DEF M3To, M3Shape, M3SelfTesting
  <2>. QED
    BY <1>1, <1>3, <1>6, <2>1, <2>2 DEF M3ControlEnvironment
<1>7. CASE M3ControlSource
  <2>1. m3.at \in M3SelfTesting
    BY <1>7 DEF M3ControlSource, M3SelfTesting
  <2>2. m3' = [m3 EXCEPT !.read = @ + 1] => Goal
    BY <2>1 DEF M3Shape
  <2>. QED
    BY <1>1, <1>3, <1>7, <2>1, <2>2 DEF M3ControlSource
<1>8. CASE M3ControlSamples
  BY <1>8, VerdictFields DEF M3ControlSamples, M3SelfTesting
<1>. QED
  BY <1>2, <1>4, <1>5, <1>6, <1>7, <1>8 DEF M3SelfTest

LEMMA SelfTestInv ==
  ASSUME M3Inv, M3SelfTest
  PROVE  M3Inv'
BY SelfTestFields, M3ElsewhereInv DEF M3Inv, M3Elsewhere

LEMMA M3InitInv == Init => M3Inv
BY DEF Init, M3Init, M3Idle, M3Inv, M3Shape, BeginOK, LaunchOK, GenerateOK,
       RecheckOK, RetainedOK

LEMMA M3StepInv ==
  ASSUME HistoryOK, M3Inv, [Next]_vars
  PROVE  M3Inv'
<1>0. HistoryOK' /\ RepositoryStep
  BY StepOfRepository
<1>1. CASE m3' = m3
  BY <1>0, <1>1, M3Kept
<1>2. CASE m3' # m3
  <2>1. M3Gate \/ M3Validate \/ M3SelfTest
    BY <1>2 DEF Next, vars, m3Vars, M3Forge
  <2>2. UNCHANGED <<history, head, work, undone>>
    BY <2>1 DEF M3Gate, M3Validate, M3SelfTest, repository, OutputWritten
  <2>3. CASE M3Gate
    BY <2>2, <2>3, GateBeginInv, GateReadCommitInv, LaunchInv, GenerateBeginInv,
       GenerateDocumentInv, GateChecksInv, GateRechecksInv DEF M3Gate
  <2>4. CASE M3Validate
    BY <2>2, <2>4, ValidateBeginInv, RetainedBridgeInv, RetainedChecksInv DEF M3Validate
  <2>5. CASE M3SelfTest
    BY <2>5, SelfTestInv
  <2>. QED
    BY <2>1, <2>3, <2>4, <2>5
<1>. QED
  BY <1>1, <1>2

(* Whatever the developer edits, commits, merges or checks out while the   *)
(* gate runs, the evidence it ends with names the commit it began with,    *)
(* and every launch was built from the bytes of that commit, unless work   *)
(* was taken back in between.                                              *)
THEOREM GateCorrect == Spec => []GateMeasuresItsCommit
<1>1. Init => HistoryOK /\ M3Inv
  BY HistoryInit, M3InitInv
<1>2. HistoryOK /\ M3Inv /\ [Next]_vars => (HistoryOK /\ M3Inv)'
  BY StepOfRepository, M3StepInv
<1>3. HistoryOK /\ M3Inv => GateMeasuresItsCommit
  BY DEF M3Inv, RecheckOK, MeasuredItsCommit, GateMeasuresItsCommit
<1>. QED
  BY <1>1, <1>2, <1>3, PTL DEF Spec

-----------------------------------------------------------------------------
(* The hash records that the M2 validators accept.                         *)

M2Shape ==
  m2 = [at |-> m2.at, commit |-> m2.commit, tree |-> m2.tree, raw |-> m2.raw,
        measured |-> m2.measured, environment |-> m2.environment, records |-> m2.records,
        position |-> m2.position, artifact |-> m2.artifact]

(* A record that was read is that of the commit of the artifact.           *)
M2Accepted(i) ==
  m2.artifact.records[i][2] = Blob(m2.artifact.commit, m2.artifact.records[i][1])

M2RecordsOK ==
  /\ m2.at \in {"bridge", "environment"} => m2.position = 0
  /\ m2.at \in {"environment", "records", "validated"} =>
       m2.artifact.commit \in history[FinalGate].ancestors
  /\ m2.at \in {"records", "validated"} =>
       /\ m2.position \in Nat
       /\ \A i \in 1 .. m2.position : M2Accepted(i)
  /\ m2.at = "validated" => m2.position = Len(m2.artifact.records)

M2Inv == M2Shape /\ M2RecordsOK

LEMMA M2Kept ==
  ASSUME HistoryOK, RepositoryStep, M2Inv, m2' = m2
  PROVE  M2Inv'
<1>1. {FinalGate, Squash} \subseteq Commit
  BY AcceptedCommits
<1>2. history'[FinalGate].ancestors = history[FinalGate].ancestors
  BY <1>1, CommitKept
<1>3. ASSUME NEW i, M2Accepted(i),
             m2.artifact.commit \in history[FinalGate].ancestors
      PROVE  M2Accepted(i)'
  <2>1. m2.artifact.commit \in Commit
    BY <1>1, <1>3 DEF HistoryOK
  <2>2. history'[m2.artifact.commit] = history[m2.artifact.commit]
    BY <2>1 DEF RepositoryStep
  <2>. QED
    BY <1>3, <2>2 DEF M2Accepted, Blob
<1>4. M2Shape'
  BY DEF M2Inv, M2Shape
<1>5. M2RecordsOK'
  BY <1>2, <1>3 DEF M2Inv, M2RecordsOK
<1>. QED
  BY <1>4, <1>5 DEF M2Inv

(* While evidence is captured nothing is claimed about it.                 *)
LEMMA M2ElsewhereInv ==
  ASSUME M2Shape', m2'.at \notin {"bridge", "environment", "records", "validated"}
  PROVE  M2Inv'
BY DEF M2Inv, M2RecordsOK

LEMMA M2Checked ==
  ASSUME NEW check, NEW next, M2Continue(check, next)
  PROVE  M2Inv' \/ (check /\ m2' = next)
<1>1. CASE m2' = M2Idle
  <2>1. M2Shape' /\ m2'.at = "idle"
    BY <1>1 DEF M2Idle, M2Shape
  <2>. QED
    BY <2>1, M2ElsewhereInv
<1>. QED
  BY <1>1 DEF M2Continue

LEMMA M2CaptureInv ==
  ASSUME M2Inv, M2Capture
  PROVE  M2Inv'
<1>1. M2Shape
  BY DEF M2Inv
<1>2. CASE M2CaptureBegin
  <2>1. M2Inv' \/ m2' = [M2Idle EXCEPT !.at = "read commit"]
    BY <1>2, M2Checked DEF M2CaptureBegin
  <2>2. m2' = [M2Idle EXCEPT !.at = "read commit"] => M2Shape' /\ m2'.at = "read commit"
    BY DEF M2Idle, M2Shape
  <2>. QED
    BY <2>1, <2>2, M2ElsewhereInv
<1>3. CASE M2ReadCommit \/ M2ReadTree
  <2>1. M2Shape' /\ m2'.at \in {"read tree", "bench"}
    BY <1>1, <1>3 DEF M2ReadCommit, M2ReadTree, M2To, M2Shape
  <2>. QED
    BY <2>1, M2ElsewhereInv
<1>4. CASE M2Bench
  <2>1. PICK raw \in M2Outputs :
          M2Continue(M2ParseRaw(raw),
                     [M2To("recheck status") EXCEPT !.raw = raw, !.measured = {work}])
    BY <1>4 DEF M2Bench
  <2>2. M2Inv' \/ m2' = [M2To("recheck status") EXCEPT !.raw = raw, !.measured = {work}]
    BY <2>1, M2Checked
  <2>3. m2' = [M2To("recheck status") EXCEPT !.raw = raw, !.measured = {work}]
          => M2Shape' /\ m2'.at = "recheck status"
    BY <1>1 DEF M2To, M2Shape
  <2>. QED
    BY <2>2, <2>3, M2ElsewhereInv
<1>5. CASE M2RecheckStatus \/ M2RecheckCommit \/ M2RecheckTree
  <2>1. \/ M2Inv'
        \/ \E at \in {"recheck commit", "recheck tree"} : m2' = M2To(at)
        \/ m2' = [M2To("hash environment") EXCEPT !.measured = IF undone THEN {} ELSE @]
    BY <1>5, M2Checked DEF M2RecheckStatus, M2RecheckCommit, M2RecheckTree
  <2>2. \/ M2Inv'
        \/ M2Shape' /\ m2'.at \in {"recheck commit", "recheck tree", "hash environment"}
    BY <1>1, <2>1 DEF M2To, M2Shape
  <2>. QED
    BY <2>2, M2ElsewhereInv
<1>6. CASE M2HashEnvironment
  <2>1. M2Inv' \/ m2' = [M2To("hash sources") EXCEPT !.environment = work[M2Environment]]
    BY <1>6, M2Checked DEF M2HashEnvironment
  <2>2. m2' = [M2To("hash sources") EXCEPT !.environment = work[M2Environment]]
          => M2Shape' /\ m2'.at = "hash sources"
    BY <1>1 DEF M2To, M2Shape
  <2>. QED
    BY <2>1, <2>2, M2ElsewhereInv
<1>7. CASE M2HashSource
  <2> DEFINE path == M2Sources[Len(m2.records) + 1]
  <2>1. M2Inv' \/ m2' = [m2 EXCEPT !.records = Append(@, <<path, work[path]>>)]
    BY <1>7, M2Checked DEF M2HashSource
  <2>. HIDE DEF path
  <2>2. m2' = [m2 EXCEPT !.records = Append(@, <<path, work[path]>>)]
          => M2Shape' /\ m2'.at = "hash sources"
    BY <1>1, <1>7 DEF M2HashSource, M2Shape
  <2>. QED
    BY <2>1, <2>2, M2ElsewhereInv
<1>8. CASE M2WriteArtifact
  <2>1. M2Shape' /\ m2'.at = "idle"
    BY <1>8 DEF M2WriteArtifact, M2Idle, M2Shape
  <2>. QED
    BY <2>1, M2ElsewhereInv
<1>. QED
  BY <1>2, <1>3, <1>4, <1>5, <1>6, <1>7, <1>8 DEF M2Capture

LEMMA M2ValidateInv ==
  ASSUME HistoryOK, M2Inv, M2Validate
  PROVE  M2Inv'
<1>1. M2Shape /\ M2RecordsOK /\ history' = history
  BY DEF M2Inv, M2Validate, repository
<1>2. CASE M2ValidateBegin
  <2>1. M2Shape' /\ m2'.at = "bridge" /\ m2'.position = 0
    BY <1>2 DEF M2ValidateBegin, M2Idle, M2Shape
  <2>. QED
    BY <2>1 DEF M2Inv, M2RecordsOK
<1>3. CASE M2ValidateBridge
  <2>1. M2Inv' \/ (M2SourceAccepted(m2.artifact.commit, m2.artifact.tree)
                     /\ m2' = M2To("environment"))
    BY <1>3, M2Checked DEF M2ValidateBridge
  <2>2. ASSUME M2SourceAccepted(m2.artifact.commit, m2.artifact.tree), m2' = M2To("environment")
        PROVE  M2Inv'
    <3>1. /\ M2Shape' /\ m2'.at = "environment" /\ m2'.position = m2.position
          /\ m2'.artifact = m2.artifact
      BY <1>1, <2>2 DEF M2To, M2Shape
    <3>2. m2.position = 0 /\ m2.artifact.commit \in history[FinalGate].ancestors
      BY <1>1, <1>3, <2>2 DEF M2ValidateBridge, M2RecordsOK, M2SourceAccepted, Ancestor
    <3>. QED
      BY <1>1, <3>1, <3>2 DEF M2Inv, M2RecordsOK
  <2>. QED
    BY <2>1, <2>2
<1>4. CASE M2ValidateEnvironment
  <2>1. M2Inv' \/ m2' = M2To("records")
    BY <1>4, M2Checked DEF M2ValidateEnvironment
  <2>2. ASSUME m2' = M2To("records")
        PROVE  M2Inv'
    <3>1. /\ M2Shape' /\ m2'.at = "records" /\ m2'.position = m2.position
          /\ m2'.artifact = m2.artifact
      BY <1>1, <2>2 DEF M2To, M2Shape
    <3>2. m2.position = 0 /\ m2.artifact.commit \in history[FinalGate].ancestors
      BY <1>1, <1>4 DEF M2ValidateEnvironment, M2RecordsOK
    <3>. QED
      BY <1>1, <3>1, <3>2 DEF M2Inv, M2RecordsOK
  <2>. QED
    BY <2>1, <2>2
<1>5. CASE M2ValidateRecord
  <2> DEFINE record == m2.artifact.records[m2.position + 1]
  <2>1. \/ M2Inv'
        \/ /\ M2RecordValid(record, m2.artifact.commit)
           /\ m2' = [m2 EXCEPT !.position = @ + 1]
    BY <1>5, M2Checked DEF M2ValidateRecord
  <2>2. ASSUME M2RecordValid(record, m2.artifact.commit), m2' = [m2 EXCEPT !.position = @ + 1]
        PROVE  M2Inv'
    <3>1. /\ M2Shape' /\ m2'.at = "records" /\ m2'.artifact = m2.artifact
          /\ m2'.position = m2.position + 1
      BY <1>1, <1>5, <2>2 DEF M2ValidateRecord, M2Shape
    <3>2. /\ m2.artifact.commit \in history[FinalGate].ancestors
          /\ m2.position \in Nat
          /\ \A i \in 1 .. m2.position : M2Accepted(i)
      BY <1>1, <1>5 DEF M2ValidateRecord, M2RecordsOK
    <3>3. M2Accepted(m2.position + 1)
      BY <2>2 DEF M2RecordValid, M2Accepted
    <3>4. ASSUME NEW i \in 1 .. m2'.position
          PROVE  M2Accepted(i)'
      <4>1. i \in 1 .. m2.position \/ i = m2.position + 1
        BY <3>1, <3>2
      <4>2. M2Accepted(i)
        BY <3>2, <3>3, <4>1
      <4>. QED
        BY <1>1, <3>1, <4>2 DEF M2Accepted, Blob
    <3>. QED
      BY <1>1, <3>1, <3>2, <3>4 DEF M2Inv, M2RecordsOK
  <2>. QED
    BY <2>1, <2>2
<1>6. CASE M2ValidateSamples
  <2>1. M2Inv' \/ m2' = M2To("validated")
    BY <1>6, M2Checked DEF M2ValidateSamples
  <2>2. ASSUME m2' = M2To("validated")
        PROVE  M2Inv'
    <3>1. /\ M2Shape' /\ m2'.at = "validated" /\ m2'.position = m2.position
          /\ m2'.artifact = m2.artifact
      BY <1>1, <2>2 DEF M2To, M2Shape
    <3>2. m2.at = "records" /\ m2.position = Len(m2.artifact.records)
      BY <1>6 DEF M2ValidateSamples
    <3>3. \A i : M2Accepted(i) => M2Accepted(i)'
      BY <1>1, <3>1 DEF M2Accepted, Blob
    <3>. QED
      BY <1>1, <3>1, <3>2, <3>3 DEF M2Inv, M2RecordsOK
  <2>. QED
    BY <2>1, <2>2
<1>. QED
  BY <1>2, <1>3, <1>4, <1>5, <1>6 DEF M2Validate

LEMMA M2StepInv ==
  ASSUME HistoryOK, M2Inv, [Next]_vars
  PROVE  M2Inv'
<1>1. HistoryOK' /\ RepositoryStep
  BY StepOfRepository
<1>2. m2' = m2 \/ M2Capture \/ M2Validate
  BY DEF Next, vars, m2Vars, M2Forge
<1>. QED
  BY <1>1, <1>2, M2Kept, M2CaptureInv, M2ValidateInv

-----------------------------------------------------------------------------
(* The hash records that the fuzz validator accepts.                       *)

(* The seeds that are there make a sequence, whichever are missing.        *)
LEMMA PresentIsSequence ==
  ASSUME NEW paths \in Seq(Path)
  PROVE  Present(paths) \in Seq(Path)
<1> DEFINE A == Seq(Path)
           n == Len(paths)
           op(found, path) == IF work[path] = Absent THEN found ELSE Append(found, path)
           step == [p \in (1 .. n) \X A |-> op(p[2], paths[p[1]])]
           Iterates(h) == h = [s \in SUBSET DOMAIN paths |->
             IF s = {} THEN << >> ELSE op(h[s \ {Max(s)}], paths[Max(s)])]
           iter == CHOOSE h : Iterates(h)
<1>1. << >> \in A
  OBVIOUS
<1>2. \A k \in 1 .. n, a \in A : op(a, paths[k]) \in A
  OBVIOUS
<1>3. Present(paths) = iter[DOMAIN paths]
  BY DEF Present, FoldLeft, MapThenFoldSet
<1>4. n \in Nat /\ DOMAIN paths = 1 .. n
  OBVIOUS
<1>. HIDE DEF op, A, n
<1>5. \A k \in 1 .. n, a \in A : step[<<k, a>>] = op(a, paths[k])
  OBVIOUS
<1>6. StaysIn(step, 1 .. n, A)
  BY <1>2, <1>5 DEF StaysIn
<1>. HIDE DEF step
<1>7. Iterates(iter)
  <2>1. PICK g \in [SUBSET (1 .. n) -> A] : LeftFolds(g, n, << >>, step)
    BY <1>1, <1>4, <1>6, LeftFoldExists
  <2>2. ASSUME NEW s \in SUBSET (1 .. n)
        PROVE  g[s] = IF s = {} THEN << >> ELSE op(g[s \ {Max(s)}], paths[Max(s)])
    BY <1>4, <1>5, <2>1, LastPosition DEF LeftFolds
  <2>3. Iterates(g)
    BY <1>4, <2>2
  <2>. QED
    BY <2>3
<1>. HIDE DEF iter
<1>8. LeftFoldsIn(iter, n, A, << >>, step)
  <2>1. ASSUME NEW s \in SUBSET (1 .. n)
        PROVE  iter[s] = IF s = {} THEN << >> ELSE op(iter[s \ {Max(s)}], paths[Max(s)])
    BY <1>4, <1>7
  <2>2. ASSUME NEW s \in SUBSET (1 .. n), s # {}
        PROVE  iter[s] = op(iter[s \ {Max(s)}], paths[Max(s)]) /\ Max(s) \in 1 .. n
    BY <1>4, <2>1, <2>2, LastPosition
  <2>. QED
    BY <1>5, <2>1, <2>2 DEF LeftFoldsIn
<1>9. PICK acc : Accumulates(acc, n, A, << >>, step) /\ acc[n] = iter[1 .. n]
  BY <1>1, <1>4, <1>6, <1>8, LeftFoldAccumulates
<1>. QED
  BY <1>3, <1>4, <1>9 DEF Accumulates, A

HashRecord == Path \X FileContent

(* What a summary holds as soon as it is begun.                            *)
SummaryOK(summary) ==
  /\ summary = [target |-> summary.target, commit |-> summary.commit,
                tree |-> summary.tree, dirty |-> summary.dirty, seeds |-> summary.seeds,
                sources |-> summary.sources, dictionary |-> summary.dictionary,
                measured |-> summary.measured]
  /\ summary.target \in DOMAIN FuzzSources
  /\ summary.seeds \in Seq(HashRecord)
  /\ summary.sources \in Seq(HashRecord)
  /\ summary.dictionary \in Seq(HashRecord)

FuzzShape ==
  fuzz = [at |-> fuzz.at, target |-> fuzz.target, position |-> fuzz.position,
          summary |-> fuzz.summary]

FuzzWriting ==
  {"campaign", "hash seeds", "read commit", "read tree", "read dirty", "hash sources",
   "hash dictionary", "write"}

FuzzAccepted(i) ==
  FuzzRecords(fuzz.summary)[i][2] = Blob(fuzz.summary.commit, FuzzRecords(fuzz.summary)[i][1])

FuzzRecordsOK ==
  /\ fuzz.at \in FuzzWriting => SummaryOK(fuzz.summary)
  /\ fuzz.at \in {"next target", "records"} =>
       /\ fuzz.target \in Nat
       /\ \A target \in FuzzTarget : fuzzSummary[target] # NoSummary
  /\ fuzz.at \in {"records", "validated"} =>
       /\ SummaryOK(fuzz.summary)
       /\ fuzz.summary.commit \in history[FinalGate].ancestors
       /\ fuzz.position \in Nat
       /\ \A i \in 1 .. fuzz.position : FuzzAccepted(i)
  /\ fuzz.at = "validated" => fuzz.position = Len(FuzzRecords(fuzz.summary))

SummariesOK ==
  /\ fuzzSummary = [target \in FuzzTarget |-> fuzzSummary[target]]
  /\ \A target \in FuzzTarget :
       fuzzSummary[target] # NoSummary => SummaryOK(fuzzSummary[target])

FuzzInv == FuzzShape /\ FuzzRecordsOK /\ SummariesOK

LEMMA RecordedIsSequence ==
  ASSUME HistoryOK, NEW paths \in Seq(Path)
  PROVE  Recorded(paths) \in Seq(HashRecord)
<1>1. \A i \in 1 .. Len(paths) : <<paths[i], work[paths[i]]>> \in HashRecord
  <2>1. ASSUME NEW i \in 1 .. Len(paths)
        PROVE  <<paths[i], work[paths[i]]>> \in HashRecord
    <3>1. paths[i] \in Path
      BY <2>1, ElementOfSeq
    <3>2. work[paths[i]] \in FileContent
      BY <3>1 DEF HistoryOK, Tree, FileContent
    <3>. QED
      BY <3>1, <3>2 DEF HashRecord
  <2>. QED
    BY <2>1
<1>2. Len(paths) \in Nat /\ DOMAIN paths = 1 .. Len(paths)
  OBVIOUS
<1>3. Recorded(paths) = [i \in 1 .. Len(paths) |-> <<paths[i], work[paths[i]]>>]
  BY <1>2 DEF Recorded
<1>. HIDE DEF HashRecord
<1>. QED
  BY <1>1, <1>2, <1>3, SeqDef

LEMMA RecordsAreSequence ==
  ASSUME NEW summary, SummaryOK(summary)
  PROVE  /\ FuzzRecords(summary) \in Seq(HashRecord)
         /\ DOMAIN FuzzRecords(summary) = 1 .. Len(FuzzRecords(summary))
         /\ Len(FuzzRecords(summary)) \in Nat
<1>1. FuzzRecords(summary) \in Seq(HashRecord)
  <2> DEFINE A == HashRecord
  <2>1. summary.sources \in Seq(A) /\ summary.seeds \in Seq(A) /\ summary.dictionary \in Seq(A)
    BY DEF SummaryOK
  <2>. HIDE DEF A
  <2>2. FuzzRecords(summary) \in Seq(A)
    BY <2>1 DEF FuzzRecords
  <2>. QED
    BY <2>2 DEF A
<1>. QED
  BY <1>1

LEMMA FuzzKept ==
  ASSUME HistoryOK, RepositoryStep, FuzzInv, UNCHANGED fuzzVars
  PROVE  FuzzInv'
<1>1. {FinalGate, Squash} \subseteq Commit
  BY AcceptedCommits
<1>2. history'[FinalGate].ancestors = history[FinalGate].ancestors
  BY <1>1, CommitKept
<1>3. fuzz' = fuzz /\ fuzzSummary' = fuzzSummary
  BY DEF fuzzVars
<1>4. ASSUME NEW i, FuzzAccepted(i),
             fuzz.summary.commit \in history[FinalGate].ancestors
      PROVE  FuzzAccepted(i)'
  <2>1. fuzz.summary.commit \in Commit
    BY <1>4 DEF HistoryOK
  <2>2. history'[fuzz.summary.commit] = history[fuzz.summary.commit]
    BY <2>1 DEF RepositoryStep
  <2>. QED
    BY <1>3, <1>4, <2>2 DEF FuzzAccepted, Blob, FuzzRecords
<1>5. FuzzShape' /\ SummariesOK'
  BY <1>3 DEF FuzzInv, FuzzShape, SummariesOK, SummaryOK
<1>6. FuzzRecordsOK'
  BY <1>2, <1>3, <1>4 DEF FuzzInv, FuzzRecordsOK, SummaryOK, FuzzRecords
<1>. QED
  BY <1>5, <1>6 DEF FuzzInv

LEMMA FuzzIdleInv ==
  ASSUME SummariesOK', fuzz' = FuzzIdle
  PROVE  FuzzInv'
<1>1. FuzzShape' /\ fuzz'.at = "idle"
  BY DEF FuzzIdle, FuzzShape
<1>. QED
  BY <1>1 DEF FuzzInv, FuzzRecordsOK, FuzzWriting

LEMMA FuzzChecked ==
  ASSUME SummariesOK, fuzzSummary' = fuzzSummary,
         NEW check, NEW next, FuzzContinue(check, next)
  PROVE  FuzzInv' \/ (check /\ fuzz' = next)
<1>1. SummariesOK'
  BY DEF SummariesOK, SummaryOK
<1>. QED
  BY <1>1, FuzzIdleInv DEF FuzzContinue

(* A step of the writer that leaves a well-formed summary behind it.       *)
LEMMA FuzzWritesInv ==
  ASSUME SummariesOK, fuzzSummary' = fuzzSummary, FuzzShape',
         fuzz'.at \in FuzzWriting, SummaryOK(fuzz'.summary)
  PROVE  FuzzInv'
<1>1. SummariesOK'
  BY DEF SummariesOK, SummaryOK
<1>2. SummaryOK(fuzz.summary)'
  BY DEF SummaryOK
<1>. QED
  BY <1>1, <1>2 DEF FuzzInv, FuzzRecordsOK, FuzzWriting

LEMMA FuzzWriteInv ==
  ASSUME HistoryOK, FuzzInv, FuzzWrite
  PROVE  FuzzInv'
<1>1. FuzzShape /\ SummariesOK /\ FuzzRecordsOK
  BY DEF FuzzInv
<1>2. ASSUME NEW target \in DOMAIN FuzzSources, FuzzBuild(target)
      PROVE  FuzzInv'
  <2> DEFINE begun == [target |-> target, commit |-> 0, tree |-> << >>, dirty |-> FALSE,
                       seeds |-> << >>, sources |-> << >>, dictionary |-> << >>,
                       measured |-> {work}]
  <2>1. SummaryOK(begun)
    <3>1. << >> \in Seq(HashRecord)
      OBVIOUS
    <3>. QED
      BY <3>1 DEF SummaryOK
  <2>2. \/ FuzzInv'
        \/ fuzz' = [FuzzIdle EXCEPT !.at = "campaign", !.summary = begun]
    BY <1>1, <1>2, FuzzChecked DEF FuzzBuild
  <2>. HIDE DEF begun
  <2>3. fuzz' = [FuzzIdle EXCEPT !.at = "campaign", !.summary = begun]
          => FuzzShape' /\ fuzz'.at = "campaign" /\ fuzz'.summary = begun
    BY DEF FuzzIdle, FuzzShape
  <2>4. fuzzSummary' = fuzzSummary
    BY <1>2 DEF FuzzBuild
  <2>. QED
    BY <1>1, <2>1, <2>2, <2>3, <2>4, FuzzWritesInv DEF FuzzWriting
<1>7. CASE FuzzCampaign
  <2> DEFINE measured == fuzz.summary.measured \cup {work}
  <2>1. SummaryOK(fuzz.summary) /\ fuzzSummary' = fuzzSummary
    BY <1>1, <1>7 DEF FuzzCampaign, FuzzRecordsOK, FuzzWriting
  <2>2. PICK passed \in BOOLEAN :
          FuzzContinue(passed, [FuzzTo("hash seeds") EXCEPT !.summary.measured = @ \cup {work}])
    BY <1>7 DEF FuzzCampaign
  <2>3. \/ FuzzInv'
        \/ fuzz' = [FuzzTo("hash seeds") EXCEPT !.summary.measured = @ \cup {work}]
    BY <1>1, <2>1, <2>2, FuzzChecked
  <2>4. ASSUME fuzz' = [FuzzTo("hash seeds") EXCEPT !.summary.measured = @ \cup {work}]
        PROVE  FuzzInv'
    <3>1. /\ FuzzShape' /\ fuzz'.at = "hash seeds"
          /\ fuzz'.summary = [fuzz.summary EXCEPT !.measured = measured]
      BY <1>1, <2>4 DEF FuzzTo, FuzzShape
    <3>. HIDE DEF measured
    <3>2. SummaryOK(fuzz'.summary)
      BY <2>1, <3>1 DEF SummaryOK
    <3>. QED
      BY <1>1, <2>1, <3>1, <3>2, FuzzWritesInv DEF FuzzWriting
  <2>. QED
    BY <2>3, <2>4
<1>8. CASE FuzzHashSeeds
  <2> DEFINE seeds == Present(FuzzSeeds[fuzz.summary.target])
  <2>1. SummaryOK(fuzz.summary) /\ fuzzSummary' = fuzzSummary
    BY <1>1, <1>8 DEF FuzzHashSeeds, FuzzRecordsOK, FuzzWriting
  <2>2. \/ FuzzInv'
        \/ fuzz' = [FuzzTo("read commit") EXCEPT !.summary.seeds = Recorded(seeds)]
    BY <1>1, <1>8, FuzzChecked DEF FuzzHashSeeds
  <2>3. ASSUME fuzz' = [FuzzTo("read commit") EXCEPT !.summary.seeds = Recorded(seeds)]
        PROVE  FuzzInv'
    <3>1. FuzzSeeds[fuzz.summary.target] \in Seq(Path)
      BY <2>1, FuzzEvidenceAssumption DEF SummaryOK
    <3>2. seeds \in Seq(Path)
      BY <3>1, PresentIsSequence
    <3>3. Recorded(seeds) \in Seq(HashRecord)
      BY <3>2, RecordedIsSequence
    <3>. HIDE DEF seeds
    <3>4. /\ FuzzShape' /\ fuzz'.at = "read commit"
          /\ fuzz'.summary = [fuzz.summary EXCEPT !.seeds = Recorded(seeds)]
      BY <1>1, <2>3 DEF FuzzTo, FuzzShape
    <3>5. SummaryOK(fuzz'.summary)
      BY <2>1, <3>3, <3>4 DEF SummaryOK
    <3>. QED
      BY <1>1, <2>1, <3>4, <3>5, FuzzWritesInv DEF FuzzWriting
  <2>. QED
    BY <2>2, <2>3
<1>3. CASE FuzzReadCommit \/ FuzzReadTree \/ FuzzReadDirty
  <2>1. SummaryOK(fuzz.summary) /\ fuzzSummary' = fuzzSummary
    BY <1>1, <1>3 DEF FuzzReadCommit, FuzzReadTree, FuzzReadDirty, FuzzRecordsOK, FuzzWriting
  <2>2. CASE FuzzReadCommit
    <3>1. FuzzShape' /\ fuzz'.at = "read tree" /\ fuzz'.summary = [fuzz.summary EXCEPT !.commit = head]
      BY <1>1, <2>2 DEF FuzzReadCommit, FuzzTo, FuzzShape
    <3>2. SummaryOK(fuzz'.summary)
      BY <2>1, <3>1 DEF SummaryOK
    <3>. QED
      BY <1>1, <2>1, <3>1, <3>2, FuzzWritesInv DEF FuzzWriting
  <2>3. CASE FuzzReadTree
    <3>1. FuzzShape' /\ fuzz'.at = "read dirty" /\ fuzz'.summary = [fuzz.summary EXCEPT !.tree = TreeOf(head)]
      BY <1>1, <2>3 DEF FuzzReadTree, FuzzTo, FuzzShape
    <3>2. SummaryOK(fuzz'.summary)
      BY <2>1, <3>1 DEF SummaryOK
    <3>. QED
      BY <1>1, <2>1, <3>1, <3>2, FuzzWritesInv DEF FuzzWriting
  <2>4. CASE FuzzReadDirty
    <3> DEFINE dirty == ~StatusEmpty
               measured == IF undone \/ head # fuzz.summary.commit THEN {} ELSE fuzz.summary.measured
    <3>1. /\ FuzzShape' /\ fuzz'.at = "hash sources"
          /\ fuzz'.summary = [fuzz.summary EXCEPT !.dirty = dirty, !.measured = measured]
      BY <1>1, <2>4 DEF FuzzReadDirty, FuzzTo, FuzzShape
    <3>. HIDE DEF dirty, measured
    <3>2. SummaryOK(fuzz'.summary)
      BY <2>1, <3>1 DEF SummaryOK
    <3>. QED
      BY <1>1, <2>1, <3>1, <3>2, FuzzWritesInv DEF FuzzWriting
  <2>. QED
    BY <1>3, <2>2, <2>3, <2>4
<1>4. CASE FuzzHashSources
  <2> DEFINE paths == FuzzSources[fuzz.summary.target]
  <2>1. SummaryOK(fuzz.summary) /\ fuzzSummary' = fuzzSummary
    BY <1>1, <1>4 DEF FuzzHashSources, FuzzRecordsOK, FuzzWriting
  <2>2. \/ FuzzInv'
        \/ fuzz' = [FuzzTo("hash dictionary") EXCEPT !.summary.sources = Recorded(paths)]
    BY <1>1, <1>4, FuzzChecked DEF FuzzHashSources
  <2>3. ASSUME fuzz' = [FuzzTo("hash dictionary") EXCEPT !.summary.sources = Recorded(paths)]
        PROVE  FuzzInv'
    <3>1. Recorded(paths) \in Seq(HashRecord)
      BY <2>1, FuzzEvidenceAssumption, RecordedIsSequence DEF SummaryOK
    <3>2. /\ FuzzShape' /\ fuzz'.at = "hash dictionary"
          /\ fuzz'.summary = [fuzz.summary EXCEPT !.sources = Recorded(paths)]
      BY <1>1, <2>3 DEF FuzzTo, FuzzShape
    <3>3. SummaryOK(fuzz'.summary)
      BY <2>1, <3>1, <3>2 DEF SummaryOK
    <3>. QED
      BY <1>1, <2>1, <3>2, <3>3, FuzzWritesInv DEF FuzzWriting
  <2>. QED
    BY <2>2, <2>3
<1>5. CASE FuzzHashDictionary
  <2> DEFINE paths == <<FuzzDictionary[fuzz.summary.target]>>
  <2>1. SummaryOK(fuzz.summary) /\ fuzzSummary' = fuzzSummary
    BY <1>1, <1>5 DEF FuzzHashDictionary, FuzzRecordsOK, FuzzWriting
  <2>2. \/ FuzzInv'
        \/ fuzz' = [FuzzTo("write") EXCEPT !.summary.dictionary = Recorded(paths)]
    BY <1>1, <1>5, FuzzChecked DEF FuzzHashDictionary
  <2>3. ASSUME fuzz' = [FuzzTo("write") EXCEPT !.summary.dictionary = Recorded(paths)]
        PROVE  FuzzInv'
    <3>1. paths \in Seq(Path)
      BY <2>1, FuzzEvidenceAssumption DEF SummaryOK
    <3>2. Recorded(paths) \in Seq(HashRecord)
      BY <3>1, RecordedIsSequence
    <3>3. /\ FuzzShape' /\ fuzz'.at = "write"
          /\ fuzz'.summary = [fuzz.summary EXCEPT !.dictionary = Recorded(paths)]
      BY <1>1, <2>3 DEF FuzzTo, FuzzShape
    <3>4. SummaryOK(fuzz'.summary)
      BY <2>1, <3>2, <3>3 DEF SummaryOK
    <3>. QED
      BY <1>1, <2>1, <3>3, <3>4, FuzzWritesInv DEF FuzzWriting
  <2>. QED
    BY <2>2, <2>3
<1>6. ASSUME NEW output \in FuzzTarget, FuzzWriteSummary(output)
      PROVE  FuzzInv'
  <2>1. SummaryOK(fuzz.summary)
    BY <1>1, <1>6 DEF FuzzWriteSummary, FuzzRecordsOK, FuzzWriting
  <2>2. fuzzSummary' = [fuzzSummary EXCEPT ![output] = fuzz.summary] /\ fuzz' = FuzzIdle
    BY <1>6 DEF FuzzWriteSummary
  <2>3. \A target \in FuzzTarget :
          fuzzSummary'[target] # NoSummary => SummaryOK(fuzzSummary'[target])
    <3>1. \A target \in FuzzTarget :
            fuzzSummary'[target] = IF target = output THEN fuzz.summary ELSE fuzzSummary[target]
      BY <1>1, <2>2 DEF SummariesOK
    <3>. QED
      BY <1>1, <2>1, <3>1 DEF SummariesOK
  <2>4. fuzzSummary' = [target \in FuzzTarget |-> fuzzSummary'[target]]
    BY <1>1, <2>2 DEF SummariesOK
  <2>5. SummariesOK'
    BY <2>3, <2>4 DEF SummariesOK, SummaryOK
  <2>. QED
    BY <2>2, <2>5, FuzzIdleInv
<1>. QED
  BY <1>2, <1>3, <1>4, <1>5, <1>6, <1>7, <1>8 DEF FuzzWrite

LEMMA FuzzValidateInv ==
  ASSUME HistoryOK, FuzzInv, FuzzValidate
  PROVE  FuzzInv'
<1>1. FuzzShape /\ SummariesOK /\ FuzzRecordsOK /\ history' = history
  BY DEF FuzzInv, FuzzValidate, repository
<1>2. fuzzSummary' = fuzzSummary
  BY DEF FuzzValidate, FuzzValidateBegin, FuzzValidateBridge, FuzzValidateRecord,
         FuzzTargetValid
<1>3. SummariesOK'
  BY <1>1, <1>2 DEF SummariesOK, SummaryOK
<1>4. CASE FuzzValidateBegin
  <2>1. FuzzShape' /\ fuzz'.at = "next target" /\ fuzz'.target \in Nat
    BY <1>4 DEF FuzzValidateBegin, FuzzIdle, FuzzShape
  <2>2. \A target \in FuzzTarget : fuzzSummary[target] # NoSummary
    BY <1>4 DEF FuzzValidateBegin
  <2>3. FuzzRecordsOK'
    BY <1>2, <2>1, <2>2 DEF FuzzRecordsOK, FuzzWriting
  <2>. QED
    BY <1>3, <2>1, <2>3 DEF FuzzInv
<1>5. CASE FuzzValidateBridge
  <2> DEFINE target == FuzzTargets[fuzz.target + 1]
             summary == fuzzSummary[target]
             next == [at |-> "records", target |-> fuzz.target + 1, position |-> 0,
                      summary |-> summary]
  <2>1. /\ fuzz.target \in Nat /\ fuzz.target < Len(FuzzTargets)
        /\ \A t \in FuzzTarget : fuzzSummary[t] # NoSummary
    BY <1>1, <1>5 DEF FuzzValidateBridge, FuzzRecordsOK
  <2>2. target \in FuzzTarget
    <3>1. fuzz.target + 1 \in DOMAIN FuzzTargets
      BY <2>1, FuzzEvidenceAssumption
    <3>. QED
      BY <3>1 DEF FuzzTarget
  <2>3. SummaryOK(summary)
    BY <1>1, <2>1, <2>2 DEF SummariesOK
  <2>4. FuzzInv' \/ (Ancestor(summary.commit, FinalGate) /\ fuzz' = next)
    BY <1>1, <1>2, <1>5, FuzzChecked DEF FuzzValidateBridge
  <2>5. ASSUME Ancestor(summary.commit, FinalGate), fuzz' = next
        PROVE  FuzzInv'
    <3>. HIDE DEF target
    <3>1. /\ FuzzShape' /\ fuzz'.at = "records" /\ fuzz'.target \in Nat
          /\ fuzz'.position = 0 /\ fuzz'.summary = summary
      BY <2>1, <2>5 DEF FuzzShape
    <3>2. fuzz'.summary.commit \in history'[FinalGate].ancestors
      BY <1>1, <2>5, <3>1 DEF Ancestor
    <3>3. SummaryOK(fuzz.summary)'
      BY <2>3, <3>1 DEF SummaryOK
    <3>4. \A i \in 1 .. fuzz'.position : FALSE
      BY <3>1
    <3>. HIDE DEF summary
    <3>5. FuzzRecordsOK'
      BY <1>2, <2>1, <3>1, <3>2, <3>3, <3>4 DEF FuzzRecordsOK, FuzzWriting
    <3>. QED
      BY <1>3, <3>1, <3>5 DEF FuzzInv
  <2>. QED
    BY <2>4, <2>5
<1>6. CASE FuzzValidateRecord
  <2> DEFINE record == FuzzRecords(fuzz.summary)[fuzz.position + 1]
  <2>1. /\ fuzz.at = "records" /\ SummaryOK(fuzz.summary) /\ fuzz.position \in Nat
        /\ fuzz.summary.commit \in history[FinalGate].ancestors
        /\ fuzz.target \in Nat
        /\ \A target \in FuzzTarget : fuzzSummary[target] # NoSummary
        /\ \A i \in 1 .. fuzz.position : FuzzAccepted(i)
    BY <1>1, <1>6 DEF FuzzValidateRecord, FuzzRecordsOK
  <2>2. \/ FuzzInv'
        \/ /\ FuzzRecordValid(record, fuzz.summary.commit)
           /\ fuzz' = [fuzz EXCEPT !.position = @ + 1]
    BY <1>1, <1>2, <1>6, FuzzChecked DEF FuzzValidateRecord
  <2>3. ASSUME FuzzRecordValid(record, fuzz.summary.commit),
               fuzz' = [fuzz EXCEPT !.position = @ + 1]
        PROVE  FuzzInv'
    <3>1. /\ FuzzShape' /\ fuzz'.at = "records" /\ fuzz'.target = fuzz.target
          /\ fuzz'.position = fuzz.position + 1 /\ fuzz'.summary = fuzz.summary
      BY <1>1, <2>1, <2>3 DEF FuzzShape
    <3>2. FuzzAccepted(fuzz.position + 1)
      BY <2>3 DEF FuzzRecordValid, FuzzAccepted
    <3>3. ASSUME NEW i \in 1 .. fuzz'.position
          PROVE  FuzzAccepted(i)'
      <4>1. i \in 1 .. fuzz.position \/ i = fuzz.position + 1
        BY <2>1, <3>1
      <4>2. FuzzAccepted(i)
        BY <2>1, <3>2, <4>1
      <4>. QED
        BY <1>1, <3>1, <4>2 DEF FuzzAccepted, Blob, FuzzRecords
    <3>4. SummaryOK(fuzz.summary)'
      BY <2>1, <3>1 DEF SummaryOK
    <3>. QED
      BY <1>1, <1>2, <1>3, <2>1, <3>1, <3>3, <3>4 DEF FuzzInv, FuzzRecordsOK, FuzzWriting
  <2>. QED
    BY <2>2, <2>3
<1>7. CASE FuzzTargetValid
  <2>1. /\ SummaryOK(fuzz.summary) /\ fuzz.position \in Nat
        /\ fuzz.summary.commit \in history[FinalGate].ancestors
        /\ fuzz.target \in Nat
        /\ \A target \in FuzzTarget : fuzzSummary[target] # NoSummary
        /\ \A i \in 1 .. fuzz.position : FuzzAccepted(i)
        /\ fuzz.position = Len(FuzzRecords(fuzz.summary))
    BY <1>1, <1>7 DEF FuzzTargetValid, FuzzRecordsOK
  <2>2. PICK at \in {"validated", "next target"} : fuzz' = FuzzTo(at)
    BY <1>7 DEF FuzzTargetValid
  <2>3. /\ FuzzShape' /\ fuzz'.at = at /\ fuzz'.target = fuzz.target
        /\ fuzz'.position = fuzz.position /\ fuzz'.summary = fuzz.summary
    BY <1>1, <2>2 DEF FuzzTo, FuzzShape
  <2>4. \A i \in 1 .. fuzz.position : FuzzAccepted(i)'
    BY <1>1, <2>1, <2>3 DEF FuzzAccepted, Blob, FuzzRecords
  <2>5. SummaryOK(fuzz.summary)' /\ Len(FuzzRecords(fuzz.summary))' = Len(FuzzRecords(fuzz.summary))
    BY <2>1, <2>3 DEF SummaryOK, FuzzRecords
  <2>. QED
    BY <1>1, <1>2, <1>3, <2>1, <2>3, <2>4, <2>5 DEF FuzzInv, FuzzRecordsOK, FuzzWriting
<1>. QED
  BY <1>4, <1>5, <1>6, <1>7 DEF FuzzValidate

LEMMA FuzzStepInv ==
  ASSUME HistoryOK, FuzzInv, [Next]_vars
  PROVE  FuzzInv'
<1>1. HistoryOK' /\ RepositoryStep
  BY StepOfRepository
<1>2. UNCHANGED fuzzVars \/ FuzzWrite \/ FuzzValidate
  BY DEF Next, vars, fuzzVars
<1>. QED
  BY <1>1, <1>2, FuzzKept, FuzzWriteInv, FuzzValidateInv

LEMMA FirstInv == Init => M2Inv /\ FuzzInv
<1> SUFFICES ASSUME Init PROVE M2Inv /\ FuzzInv
  OBVIOUS
<1>1. M2Inv
  BY DEF Init, M2Init, M2Idle, M2Inv, M2Shape, M2RecordsOK
<1>2. fuzz = FuzzIdle /\ fuzzSummary = [target \in FuzzTarget |-> NoSummary]
  BY DEF Init, FuzzInit
<1>3. FuzzShape /\ fuzz.at = "idle"
  BY <1>2 DEF FuzzIdle, FuzzShape
<1>4. SummariesOK
  BY <1>2 DEF SummariesOK
<1>. QED
  BY <1>1, <1>3, <1>4 DEF FuzzInv, FuzzRecordsOK, FuzzWriting

-----------------------------------------------------------------------------
(* The import walk of the coverage gate.                                   *)

Elements(list) == {list[i] : i \in DOMAIN list}

Seen == reachable \cup Elements(pending)

SourceOK ==
  /\ files \subseteq Name
  /\ imports \in [files -> Seq(Name)]

(* Whatever a visited file imports has been visited or is on the stack.    *)
Frontier ==
  /\ Root \in Seen
  /\ \A file \in reachable : Imported(file) \subseteq Seen

(* The walk has met nothing that a closed set of paths could leave out.    *)
Forced == \A paths \in SUBSET Name : Closed(paths) => Seen \subseteq paths

(* What was raised is true of the path on top of the stack.                *)
Raised ==
  /\ outcome \in {"missing", "escapes"} => pending # << >>
  /\ outcome = "missing" => Top \notin files
  /\ outcome = "escapes" => Top \in files /\ (Top \notin Repository \/ Escapes(Top))

WalkInv ==
  /\ SourceOK
  /\ pending \in Seq(Name)
  /\ reachable \subseteq files \cap Repository
  /\ outcome = "found" => pending = << >>
  /\ Frontier
  /\ Forced
  /\ Raised

-----------------------------------------------------------------------------
(* pop takes one element off the end.                                      *)
LEMMA PopElements ==
  ASSUME NEW S, NEW list \in Seq(S), list # << >>
  PROVE  LET last == list[Len(list)]
             rest == SubSeq(list, 1, Len(list) - 1)
         IN  /\ last \in S
             /\ rest \in Seq(S)
             /\ Elements(list) = Elements(rest) \cup {last}
<1> DEFINE last == list[Len(list)]
           rest == SubSeq(list, 1, Len(list) - 1)
<1>1. Len(list) \in Nat /\ Len(list) > 0 /\ DOMAIN list = 1 .. Len(list)
  OBVIOUS
<1>2. last \in S
  BY <1>1
<1>3. /\ rest \in Seq(S)
      /\ Len(rest) = Len(list) - 1
      /\ DOMAIN rest = 1 .. Len(list) - 1
      /\ \A i \in 1 .. Len(list) - 1 : rest[i] = list[i]
  BY <1>1
<1>4. Elements(list) = Elements(rest) \cup {last}
  <2>1. ASSUME NEW i \in DOMAIN list
        PROVE  list[i] \in Elements(rest) \cup {last}
    <3>1. CASE i = Len(list)
      BY <3>1
    <3>2. CASE i # Len(list)
      <4>1. i \in DOMAIN rest /\ rest[i] = list[i]
        BY <1>1, <1>3, <3>2
      <4> QED
        BY <4>1 DEF Elements
    <3> QED
      BY <3>1, <3>2
  <2>2. ASSUME NEW i \in DOMAIN rest
        PROVE  rest[i] \in Elements(list)
    <3>1. i \in DOMAIN list /\ rest[i] = list[i]
      BY <1>1, <1>3
    <3> QED
      BY <3>1 DEF Elements
  <2>3. last \in Elements(list)
    <3>1. Len(list) \in DOMAIN list
      BY <1>1
    <3> QED
      BY <3>1 DEF Elements
  <2> HIDE DEF last, rest
  <2> QED
    BY <2>1, <2>2, <2>3 DEF Elements
<1> HIDE DEF last, rest
<1>5. last \in S /\ rest \in Seq(S) /\ Elements(list) = Elements(rest) \cup {last}
  BY <1>2, <1>3, <1>4
<1> QED
  BY <1>5 DEF last, rest

(* extend adds the elements of the other list.                             *)
LEMMA ExtendElements ==
  ASSUME NEW S, NEW list \in Seq(S), NEW more \in Seq(S)
  PROVE  /\ list \o more \in Seq(S)
         /\ Elements(list \o more) = Elements(list) \cup Elements(more)
<1> DEFINE both == list \o more
<1>1. /\ Len(list) \in Nat /\ DOMAIN list = 1 .. Len(list)
      /\ Len(more) \in Nat /\ DOMAIN more = 1 .. Len(more)
  OBVIOUS
<1>2. /\ both \in Seq(S)
      /\ DOMAIN both = 1 .. Len(list) + Len(more)
      /\ \A i \in 1 .. Len(list) + Len(more) :
           both[i] = IF i <= Len(list) THEN list[i] ELSE more[i - Len(list)]
  BY <1>1
<1> HIDE DEF both
<1>3. ASSUME NEW i \in DOMAIN both
      PROVE  both[i] \in Elements(list) \cup Elements(more)
  <2>1. CASE i <= Len(list)
    <3>1. i \in DOMAIN list /\ both[i] = list[i]
      BY <1>1, <1>2, <2>1
    <3> QED
      BY <3>1 DEF Elements
  <2>2. CASE ~(i <= Len(list))
    <3>1. i - Len(list) \in DOMAIN more /\ both[i] = more[i - Len(list)]
      BY <1>1, <1>2, <2>2
    <3> QED
      BY <3>1 DEF Elements
  <2> QED
    BY <2>1, <2>2
<1>4. ASSUME NEW i \in DOMAIN list
      PROVE  list[i] \in Elements(both)
  <2>1. i \in DOMAIN both /\ both[i] = list[i]
    BY <1>1, <1>2
  <2> QED
    BY <2>1 DEF Elements
<1>5. ASSUME NEW i \in DOMAIN more
      PROVE  more[i] \in Elements(both)
  <2>1. i + Len(list) \in DOMAIN both /\ both[i + Len(list)] = more[i]
    BY <1>1, <1>2
  <2> QED
    BY <2>1 DEF Elements
<1>6. Elements(both) = Elements(list) \cup Elements(more)
  BY <1>3, <1>4, <1>5 DEF Elements
<1> QED
  BY <1>2, <1>6 DEF both

-----------------------------------------------------------------------------
LEMMA WalkInitially ==
  ASSUME SourceOK, WalkInit
  PROVE  WalkInv
<1>1. pending = <<Root>> /\ reachable = {} /\ outcome = "running"
  BY DEF WalkInit
<1>2. pending \in Seq(Name) /\ Elements(pending) = {Root}
  BY <1>1, WalkAssumption DEF Elements
<1>3. Seen = {Root}
  BY <1>1, <1>2 DEF Seen
<1>4. Frontier
  BY <1>1, <1>3 DEF Frontier
<1>5. Forced
  BY <1>3 DEF Forced, Closed
<1>6. Raised
  BY <1>1 DEF Raised
<1> QED
  BY <1>1, <1>2, <1>4, <1>5, <1>6 DEF WalkInv

(* A step that leaves the set of seen paths alone.                         *)
LEMMA SameSeen ==
  ASSUME WalkInv, UNCHANGED source, Seen' = Seen, reachable' = reachable
  PROVE  SourceOK' /\ Frontier' /\ Forced'
<1>1. files' = files /\ imports' = imports
  BY DEF source
<1>2. SourceOK'
  BY <1>1 DEF WalkInv, SourceOK
<1>3. Frontier'
  BY <1>1 DEF WalkInv, Frontier, Imported
<1>4. Forced'
  BY <1>1 DEF WalkInv, Forced, Closed, Imported
<1> QED
  BY <1>2, <1>3, <1>4

LEMMA VisitAgainKeeps ==
  ASSUME WalkInv, VisitAgain, UNCHANGED source
  PROVE  WalkInv'
<1>1. /\ outcome = "running" /\ outcome' = "running" /\ reachable' = reachable
      /\ pending # << >> /\ Top \in reachable /\ pending' = Popped
  BY DEF VisitAgain
<1>2. /\ pending' \in Seq(Name)
      /\ Elements(pending) = Elements(pending') \cup {Top}
  BY <1>1, PopElements DEF WalkInv, Top, Popped
<1>3. Seen' = Seen
  BY <1>1, <1>2 DEF Seen
<1>4. SourceOK' /\ Frontier' /\ Forced'
  BY <1>1, <1>3, SameSeen
<1>5. Raised'
  BY <1>1 DEF Raised
<1>6. files' = files
  BY DEF source
<1> QED
  BY <1>1, <1>2, <1>4, <1>5, <1>6 DEF WalkInv

(* The steps that raise leave the stack as it is.                          *)
LEMMA RaiseKeeps ==
  ASSUME WalkInv, ImportMissing \/ ImportEscapes, UNCHANGED source
  PROVE  WalkInv'
<1>1. pending' = pending /\ reachable' = reachable /\ pending # << >>
  BY DEF ImportMissing, ImportEscapes, Raise
<1>2. files' = files /\ imports' = imports
  BY DEF source
<1>3. Seen' = Seen
  BY <1>1 DEF Seen
<1>4. SourceOK' /\ Frontier' /\ Forced'
  BY <1>1, <1>3, SameSeen
<1>5. Top' = Top /\ Escapes(Top)' = Escapes(Top)
  BY <1>1, <1>2 DEF Top, Escapes
<1>6. outcome' # "found"
  BY DEF ImportMissing, ImportEscapes, Raise
<1>7. Raised'
  <2>1. CASE ImportMissing
    BY <1>1, <1>2, <1>5, <2>1 DEF ImportMissing, Raise, Raised
  <2>2. CASE ImportEscapes
    BY <1>1, <1>2, <1>5, <2>2 DEF ImportEscapes, Raise, Raised
  <2> QED
    BY <2>1, <2>2
<1> QED
  BY <1>1, <1>2, <1>4, <1>6, <1>7 DEF WalkInv

LEMMA VisitKeeps ==
  ASSUME WalkInv, Visit, UNCHANGED source
  PROVE  WalkInv'
<1>1. /\ outcome = "running" /\ outcome' = "running"
      /\ pending # << >> /\ Top \in files /\ Top \in Repository
      /\ reachable' = reachable \cup {Top}
      /\ pending' = Popped \o imports[Top]
  BY DEF Visit
<1>2. files' = files /\ imports' = imports
  BY DEF source
<1>3. imports[Top] \in Seq(Name) /\ Elements(imports[Top]) = Imported(Top)
  BY <1>1 DEF WalkInv, SourceOK, Elements, Imported
<1>4. Popped \in Seq(Name) /\ Elements(pending) = Elements(Popped) \cup {Top}
  BY <1>1, PopElements DEF WalkInv, Top, Popped
<1>5. /\ pending' \in Seq(Name)
      /\ Elements(pending') = Elements(Popped) \cup Imported(Top)
  BY <1>1, <1>3, <1>4, ExtendElements
<1>6. Seen' = Seen \cup Imported(Top)
  BY <1>1, <1>4, <1>5 DEF Seen
<1>7. \A file : Imported(file)' = Imported(file)
  BY <1>2 DEF Imported
<1>8. Frontier'
  BY <1>1, <1>6, <1>7 DEF WalkInv, Frontier
<1>9. Forced'
  <2>1. SUFFICES ASSUME NEW paths \in SUBSET Name, Closed(paths)
                 PROVE  Seen' \subseteq paths
    BY <1>2, <1>7 DEF Forced, Closed
  <2>2. Seen \subseteq paths
    BY <2>1 DEF WalkInv, Forced
  <2>3. Top \in paths
    BY <1>4, <2>2 DEF Seen
  <2>4. Imported(Top) \subseteq paths
    BY <1>1, <2>1, <2>3 DEF Closed
  <2> QED
    BY <1>6, <2>2, <2>4
<1>10. Raised'
  BY <1>1 DEF Raised
<1>11. SourceOK' /\ reachable' \subseteq files' \cap Repository
  BY <1>1, <1>2 DEF WalkInv, SourceOK
<1> QED
  BY <1>1, <1>5, <1>8, <1>9, <1>10, <1>11 DEF WalkInv

LEMMA WalkEndKeeps ==
  ASSUME WalkInv, WalkEnd, UNCHANGED source
  PROVE  WalkInv'
<1>1. /\ pending = << >> /\ pending' = pending /\ reachable' = reachable
      /\ outcome' = "found"
  BY DEF WalkEnd
<1>2. Seen' = Seen
  BY <1>1 DEF Seen
<1>3. SourceOK' /\ Frontier' /\ Forced' /\ Raised'
  BY <1>1, <1>2, SameSeen DEF Raised
<1>4. files' = files
  BY DEF source
<1> QED
  BY <1>1, <1>3, <1>4 DEF WalkInv

LEMMA WalkStepKeeps ==
  ASSUME WalkInv, [WalkNext]_<<source, walk>>
  PROVE  WalkInv'
<1>1. CASE WalkNext
  BY <1>1, VisitAgainKeeps, RaiseKeeps, VisitKeeps, WalkEndKeeps DEF WalkNext
<1>2. CASE UNCHANGED <<source, walk>>
  <2>1. /\ files' = files /\ imports' = imports /\ pending' = pending
        /\ reachable' = reachable /\ outcome' = outcome
    BY <1>2 DEF source, walk
  <2>2. UNCHANGED source /\ Seen' = Seen /\ Raised'
    BY <2>1 DEF WalkInv, source, Seen, Raised, Top, Escapes
  <2>3. SourceOK' /\ Frontier' /\ Forced'
    BY <2>1, <2>2, SameSeen
  <2> QED
    BY <2>1, <2>2, <2>3 DEF WalkInv
<1> QED
  BY <1>1, <1>2

LEMMA WalkInvSuffices ==
  ASSUME WalkInv
  PROVE  WalkFindsTheClosure
<1>1. ASSUME outcome = "found"
      PROVE  Closed(reachable) /\ reachable \subseteq files \cap Repository
  <2>1. Seen = reachable
    BY <1>1 DEF WalkInv, Seen, Elements
  <2> QED
    BY <2>1 DEF WalkInv, Frontier, Closed
<1>2. ASSUME NEW paths \in SUBSET Name, Closed(paths)
      PROVE  /\ reachable \subseteq paths
             /\ outcome = "missing" => paths \ files # {}
             /\ outcome = "escapes" => paths \ Repository # {}
  <2>1. Seen \subseteq paths
    BY <1>2 DEF WalkInv, Forced
  <2>2. ASSUME outcome \in {"missing", "escapes"}
        PROVE  Top \in paths
    <3>1. Top \in Elements(pending)
      BY <2>2, PopElements DEF WalkInv, Raised, Top
    <3> QED
      BY <2>1, <3>1 DEF Seen
  <2>3. ASSUME outcome = "missing"
        PROVE  paths \ files # {}
    BY <2>2, <2>3 DEF WalkInv, Raised
  <2>4. ASSUME outcome = "escapes"
        PROVE  paths \ Repository # {}
    <3>1. Top \in files /\ (Top \notin Repository \/ Escapes(Top))
      BY <2>4 DEF WalkInv, Raised
    <3>2. Imported(Top) \subseteq paths
      BY <1>2, <2>2, <2>4, <3>1 DEF Closed
    <3>3. CASE Escapes(Top)
      BY <3>2, <3>3 DEF Escapes, Imported
    <3> QED
      BY <2>2, <2>4, <3>1, <3>3
  <2> QED
    BY <2>1, <2>3, <2>4 DEF Seen
<1> QED
  BY <1>1, <1>2 DEF WalkFindsTheClosure

(* For every set of files and every import graph, with any cycles in it,   *)
(* the walk finds exactly the closure of the root, or raises for a path    *)
(* that is in it.                                                          *)
THEOREM WalkCorrect == WalkSpec => []WalkFindsTheClosure
<1>1. SourceOK /\ WalkInit => WalkInv
  BY WalkInitially
<1>2. WalkInv /\ [WalkNext]_<<source, walk>> => WalkInv'
  BY WalkStepKeeps
<1>3. WalkInv => WalkFindsTheClosure
  BY WalkInvSuffices
<1> QED
  BY <1>1, <1>2, <1>3, PTL DEF WalkSpec, SourceOK

-----------------------------------------------------------------------------
(***************************************************************************)
(* The parser of the coverage map.                                         *)
(***************************************************************************)

(* Every line the map can have, and what is written on it.                 *)
Texts == Line \cup ToSet(InitialMap)

Values == {line.value : line \in Texts}

RecordType ==
  [id : Values, design : Values \cup {NoField}, status : Values \cup {NoField},
   since : Values \cup {NoField}, code : Seq(Values), tests : Seq(Values)]

ParserState ==
  [records : Seq(RecordType), section : Sections \cup {NoField}, raised : BOOLEAN]

(* What one line does to the parser.                                       *)
IdRead(p, q, line) ==
  /\ q.records = Append(p.records, NewRecord(line.value))
  /\ q.section = NoField /\ q.raised = FALSE

InLast(p, q, field, value) ==
  /\ q.records = [p.records EXCEPT ![Len(p.records)] =
                    [p.records[Len(p.records)] EXCEPT ![field] = value]]
  /\ q.raised = FALSE

ScalarRead(p, q, line) == InLast(p, q, line.kind, line.value) /\ q.section = NoField

SectionRead(p, q, line) ==
  q.records = p.records /\ q.section = line.value /\ q.raised = FALSE

ItemRead(p, q, line) ==
  /\ InLast(p, q, p.section, Append(p.records[Len(p.records)][p.section], line.value))
  /\ q.section = p.section

Raises(p, q, line) ==
  q.raised = TRUE /\ q.records = p.records /\ q.section = p.section

(* Nothing the parser can do with a line.                                  *)
Unread(p, line) ==
  /\ line.kind \notin {"comment", "id"}
  /\ ~ (line.kind \in Scalars \cup {"section"} /\ p.records # << >>)
  /\ ~ (line.kind = "item" /\ p.records # << >> /\ p.section # NoField)

Shaped(q) == q = [records |-> q.records, section |-> q.section, raised |-> q.raised]

(* The cases are those of ParseLine.                                       *)
LineEffect(p, q, line) ==
  \/ line.kind = "comment" /\ q = p
  \/ line.kind = "id" /\ IdRead(p, q, line)
  \/ line.kind \in Scalars /\ p.records # << >> /\ ScalarRead(p, q, line)
  \/ line.kind = "section" /\ p.records # << >> /\ SectionRead(p, q, line)
  \/ line.kind = "item" /\ p.records # << >> /\ p.section # NoField /\ ItemRead(p, q, line)
  \/ Unread(p, line) /\ Raises(p, q, line)

LEMMA LineRead ==
  ASSUME NEW p \in ParserState, NEW line, ~ p.raised,
         NEW q, q = ParseLine(p, line)
  PROVE  /\ Shaped(q)
         /\ LineEffect(p, q, line)
<1>1. /\ p.records \in Seq(RecordType) /\ p.raised = FALSE
      /\ p = [records |-> p.records, section |-> p.section, raised |-> p.raised]
      /\ p.section \in Sections \cup {NoField}
  BY DEF ParserState
<1>2. CASE line.kind = "comment"
  <2>1. q = p
    BY <1>1, <1>2, SMTT(60) DEF ParseLine, InRecord, Scalars
  <2>. QED
    BY <1>1, <1>2, <2>1 DEF LineEffect, Shaped
<1>3. CASE line.kind = "id"
  <2>1. q = [p EXCEPT !.records = Append(p.records, NewRecord(line.value)), !.section = NoField]
    BY <1>1, <1>3, SMTT(60) DEF ParseLine, InRecord, Scalars
  <2>2. IdRead(p, q, line)
    BY <1>1, <2>1 DEF IdRead
  <2>9. Shaped(q)
    BY <1>1, <2>1 DEF Shaped
  <2>. QED
    BY <1>3, <2>2, <2>9 DEF LineEffect
<1>4. CASE line.kind \in Scalars /\ p.records # << >>
  <2>1. q = WithScalar(p, line)
    BY <1>1, <1>4 DEF ParseLine, InRecord, Scalars
  <2> DEFINE last == Len(p.records)
             new == [p.records[last] EXCEPT ![line.kind] = line.value]
  <2>2. q = [p EXCEPT !.records = [p.records EXCEPT ![last] = new], !.section = NoField]
    BY <2>1 DEF WithScalar
  <2>. HIDE DEF last, new
  <2>4. q.records = [p.records EXCEPT ![last] = new] /\ q.section = NoField /\ q.raised = FALSE
    BY <1>1, <2>2
  <2>5. ScalarRead(p, q, line)
    BY <2>4 DEF ScalarRead, InLast, last, new
  <2>9. Shaped(q)
    BY <1>1, <2>2 DEF Shaped
  <2>. QED
    BY <1>4, <2>5, <2>9 DEF LineEffect
<1>5. CASE line.kind = "section" /\ p.records # << >>
  <2>1. q = [p EXCEPT !.section = line.value]
    BY <1>1, <1>5 DEF ParseLine, InRecord, Scalars
  <2>2. SectionRead(p, q, line)
    BY <1>1, <2>1 DEF SectionRead
  <2>9. Shaped(q)
    BY <1>1, <2>1 DEF Shaped
  <2>. QED
    BY <1>5, <2>2, <2>9 DEF LineEffect
<1>6. CASE line.kind = "item" /\ p.records # << >> /\ p.section # NoField
  <2> DEFINE last == Len(p.records)
             new == [p.records[last] EXCEPT ![p.section] =
                       Append(p.records[last][p.section], line.value)]
  <2>1. q = [p EXCEPT !.records[last][p.section] = Append(@, line.value)]
    BY <1>1, <1>6 DEF ParseLine, InRecord, Scalars
  <2>2. q = [p EXCEPT !.records = [p.records EXCEPT ![last] = new]]
    BY <2>1
  <2>. HIDE DEF last, new
  <2>4. q.records = [p.records EXCEPT ![last] = new] /\ q.section = p.section /\ q.raised = FALSE
    BY <1>1, <2>2
  <2>5. ItemRead(p, q, line)
    BY <2>4 DEF ItemRead, InLast, last, new
  <2>9. Shaped(q)
    BY <1>1, <2>2 DEF Shaped
  <2>. QED
    BY <1>6, <2>5, <2>9 DEF LineEffect
<1>7. CASE /\ line.kind \notin {"comment", "id"}
           /\ ~ (line.kind \in Scalars /\ p.records # << >>)
           /\ ~ (line.kind = "section" /\ p.records # << >>)
           /\ ~ (line.kind = "item" /\ p.records # << >> /\ p.section # NoField)
  <2>1. q = [p EXCEPT !.raised = TRUE]
    BY <1>1, <1>7 DEF ParseLine, InRecord
  <2>2. Raises(p, q, line)
    BY <1>1, <2>1 DEF Raises
  <2>9. Shaped(q)
    BY <1>1, <2>1 DEF Shaped
  <2>. QED
    BY <1>7, <2>2, <2>9 DEF LineEffect, Unread
<1>. QED
  BY <1>2, <1>3, <1>4, <1>5, <1>6, <1>7

LEMMA RecordFieldSet ==
  ASSUME NEW r \in RecordType, NEW value \in Values
  PROVE  /\ \A field \in Scalars : [r EXCEPT ![field] = value] \in RecordType
         /\ \A section \in Sections :
              /\ r[section] \in Seq(Values)
              /\ [r EXCEPT ![section] = Append(r[section], value)] \in RecordType
<1>1. \A field \in Scalars : [r EXCEPT ![field] = value] \in RecordType
  BY DEF Scalars, RecordType
<1>2. /\ r.code \in Seq(Values) /\ r.tests \in Seq(Values)
      /\ Append(r.code, value) \in Seq(Values) /\ Append(r.tests, value) \in Seq(Values)
  BY DEF RecordType
<1>3. ASSUME NEW list \in Seq(Values)
      PROVE  /\ [r EXCEPT !["code"] = list] \in RecordType
             /\ [r EXCEPT !["tests"] = list] \in RecordType
  BY DEF RecordType
<1>4. \A section \in Sections : section = "code" \/ section = "tests"
  BY DEF Sections
<1>5. /\ [r EXCEPT !["code"] = Append(r.code, value)] \in RecordType
      /\ [r EXCEPT !["tests"] = Append(r.tests, value)] \in RecordType
  BY <1>2, <1>3
<1>. QED
  BY <1>1, <1>2, <1>4, <1>5

LEMMA NewRecordTyped ==
  ASSUME NEW value \in Values
  PROVE  NewRecord(value) \in RecordType
BY DEF NewRecord, RecordType

(* The parser's state keeps its type.                                      *)
LEMMA ParseLineTyped ==
  ASSUME NEW p \in ParserState, NEW line \in Texts
  PROVE  ParseLine(p, line) \in ParserState
<1> DEFINE q == ParseLine(p, line)
           last == Len(p.records)
<1>1. /\ p.records \in Seq(RecordType) /\ p.raised \in BOOLEAN
      /\ p.section \in Sections \cup {NoField}
      /\ p = [records |-> p.records, section |-> p.section, raised |-> p.raised]
  BY DEF ParserState
<1>2. line.value \in Values
  BY DEF Values
<1>3. line.kind = "section" => line.value \in Sections
  <2>1. line \in Line \cup ToSet(InitialMap)
    BY DEF Texts
  <2>. QED
    BY <2>1, MapAssumption
<1>4. CASE p.raised = TRUE
  <2>1. q = p
    BY <1>4 DEF ParseLine
  <2>. QED
    BY <2>1
<1>5. CASE p.raised = FALSE
  <2>1. Shaped(q) /\ LineEffect(p, q, line)
    BY <1>5, LineRead
  <2>. HIDE DEF q
  <2>2. ASSUME p.records # << >>
        PROVE  last \in 1 .. last /\ p.records[last] \in RecordType /\ last \in Nat
    BY <1>1, <2>2
  <2>3. ASSUME NEW new \in RecordType, q.records = [p.records EXCEPT ![last] = new],
               p.records # << >>
        PROVE  q.records \in Seq(RecordType)
    BY <1>1, <2>3
  <2>. HIDE DEF last
  <2>4. ASSUME q.records \in Seq(RecordType), q.section \in Sections \cup {NoField},
               q.raised \in BOOLEAN
        PROVE  q \in ParserState
    BY <2>1, <2>4 DEF Shaped, ParserState
  <2>5. ASSUME line.kind = "comment", q = p PROVE q \in ParserState
    BY <2>5
  <2>6. ASSUME line.kind = "id", IdRead(p, q, line) PROVE q \in ParserState
    <3>1. q.records \in Seq(RecordType)
      BY <1>1, <1>2, <2>6, NewRecordTyped DEF IdRead
    <3>. QED
      BY <2>4, <2>6, <3>1 DEF IdRead
  <2>7. ASSUME line.kind \in Scalars, p.records # << >>, ScalarRead(p, q, line)
        PROVE  q \in ParserState
    <3>1. [p.records[last] EXCEPT ![line.kind] = line.value] \in RecordType
      BY <1>2, <2>2, <2>7, RecordFieldSet
    <3>2. q.records \in Seq(RecordType)
      BY <2>3, <2>7, <3>1 DEF ScalarRead, InLast, last
    <3>. QED
      BY <2>4, <2>7, <3>2 DEF ScalarRead, InLast
  <2>8. ASSUME line.kind = "section", SectionRead(p, q, line) PROVE q \in ParserState
    BY <1>1, <1>3, <2>4, <2>8 DEF SectionRead
  <2>9. ASSUME line.kind = "item", p.records # << >>, p.section # NoField, ItemRead(p, q, line)
        PROVE  q \in ParserState
    <3>1. p.section \in Sections
      BY <1>1, <2>9
    <3>2. [p.records[last] EXCEPT ![p.section] =
             Append(p.records[last][p.section], line.value)] \in RecordType
      BY <1>2, <2>2, <2>9, <3>1, RecordFieldSet
    <3>3. q.records \in Seq(RecordType)
      BY <2>3, <2>9, <3>2 DEF ItemRead, InLast, last
    <3>. QED
      BY <1>1, <2>4, <2>9, <3>3 DEF ItemRead, InLast
  <2>10. ASSUME Raises(p, q, line) PROVE q \in ParserState
    BY <1>1, <2>4, <2>10 DEF Raises
  <2>11. q \in ParserState
    BY <2>1, <2>5, <2>6, <2>7, <2>8, <2>9, <2>10 DEF LineEffect
  <2>. QED
    BY <2>11 DEF q
<1>. QED
  BY <1>1, <1>4, <1>5

(* Reading a text is reading its lines one after the other.                *)
LEMMA ParseSteps ==
  ASSUME NEW text \in Seq(Texts)
  PROVE  \E acc : /\ acc[0] = Parsing
                  /\ \A k \in 0 .. Len(text) : acc[k] \in ParserState
                  /\ \A k \in 1 .. Len(text) : acc[k] = ParseLine(acc[k - 1], text[k])
                  /\ ParseCoverage(text) = acc[Len(text)]
<1> DEFINE A == ParserState
           n == Len(text)
           step == [p \in (1 .. n) \X A |-> ParseLine(p[2], text[p[1]])]
           Iterates(h) == h = [s \in SUBSET DOMAIN text |->
             IF s = {} THEN Parsing ELSE ParseLine(h[s \ {Max(s)}], text[Max(s)])]
           iter == CHOOSE h : Iterates(h)
           result == ParseCoverage(text)
<1>1. Parsing \in A
  BY DEF Parsing, ParserState
<1>2. n \in Nat /\ DOMAIN text = 1 .. n /\ \A k \in 1 .. n : text[k] \in Texts
  OBVIOUS
<1>3. result = iter[DOMAIN text]
  BY DEF ParseCoverage, FoldLeft, MapThenFoldSet
<1>4. \A k \in 1 .. n, a \in A : ParseLine(a, text[k]) \in A
  BY <1>2, ParseLineTyped
<1>. HIDE DEF A, n, result
<1>5. \A k \in 1 .. n, a \in A : step[<<k, a>>] = ParseLine(a, text[k])
  OBVIOUS
<1>6. StaysIn(step, 1 .. n, A)
  BY <1>4, <1>5 DEF StaysIn
<1>. HIDE DEF step
<1>7. Iterates(iter)
  <2>1. PICK g \in [SUBSET (1 .. n) -> A] : LeftFolds(g, n, Parsing, step)
    BY <1>1, <1>2, <1>6, LeftFoldExists
  <2>2. ASSUME NEW s \in SUBSET (1 .. n)
        PROVE  g[s] = IF s = {} THEN Parsing ELSE ParseLine(g[s \ {Max(s)}], text[Max(s)])
    BY <1>2, <1>5, <2>1, LastPosition DEF LeftFolds
  <2>3. Iterates(g)
    BY <1>2, <2>2
  <2>. QED
    BY <2>3
<1>. HIDE DEF iter
<1>8. LeftFoldsIn(iter, n, A, Parsing, step)
  <2>1. ASSUME NEW s \in SUBSET (1 .. n)
        PROVE  iter[s] = IF s = {} THEN Parsing ELSE ParseLine(iter[s \ {Max(s)}], text[Max(s)])
    BY <1>2, <1>7
  <2>2. ASSUME NEW s \in SUBSET (1 .. n), s # {}
        PROVE  iter[s] = ParseLine(iter[s \ {Max(s)}], text[Max(s)]) /\ Max(s) \in 1 .. n
    BY <1>2, <2>1, <2>2, LastPosition
  <2>. QED
    BY <1>5, <2>1, <2>2 DEF LeftFoldsIn
<1>9. PICK acc : Accumulates(acc, n, A, Parsing, step) /\ acc[n] = iter[1 .. n]
  BY <1>1, <1>2, <1>6, <1>8, LeftFoldAccumulates
<1>10. /\ acc[0] = Parsing
       /\ \A k \in 0 .. n : acc[k] \in A
       /\ \A k \in 1 .. n : acc[k] = ParseLine(acc[k - 1], text[k])
  <2>1. \A k \in 1 .. n : k - 1 \in 0 .. n
    BY <1>2
  <2>. QED
    BY <1>5, <1>9, <2>1 DEF Accumulates
<1>11. result = acc[n]
  BY <1>2, <1>3, <1>9
<1>. QED
  BY <1>10, <1>11 DEF A, n, result

(* What ElementsAt keeps of the records, and of the ids that occur twice.  *)
LEMMA SelectedRecords ==
  ASSUME NEW records \in Seq(RecordType), NEW ids
  PROVE  LET chosen == Selected(records, ids)
         IN  /\ chosen \in Seq(RecordType)
             /\ \A i \in DOMAIN chosen :
                  chosen[i].id \in ids /\ \E j \in DOMAIN records : chosen[i] = records[j]
             /\ \A j \in DOMAIN records : records[j].id \in ids =>
                  \E i \in DOMAIN chosen : chosen[i] = records[j]
             /\ Duplicates(chosen) = Duplicates(records) \cap ids
<1> DEFINE places == {i \in DOMAIN records : records[i].id \in ids}
           chosen == Selected(records, ids)
<1>1. chosen = ElementsAt(records, places)
  BY DEF Selected
<1>. HIDE DEF places, chosen
<1>2. PICK place :
        /\ Enumerates(place, Len(records), places)
        /\ Len(chosen) = Len(place)
        /\ \A k \in 1 .. Len(place) : chosen[k] = records[place[k]]
  BY <1>1, ElementsAtPlaces
<1>3. chosen \in Seq(RecordType)
  BY <1>1, ElementsAtPlaces
<1>4. /\ DOMAIN records = 1 .. Len(records) /\ Len(records) \in Nat
      /\ DOMAIN chosen = 1 .. Len(chosen) /\ Len(chosen) \in Nat
  BY <1>3
<1>5. /\ \A k \in DOMAIN chosen : place[k] \in DOMAIN records /\ place[k] \in places
      /\ \A k \in DOMAIN chosen : chosen[k] = records[place[k]]
      /\ \A k, l \in DOMAIN chosen : k < l => place[k] < place[l]
      /\ \A i \in DOMAIN records : i \in places => \E k \in DOMAIN chosen : place[k] = i
  BY <1>2, <1>4 DEF Enumerates
<1>6. \A i \in DOMAIN records : i \in places <=> records[i].id \in ids
  BY DEF places
<1>7. \A i \in DOMAIN chosen :
        chosen[i].id \in ids /\ \E j \in DOMAIN records : chosen[i] = records[j]
  BY <1>5, <1>6
<1>8. \A j \in DOMAIN records : records[j].id \in ids =>
        \E i \in DOMAIN chosen : chosen[i] = records[j]
  BY <1>5, <1>6
<1>9. \A list \in Seq(RecordType) : \A id :
        id \in Duplicates(list) <=>
          \E k, j \in DOMAIN list : k < j /\ list[k].id = id /\ list[j].id = id
  <2>. SUFFICES ASSUME NEW list \in Seq(RecordType), NEW id
                PROVE  id \in Duplicates(list) <=>
                         \E k, j \in DOMAIN list : k < j /\ list[k].id = id /\ list[j].id = id
    OBVIOUS
  <2>1. DOMAIN list = 1 .. Len(list) /\ Len(list) \in Nat
    OBVIOUS
  <2>2. \A j \in DOMAIN list : \A k : k \in 1 .. j - 1 <=> k \in DOMAIN list /\ k < j
    BY <2>1
  <2>3. id \in Duplicates(list) <=>
          \E j \in DOMAIN list : /\ \E k \in 1 .. j - 1 : list[k].id = list[j].id
                                /\ list[j].id = id
    BY DEF Duplicates
  <2>. QED
    BY <2>2, <2>3
<1>10. ASSUME NEW id, id \in Duplicates(chosen)
       PROVE  id \in Duplicates(records) /\ id \in ids
  <2>1. PICK k \in DOMAIN chosen, j \in DOMAIN chosen :
          k < j /\ chosen[k].id = id /\ chosen[j].id = id
    BY <1>3, <1>9, <1>10
  <2>2. /\ place[k] \in DOMAIN records /\ place[j] \in DOMAIN records
        /\ place[k] < place[j]
        /\ records[place[k]].id = id /\ records[place[j]].id = id
    BY <1>5, <2>1
  <2>. QED
    BY <1>7, <1>9, <2>1, <2>2
<1>11. ASSUME NEW id, id \in Duplicates(records), id \in ids
       PROVE  id \in Duplicates(chosen)
  <2>1. PICK k \in DOMAIN records, j \in DOMAIN records :
          k < j /\ records[k].id = id /\ records[j].id = id
    BY <1>9, <1>11
  <2>2. PICK a \in DOMAIN chosen : place[a] = k
    BY <1>5, <1>6, <1>11, <2>1
  <2>3. PICK b \in DOMAIN chosen : place[b] = j
    BY <1>5, <1>6, <1>11, <2>1
  <2>4. a < b
    <3>1. a \in Nat /\ b \in Nat /\ k \in Nat /\ j \in Nat
      BY <1>4
    <3>2. ~ (b < a) /\ a # b
      BY <1>5, <2>1, <2>2, <2>3, <3>1
    <3>. QED
      BY <3>1, <3>2
  <2>5. chosen[a].id = id /\ chosen[b].id = id
    BY <1>5, <2>1, <2>2, <2>3
  <2>. QED
    BY <1>3, <1>9, <2>4, <2>5
<1>. QED
  BY <1>3, <1>7, <1>8, <1>10, <1>11 DEF chosen

LEMMA ParsedRecords ==
  ASSUME NEW text \in Seq(Texts)
  PROVE  ParseCoverage(text).records \in Seq(RecordType)
<1>1. Len(text) \in 0 .. Len(text)
  OBVIOUS
<1>2. ParseCoverage(text) \in ParserState
  BY <1>1, ParseSteps
<1>. QED
  BY <1>2 DEF ParserState

LEMMA NothingFails ==
  ASSUME NEW records, NEW discovered, NEW executed
  PROVE  ValidateRecords(records, discovered, executed) = {} <=>
           /\ Duplicates(records) = {}
           /\ \A i \in DOMAIN records : RecordFailures(records[i], discovered, executed) = {}
           /\ M1Seen(records) = M1Ids
<1> DEFINE twice == {<<"duplicate id", id>> : id \in Duplicates(records)}
           own == {RecordFailures(records[i], discovered, executed) : i \in DOMAIN records}
           lacking == {<<"lacks required", id>> : id \in M1Ids \ M1Seen(records)}
           foreign == {<<"unselected", id>> : id \in M1Seen(records) \ M1Ids}
<1>1. twice = {} <=> Duplicates(records) = {}
  <2>1. \A id \in Duplicates(records) : <<"duplicate id", id>> \in twice
    OBVIOUS
  <2>. QED
    BY <2>1
<1>2. UNION own = {} <=>
        \A i \in DOMAIN records : RecordFailures(records[i], discovered, executed) = {}
  <2>1. \A i \in DOMAIN records : RecordFailures(records[i], discovered, executed) \in own
    OBVIOUS
  <2>2. \A set \in own : \E i \in DOMAIN records :
          set = RecordFailures(records[i], discovered, executed)
    OBVIOUS
  <2>. HIDE DEF own
  <2>. QED
    BY <2>1, <2>2
<1>3. lacking = {} <=> M1Ids \ M1Seen(records) = {}
  <2>1. \A id \in M1Ids \ M1Seen(records) : <<"lacks required", id>> \in lacking
    OBVIOUS
  <2>. QED
    BY <2>1
<1>4. foreign = {} <=> M1Seen(records) \ M1Ids = {}
  <2>1. \A id \in M1Seen(records) \ M1Ids : <<"unselected", id>> \in foreign
    OBVIOUS
  <2>. QED
    BY <2>1
<1>5. ValidateRecords(records, discovered, executed) = twice \cup (UNION own) \cup lacking \cup foreign
  BY DEF ValidateRecords
<1> DEFINE each == \A i \in DOMAIN records :
                     RecordFailures(records[i], discovered, executed) = {}
<1>6. UNION own = {} <=> each
  BY <1>2
<1>7. M1Seen(records) = M1Ids <=>
        M1Ids \ M1Seen(records) = {} /\ M1Seen(records) \ M1Ids = {}
  OBVIOUS
<1>. HIDE DEF twice, own, lacking, foreign, each
<1>8. ValidateRecords(records, discovered, executed) = {} <=>
        twice = {} /\ UNION own = {} /\ lacking = {} /\ foreign = {}
  BY <1>5
<1>9. ValidateRecords(records, discovered, executed) = {} <=>
        Duplicates(records) = {} /\ each /\ M1Seen(records) = M1Ids
  BY <1>1, <1>3, <1>4, <1>6, <1>7, <1>8
<1>. QED
  BY <1>9 DEF each

(* A map that M2 accepts is one that M1 accepts: the claims of M1 are      *)
(* among those of M2.                                                      *)
LEMMA M2CoverageImpliesM1 ==
  ASSUME NEW text \in Seq(Texts), NEW discovered, NEW executed,
         M2Coverage(text, discovered, executed)
  PROVE  M1Coverage(text, discovered, executed)
<1> DEFINE records == ParseCoverage(text).records
           older == Selected(records, M1Ids)
           newer == Selected(records, M2Ids)
<1>1. /\ ~ParseCoverage(text).raised
      /\ ValidateRecords(newer, discovered, executed) = {}
  BY DEF M2Coverage
<1>2. records \in Seq(RecordType) /\ M1Ids \subseteq M2Ids
  BY ParsedRecords DEF M2Ids
<1>. HIDE DEF records, older, newer
<1>3. /\ Duplicates(older) = Duplicates(records) \cap M1Ids
      /\ Duplicates(newer) = Duplicates(records) \cap M2Ids
      /\ \A i \in DOMAIN older :
           older[i].id \in M1Ids /\ \E j \in DOMAIN records : older[i] = records[j]
      /\ \A j \in DOMAIN records : records[j].id \in M2Ids =>
           \E i \in DOMAIN newer : newer[i] = records[j]
      /\ \A j \in DOMAIN records : records[j].id \in M1Ids =>
           \E i \in DOMAIN older : older[i] = records[j]
      /\ \A i \in DOMAIN newer : \E j \in DOMAIN records : newer[i] = records[j]
  BY <1>2, SelectedRecords DEF older, newer
<1>4. \A i \in DOMAIN older : \E j \in DOMAIN newer : older[i] = newer[j]
  BY <1>2, <1>3
<1>5. /\ Duplicates(newer) = {}
      /\ \A i \in DOMAIN newer : RecordFailures(newer[i], discovered, executed) = {}
      /\ M1Seen(newer) = M1Ids
  BY <1>1, NothingFails
<1>6. Duplicates(older) = {}
  BY <1>2, <1>3, <1>5
<1>7. \A i \in DOMAIN older : RecordFailures(older[i], discovered, executed) = {}
  BY <1>4, <1>5
<1>8. M1Ids \subseteq M1Seen(older)
  <2>. SUFFICES ASSUME NEW id \in M1Ids PROVE id \in M1Seen(older)
    OBVIOUS
  <2>1. PICK j \in DOMAIN newer : newer[j].since = "m1" /\ newer[j].id = id
    BY <1>5 DEF M1Seen
  <2>2. PICK i \in DOMAIN older : older[i] = newer[j]
    BY <1>3, <2>1
  <2>. QED
    BY <2>1, <2>2 DEF M1Seen
<1>9. M1Seen(older) \subseteq M1Ids
  BY <1>3 DEF M1Seen
<1>10. ValidateRecords(older, discovered, executed) = {}
  <2>1. M1Seen(older) = M1Ids
    BY <1>8, <1>9
  <2>. QED
    BY <1>6, <1>7, <2>1, NothingFails
<1>. QED
  BY <1>1, <1>10 DEF M1Coverage, M1Records, older, records

(* A record that fails only with fewer tests executed names one of those.  *)
LEMMA FewerTestsExecuted ==
  ASSUME NEW record, NEW discovered, NEW executed, NEW more,
         RecordFailures(record, discovered, executed \cup more) = {},
         ToSet(record.tests) \cap (more \ executed) = {}
  PROVE  RecordFailures(record, discovered, executed) = {}
<1>1. (ToSet(record.tests) \cap discovered) \ executed
        = (ToSet(record.tests) \cap discovered) \ (executed \cup more)
  OBVIOUS
<1>. QED
  BY <1>1, ZenonT(90) DEF RecordFailures

(* A map that M3 accepts is one that M2 accepts, unless a record of M1 or  *)
(* M2 names a test that only M3 counts as executed.                        *)
LEMMA M3CoverageImpliesM2 ==
  ASSUME NEW text \in Seq(Texts), NEW discovered, NEW executed, NEW more,
         M3Coverage(text, discovered, executed, more),
         \A i \in DOMAIN ParseCoverage(text).records :
           ParseCoverage(text).records[i].id \in M2Ids =>
             ToSet(ParseCoverage(text).records[i].tests) \cap (more \ executed) = {}
  PROVE  M2Coverage(text, discovered, executed)
<1> DEFINE records == ParseCoverage(text).records
           newer == Selected(records, M2Ids)
<1>1. /\ ~ParseCoverage(text).raised
      /\ ValidateRecords(records, discovered, executed \cup more) = {}
      /\ Ids(records) = M3Ids
      /\ ProvenanceKept(records)
      /\ \A i \in DOMAIN records : records[i].id \in M2Ids =>
           ToSet(records[i].tests) \cap (more \ executed) = {}
  BY DEF M3Coverage
<1>2. records \in Seq(RecordType) /\ M1Ids \subseteq M2Ids /\ M2Ids \subseteq M3Ids
  BY ParsedRecords DEF M2Ids, M3Ids
<1>. HIDE DEF records, newer
<1>3. /\ Duplicates(newer) = Duplicates(records) \cap M2Ids
      /\ \A i \in DOMAIN newer :
           newer[i].id \in M2Ids /\ \E j \in DOMAIN records : newer[i] = records[j]
      /\ \A j \in DOMAIN records : records[j].id \in M2Ids =>
           \E i \in DOMAIN newer : newer[i] = records[j]
  BY <1>2, SelectedRecords DEF newer
<1>4. /\ Duplicates(records) = {}
      /\ \A i \in DOMAIN records :
           RecordFailures(records[i], discovered, executed \cup more) = {}
  BY <1>1, NothingFails
<1>5. \A i \in DOMAIN newer : RecordFailures(newer[i], discovered, executed) = {}
  BY <1>1, <1>3, <1>4, FewerTestsExecuted
<1>6. ProvenanceKept(newer)
  BY <1>1, <1>3 DEF ProvenanceKept
<1>7. Ids(newer) = M2Ids
  <2>1. Ids(newer) \subseteq M2Ids
    BY <1>3 DEF Ids
  <2>2. ASSUME NEW id \in M2Ids PROVE id \in Ids(newer)
    <3>1. PICK j \in DOMAIN records : records[j].id = id
      BY <1>1, <1>2 DEF Ids
    <3>. QED
      BY <1>3, <3>1 DEF Ids
  <2>. QED
    BY <2>1, <2>2
<1>8. M1Seen(newer) = M1Ids
  <2>1. \A i \in DOMAIN newer : newer[i].since = "m1" <=> newer[i].id \in M1Ids
    BY <1>6 DEF ProvenanceKept, Provenance
  <2>2. \A id \in M1Ids : \E i \in DOMAIN newer : newer[i].id = id
    BY <1>2, <1>7 DEF Ids
  <2>. QED
    BY <2>1, <2>2 DEF M1Seen
<1>9. Duplicates(newer) = {}
  BY <1>3, <1>4
<1>10. ValidateRecords(newer, discovered, executed) = {}
  BY <1>5, <1>8, <1>9, NothingFails
<1>. QED
  BY <1>1, <1>6, <1>7, <1>10 DEF M2Coverage, newer, records

(* The version gates ask for less and less.                                *)
LEMMA VersionGatesNest ==
  ASSUME NEW text, NEW package, NEW api
  PROVE  /\ M3Version(text, package, api) => M2Version(text, package, api)
         /\ M2Version(text, package, api) => M1Version(text, package, api)
<1>1. \A versions, fewer : fewer \subseteq versions /\ CountsKept(text, versions)
                            => CountsKept(text, fewer)
  BY DEF CountsKept
<1>2. \A versions, fewer : fewer \subseteq versions /\ OneVersion(package, api, fewer)
                            => OneVersion(package, api, versions)
  BY DEF OneVersion
<1>3. M3Version(text, package, api) => M2Version(text, package, api)
  BY <1>1, <1>2 DEF M3Version, M2Version
<1>4. M2Version(text, package, api) => M1Version(text, package, api)
  BY <1>1, <1>2 DEF M2Version, M1Version
<1>. QED
  BY <1>3, <1>4

(* The seven forgeries of an accepted map are refused, each for its reason. *)
LEMMA ForgeriesRefused ==
  ASSUME NEW text \in Seq(Texts), NEW discovered, NEW executed,
         M1Coverage(text, discovered, executed),
         Unknown \notin discovered, "fixture" \notin executed
  PROVE  SelfTestsPass(text, discovered, executed)
<1> DEFINE records == M1Records(text)
           known == discovered \cup {"fixture"}
<1>1. records \in Seq(RecordType) /\ M1Seen(records) = M1Ids
  BY ParsedRecords, SelectedRecords, NothingFails DEF M1Records, M1Coverage
<1>2. records # << >> /\ 1 \in DOMAIN records /\ records[1] \in RecordType
  <2>1. records # << >>
    BY <1>1, IdsAssumption DEF M1Seen
  <2>. QED
    BY <1>1, <2>1
<1>. HIDE DEF records
<1>3. ASSUME NEW forged, NEW class, NEW i \in DOMAIN forged,
             \E id : <<class, id>> \in RecordFailures(forged[i], known, executed)
      PROVE  FailureExpected(<<class, forged>>, discovered, executed)
  <2>1. PICK id : <<class, id>> \in RecordFailures(forged[i], known, executed)
    BY <1>3
  <2>2. <<class, id>> \in ValidateRecords(forged, known, executed)
    BY <2>1 DEF ValidateRecords
  <2>. QED
    BY <2>2 DEF FailureExpected
<1>4. ASSUME NEW field \in {"id", "status", "code", "tests"}, NEW value
      PROVE  /\ 1 \in DOMAIN First(records, field, value)
             /\ First(records, field, value)[1] = [records[1] EXCEPT ![field] = value]
  BY <1>1, <1>2 DEF First
<1>5. ASSUME NEW field \in {"id", "status", "code", "tests"}, NEW value
      PROVE  [records[1] EXCEPT ![field] = value][field] = value
  BY <1>2 DEF RecordType
<1>6. FailureExpected(<<"unknown id", First(records, "id", Unknown)>>, discovered, executed)
  <2> DEFINE r == First(records, "id", Unknown)[1]
  <2>1. r.id = Unknown
    BY <1>4, <1>5
  <2>. HIDE DEF r
  <2>2. <<"unknown id", r.id>> \in RecordFailures(r, known, executed)
    BY <2>1, IdsAssumption DEF RecordFailures
  <2>. QED
    BY <1>3, <1>4, <2>2 DEF r
<1>7. FailureExpected(<<"missing path", First(records, "code", <<Unknown>>)>>, discovered, executed)
  <2> DEFINE r == First(records, "code", <<Unknown>>)[1]
  <2>1. r.code = <<Unknown>>
    BY <1>4, <1>5
  <2>. HIDE DEF r
  <2>2. MissingPath(r)
    BY <2>1, IdsAssumption DEF MissingPath
  <2>3. <<"missing path", r.id>> \in RecordFailures(r, known, executed)
    BY <2>2 DEF RecordFailures
  <2>. QED
    BY <1>3, <1>4, <2>3 DEF r
<1>8. FailureExpected(<<"missing test", First(records, "tests", <<Unknown>>)>>, discovered, executed)
  <2> DEFINE r == First(records, "tests", <<Unknown>>)[1]
  <2>1. r.tests = <<Unknown>>
    BY <1>4, <1>5
  <2>. HIDE DEF r
  <2>2. Unknown \in ToSet(r.tests) \ known
    BY <2>1, TestsAssumption DEF ToSet
  <2>3. <<"missing test", r.id>> \in RecordFailures(r, known, executed)
    BY <2>2 DEF RecordFailures
  <2>. QED
    BY <1>3, <1>4, <2>3 DEF r
<1>9. FailureExpected(<<"unreachable test", First(records, "tests", <<"fixture">>)>>, discovered, executed)
  <2> DEFINE r == First(records, "tests", <<"fixture">>)[1]
  <2>1. r.tests = <<"fixture">>
    BY <1>4, <1>5
  <2>. HIDE DEF r
  <2>2. "fixture" \in (ToSet(r.tests) \cap known) \ executed
    BY <2>1 DEF ToSet
  <2>3. <<"unreachable test", r.id>> \in RecordFailures(r, known, executed)
    BY <2>2 DEF RecordFailures
  <2>. QED
    BY <1>3, <1>4, <2>3 DEF r
<1>10. FailureExpected(<<"invalid status", First(records, "status", Unknown)>>, discovered, executed)
  <2> DEFINE r == First(records, "status", Unknown)[1]
  <2>1. r.status = Unknown
    BY <1>4, <1>5
  <2>. HIDE DEF r
  <2>2. <<"invalid status", r.id>> \in RecordFailures(r, known, executed)
    BY <2>1, IdsAssumption, FieldAssumption DEF RecordFailures
  <2>. QED
    BY <1>3, <1>4, <2>2 DEF r
<1>11. FailureExpected(<<"empty code", First(records, "code", << >>)>>, discovered, executed)
  <2> DEFINE r == First(records, "code", << >>)[1]
  <2>1. r.code = << >>
    BY <1>4, <1>5
  <2>. HIDE DEF r
  <2>2. <<"empty code", r.id>> \in RecordFailures(r, known, executed)
    BY <2>1 DEF RecordFailures
  <2>. QED
    BY <1>3, <1>4, <2>2 DEF r
<1>12. FailureExpected(<<"duplicate id", Append(records, records[1])>>, discovered, executed)
  <2> DEFINE forged == Append(records, records[1])
             size == Len(records) + 1
  <2>1. /\ size \in DOMAIN forged /\ forged[size] = records[1]
        /\ 1 \in 1 .. size - 1 /\ forged[1] = records[1]
    BY <1>1, <1>2
  <2>2. records[1].id \in Duplicates(forged)
    <3>. HIDE DEF forged, size
    <3>. QED
      BY <2>1 DEF Duplicates
  <2>. HIDE DEF forged
  <2>3. <<"duplicate id", records[1].id>> \in ValidateRecords(forged, known, executed)
    BY <2>2 DEF ValidateRecords
  <2>. QED
    BY <2>3 DEF FailureExpected, forged
<1>13. \A forgery \in SelfTestForgeries(records) : FailureExpected(forgery, discovered, executed)
  BY <1>6, <1>7, <1>8, <1>9, <1>10, <1>11, <1>12, Zenon DEF SelfTestForgeries
<1>. QED
  BY <1>13 DEF SelfTestsPass, records

-----------------------------------------------------------------------------
(***************************************************************************)
(* The gates over one source tree.  No gate looks at the map twice: the    *)
(* verdicts are those of the map and the tree as they are, and stay so.    *)
(***************************************************************************)
CoverageVerdict ==
  <<M1Coverage(lines, Discovered, Executed),
    M2Coverage(lines, Discovered, Executed),
    M3Coverage(lines, Discovered, Executed, M3Tests)>>

VersionVerdict(package, api) ==
  <<M1Version(lines, package, api), M2Version(lines, package, api),
    M3Version(lines, package, api)>>

VerdictInv ==
  verdict # NoVerdict =>
    /\ outcome = "found"
    /\ verdict = [coverage |-> CoverageVerdict,
                  selfTest |-> SelfTestsPass(lines, Discovered, Executed),
                  version |-> verdict.version]
    /\ \/ verdict.version = << >>
       \/ \E package, api : verdict.version = VersionVerdict(package, api)

GatesInv ==
  /\ WalkInv
  /\ files \subseteq DOMAIN TestsIn
  /\ lines \in Seq(Texts)
  /\ VerdictInv

LEMMA GatesInitially == GatesInit => GatesInv
<1>. SUFFICES ASSUME GatesInit PROVE GatesInv
  OBVIOUS
<1>1. PICK tree \in Sources : files = tree.files /\ imports = tree.imports
  BY DEF GatesInit
<1>2. SourceOK /\ files \subseteq DOMAIN TestsIn
  BY <1>1, SourcesAssumption DEF SourceOK
<1>3. WalkInv
  BY <1>2, WalkInitially DEF GatesInit
<1>4. lines \in Seq(Texts)
  <2>1. \A S, T : S \subseteq T => Seq(S) \subseteq Seq(T)
    OBVIOUS
  <2>2. ToSet(InitialMap) \subseteq Texts
    BY DEF Texts
  <2>. QED
    BY <2>1, <2>2, MapAssumption DEF GatesInit
<1>5. VerdictInv
  BY DEF GatesInit, VerdictInv
<1>. QED
  BY <1>2, <1>3, <1>4, <1>5 DEF GatesInv

LEMMA EditKeepsLines ==
  ASSUME lines \in Seq(Texts), EditMap
  PROVE  lines' \in Seq(Texts)
<1>1. ASSUME NEW i \in DOMAIN lines PROVE RemoveAt(lines, i) \in Seq(Texts)
  <2>1. i \in 1 .. Len(lines) /\ Len(lines) \in Nat
    OBVIOUS
  <2>2. SubSeq(lines, 1, i - 1) \in Seq(Texts) /\ SubSeq(lines, i + 1, Len(lines)) \in Seq(Texts)
    BY <2>1
  <2>. QED
    BY <2>2 DEF RemoveAt
<1>2. ASSUME NEW i \in DOMAIN lines, NEW line \in Line
      PROVE  ReplaceAt(lines, i, line) \in Seq(Texts)
  BY DEF ReplaceAt, Texts
<1>. QED
  BY <1>1, <1>2 DEF EditMap

(* What the verdicts are of does not change.                               *)
LEMMA VerdictStands ==
  ASSUME VerdictInv, verdict # NoVerdict,
         UNCHANGED <<source, walk, lines, verdict>>
  PROVE  VerdictInv'
<1>1. /\ files' = files /\ reachable' = reachable /\ outcome' = outcome
      /\ lines' = lines /\ verdict' = verdict
  BY DEF source, walk
<1>2. Discovered' = Discovered /\ Executed' = Executed
  BY <1>1 DEF Discovered, Executed
<1>3. CoverageVerdict' = CoverageVerdict
  BY <1>1, <1>2 DEF CoverageVerdict
<1>4. \A package, api : VersionVerdict(package, api)' = VersionVerdict(package, api)
  BY <1>1 DEF VersionVerdict
<1>. QED
  BY <1>1, <1>2, <1>3, <1>4 DEF VerdictInv

LEMMA CoverageVerdictGiven ==
  ASSUME GatesInv, RunCoverageGates
  PROVE  VerdictInv'
<1>1. /\ files' = files /\ reachable' = reachable /\ outcome' = outcome
      /\ lines' = lines /\ outcome = "found"
      /\ verdict' = [coverage |-> CoverageVerdict,
                     selfTest |-> SelfTestsPass(lines, Discovered, Executed),
                     version |-> << >>]
  BY DEF RunCoverageGates, CoverageVerdict, source, walk
<1>2. Discovered' = Discovered /\ Executed' = Executed
  BY <1>1 DEF Discovered, Executed
<1>3. CoverageVerdict' = CoverageVerdict
  BY <1>1, <1>2 DEF CoverageVerdict
<1>4. verdict'.version = << >>
  BY <1>1
<1>. QED
  BY <1>1, <1>2, <1>3, <1>4 DEF VerdictInv

LEMMA VersionVerdictGiven ==
  ASSUME GatesInv, RunVersionGates
  PROVE  VerdictInv'
<1>1. /\ files' = files /\ reachable' = reachable /\ outcome' = outcome /\ lines' = lines
      /\ verdict # NoVerdict
  BY DEF RunVersionGates, source, walk
<1>2. PICK package \in VersionMatches, api \in VersionMatches :
        verdict' = [verdict EXCEPT !.version = VersionVerdict(package, api)]
  BY DEF RunVersionGates, VersionVerdict
<1>3. Discovered' = Discovered /\ Executed' = Executed
  BY <1>1 DEF Discovered, Executed
<1>4. /\ CoverageVerdict' = CoverageVerdict
      /\ VersionVerdict(package, api)' = VersionVerdict(package, api)
  BY <1>1, <1>3 DEF CoverageVerdict, VersionVerdict
<1>5. /\ outcome = "found"
      /\ verdict = [coverage |-> CoverageVerdict,
                    selfTest |-> SelfTestsPass(lines, Discovered, Executed),
                    version |-> verdict.version]
  BY <1>1 DEF GatesInv, VerdictInv
<1>6. verdict' = [coverage |-> CoverageVerdict,
                  selfTest |-> SelfTestsPass(lines, Discovered, Executed),
                  version |-> VersionVerdict(package, api)]
  <2>. HIDE DEF CoverageVerdict, VersionVerdict
  <2>. QED
    BY <1>2, <1>5
<1>7. verdict'.version = VersionVerdict(package, api)
  BY <1>6
<1>. QED
  BY <1>1, <1>3, <1>4, <1>5, <1>6, <1>7 DEF VerdictInv

LEMMA GatesStep ==
  ASSUME GatesInv, [GatesNext]_gatesVars
  PROVE  GatesInv'
<1>1. CASE EditMap
  <2>1. WalkInv' /\ (files \subseteq DOMAIN TestsIn)'
    BY <1>1, WalkStepKeeps DEF EditMap, GatesInv, source
  <2>2. lines' \in Seq(Texts)
    BY <1>1, EditKeepsLines DEF GatesInv
  <2>3. VerdictInv'
    BY <1>1 DEF EditMap, VerdictInv
  <2>. QED
    BY <2>1, <2>2, <2>3 DEF GatesInv
<1>2. CASE Walk
  <2>1. WalkInv' /\ (files \subseteq DOMAIN TestsIn)'
    BY <1>2, WalkStepKeeps DEF Walk, WalkNext, GatesInv, source
  <2>2. outcome = "running"
    BY <1>2 DEF Walk, WalkNext, VisitAgain, ImportMissing, ImportEscapes, Visit, WalkEnd
  <2>3. VerdictInv' /\ lines' = lines
    BY <1>2, <2>2 DEF Walk, GatesInv, VerdictInv
  <2>. QED
    BY <2>1, <2>3 DEF GatesInv
<1>3. CASE RunCoverageGates \/ RunVersionGates
  <2>1. UNCHANGED <<source, walk, lines>>
    BY <1>3 DEF RunCoverageGates, RunVersionGates
  <2>2. WalkInv' /\ (files \subseteq DOMAIN TestsIn)'
    BY <2>1, WalkStepKeeps DEF GatesInv, source
  <2>3. VerdictInv'
    BY <1>3, CoverageVerdictGiven, VersionVerdictGiven
  <2>. QED
    BY <2>1, <2>2, <2>3 DEF GatesInv
<1>4. CASE UNCHANGED gatesVars
  <2>1. UNCHANGED <<source, walk, lines, verdict>>
    BY <1>4 DEF gatesVars
  <2>2. WalkInv' /\ (files \subseteq DOMAIN TestsIn)'
    BY <2>1, WalkStepKeeps DEF GatesInv, source
  <2>3. VerdictInv'
    <3>1. CASE verdict = NoVerdict
      BY <2>1, <3>1 DEF VerdictInv, NoVerdict
    <3>2. CASE verdict # NoVerdict
      BY <2>1, <3>2, VerdictStands DEF GatesInv
    <3>. QED
      BY <3>1, <3>2
  <2>. QED
    BY <2>1, <2>2, <2>3 DEF GatesInv
<1>. QED
  BY <1>1, <1>2, <1>3, <1>4 DEF GatesNext

(* However the files import each other and whatever is edited meanwhile,   *)
(* the walk of the gates finds the closure of the canonical root.          *)
THEOREM GatesWalkCorrect == GatesSpec => []WalkFindsTheClosure
<1>1. GatesInv => WalkFindsTheClosure
  BY WalkInvSuffices DEF GatesInv
<1>. QED
  BY <1>1, GatesInitially, GatesStep, PTL DEF GatesSpec

(* On every map that M1 accepts, whatever its first record is, each of the *)
(* seven forgeries is refused with a message of its own class.             *)
THEOREM SelfTestsCorrect == GatesSpec => []SelfTestsRefuseForgeries
<1>1. ASSUME GatesInv PROVE SelfTestsRefuseForgeries
  <2>. SUFFICES ASSUME verdict # NoVerdict, verdict.coverage[1]
                PROVE  verdict.selfTest
    BY DEF SelfTestsRefuseForgeries
  <2> DEFINE tested == SelfTestsPass(lines, Discovered, Executed)
  <2>1. /\ verdict = [coverage |-> CoverageVerdict, selfTest |-> tested,
                      version |-> verdict.version]
        /\ lines \in Seq(Texts)
    BY <1>1 DEF GatesInv, VerdictInv
  <2>2. verdict.coverage = CoverageVerdict /\ verdict.selfTest = tested
    <3>. HIDE DEF CoverageVerdict, tested
    <3>. QED
      BY <2>1
  <2>3. M1Coverage(lines, Discovered, Executed)
    BY <2>2 DEF CoverageVerdict
  <2>4. Unknown \notin Discovered /\ "fixture" \notin Executed
    <3>1. reachable \subseteq DOMAIN TestsIn
      BY <1>1 DEF GatesInv, WalkInv
    <3>. QED
      BY <3>1, TestsAssumption DEF Discovered, Executed, TestNames
  <2>. HIDE DEF tested
  <2>5. SelfTestsPass(lines, Discovered, Executed)
    BY <2>1, <2>3, <2>4, ForgeriesRefused
  <2>. QED
    BY <2>2, <2>5 DEF tested
<1>. QED
  BY <1>1, GatesInitially, GatesStep, PTL DEF GatesSpec

-----------------------------------------------------------------------------
(***************************************************************************)
(* The records are what is written: line by line, the parser's records are *)
(* those of the text so far.                                               *)
(***************************************************************************)
Span(start, n) == {i \in start .. n : Owner(i) = start}

RecordUpTo(start, n) ==
  [id |-> lines[start].value,
   design |-> ScalarWritten(Span(start, n), "design"),
   status |-> ScalarWritten(Span(start, n), "status"),
   since |-> ScalarWritten(Span(start, n), "since"),
   code |-> ItemsWritten(Span(start, n), "code"),
   tests |-> ItemsWritten(Span(start, n), "tests")]

StartsUpTo(n) == InOrder(IdLines \cap (1 .. n))

(* What makes line i an item of this section.                              *)
ItemOf(i, section) ==
  /\ lines[i].kind = "item"
  /\ lines[Opener(i)].kind = "section"
  /\ lines[Opener(i)].value = section

LEMMA LatestIs ==
  ASSUME NEW S, S \subseteq Nat, NEW m \in S, \A j \in S : j <= m
  PROVE  Latest(S) = m
<1> DEFINE IsLast(i) == i \in S /\ \A j \in S : j <= i
<1>1. IsLast(m)
  OBVIOUS
<1>2. Latest(S) = CHOOSE i \in S : \A j \in S : j <= i
  BY DEF Latest
<1>3. Latest(S) \in S /\ \A j \in S : j <= Latest(S)
  BY <1>1, <1>2
<1>. HIDE DEF IsLast
<1>4. Latest(S) \in Nat /\ m \in Nat /\ Latest(S) <= m /\ m <= Latest(S)
  BY <1>3
<1>. QED
  BY <1>4

(* Indices kept in order.                                                  *)
LEMMA InOrderFacts ==
  ASSUME lines \in Seq(Texts), NEW indices
  PROVE  /\ InOrder(indices) \in Seq(Nat)
         /\ \A k \in DOMAIN InOrder(indices) : InOrder(indices)[k] \in indices \cap DOMAIN lines
         /\ \A k, l \in DOMAIN InOrder(indices) :
              k < l => InOrder(indices)[k] < InOrder(indices)[l]
         /\ \A i \in indices \cap DOMAIN lines :
              \E k \in DOMAIN InOrder(indices) : InOrder(indices)[k] = i
<1> DEFINE seq == [i \in DOMAIN lines |-> i]
           chosen == InOrder(indices)
<1>1. /\ seq \in Seq(Nat) /\ Len(seq) = Len(lines) /\ Len(lines) \in Nat
      /\ DOMAIN lines = 1 .. Len(lines) /\ \A i \in 1 .. Len(lines) : seq[i] = i
  OBVIOUS
<1>2. chosen = ElementsAt(seq, indices)
  BY DEF InOrder
<1>. HIDE DEF seq, chosen
<1>3. chosen \in Seq(Nat)
  BY <1>1, <1>2, ElementsAtPlaces
<1>4. PICK place : /\ Enumerates(place, Len(lines), indices)
                   /\ Len(chosen) = Len(place)
                   /\ \A k \in 1 .. Len(place) : chosen[k] = seq[place[k]]
  <2>1. \E place : /\ Enumerates(place, Len(seq), indices)
                   /\ Len(ElementsAt(seq, indices)) = Len(place)
                   /\ \A k \in 1 .. Len(place) : ElementsAt(seq, indices)[k] = seq[place[k]]
    BY <1>1, ElementsAtPlaces
  <2>. QED
    BY <1>1, <1>2, <2>1
<1>5. DOMAIN chosen = 1 .. Len(place) /\ \A k \in 1 .. Len(place) : place[k] \in 1 .. Len(lines)
  BY <1>1, <1>3, <1>4 DEF Enumerates
<1>6. \A k \in DOMAIN chosen : chosen[k] = place[k]
  BY <1>1, <1>4, <1>5
<1>. QED
  BY <1>1, <1>3, <1>4, <1>5, <1>6 DEF Enumerates, chosen

LEMMA InOrderGrows ==
  ASSUME lines \in Seq(Texts), NEW indices, NEW n \in DOMAIN lines
  PROVE  InOrder(indices \cap (1 .. n)) =
           IF n \in indices THEN Append(InOrder(indices \cap (1 .. n - 1)), n)
                            ELSE InOrder(indices \cap (1 .. n - 1))
<1> DEFINE seq == [i \in DOMAIN lines |-> i]
<1>1. Len(seq) \in Nat /\ n \in 1 .. Len(seq) /\ seq[n] = n
  <2>1. seq \in Seq(Nat)
    OBVIOUS
  <2>2. Len(seq) = Len(lines)
    OBVIOUS
  <2>. QED
    BY <2>1, <2>2
<1>2. \A set : InOrder(set) = ElementsAt(seq, set)
  BY DEF InOrder
<1>. HIDE DEF seq
<1>3. ElementsAt(seq, indices \cap (1 .. n)) =
        IF n \in indices
        THEN Append(ElementsAt(seq, indices \cap (1 .. n - 1)), seq[n])
        ELSE ElementsAt(seq, indices \cap (1 .. n - 1))
  BY <1>1, ElementsAtGrows
<1>. QED
  BY <1>1, <1>2, <1>3

LEMMA InOrderNone ==
  ASSUME lines \in Seq(Texts)
  PROVE  InOrder({}) = << >>
<1> DEFINE seq == [i \in DOMAIN lines |-> i]
<1>1. Len(seq) \in Nat
  <2>1. seq \in Seq(Nat)
    OBVIOUS
  <2>. QED
    BY <2>1
<1>. QED
  BY <1>1, ElementsAtNoPlace DEF InOrder

LEMMA SpanGrows ==
  ASSUME lines \in Seq(Texts), NEW n \in DOMAIN lines, NEW start \in 1 .. n
  PROVE  Span(start, n) = Span(start, n - 1) \cup (IF Owner(n) = start THEN {n} ELSE {})
<1>1. n \in Nat /\ start \in Nat /\ start <= n
  OBVIOUS
<1>2. \A i : i \in start .. n <=> i \in start .. n - 1 \/ i = n
  BY <1>1
<1>. QED
  BY <1>2 DEF Span

LEMMA ScalarGrows ==
  ASSUME lines \in Seq(Texts), NEW n \in DOMAIN lines, NEW start \in 1 .. n, NEW field
  PROVE  ScalarWritten(Span(start, n), field) =
           IF Owner(n) = start /\ lines[n].kind = field
           THEN lines[n].value
           ELSE ScalarWritten(Span(start, n - 1), field)
<1> DEFINE now == {i \in Span(start, n) : lines[i].kind = field}
           before == {i \in Span(start, n - 1) : lines[i].kind = field}
<1>1. CASE Owner(n) = start /\ lines[n].kind = field
  <2>1. n \in now /\ now \subseteq Nat /\ \A j \in now : j <= n
    BY <1>1 DEF Span
  <2>2. Latest(now) = n
    <3>. HIDE DEF now
    <3>. QED
      BY <2>1, LatestIs
  <2>. QED
    BY <1>1, <2>1, <2>2 DEF ScalarWritten
<1>2. CASE ~ (Owner(n) = start /\ lines[n].kind = field)
  <2>1. now = before
    BY <1>2, SpanGrows
  <2>. QED
    BY <1>2, <2>1 DEF ScalarWritten
<1>. QED
  BY <1>1, <1>2

LEMMA ItemsGrow ==
  ASSUME lines \in Seq(Texts), NEW n \in DOMAIN lines, NEW start \in 1 .. n, NEW section
  PROVE  ItemsWritten(Span(start, n), section) =
           IF Owner(n) = start /\ ItemOf(n, section)
           THEN Append(ItemsWritten(Span(start, n - 1), section), lines[n].value)
           ELSE ItemsWritten(Span(start, n - 1), section)
<1> DEFINE items == {i \in start .. Len(lines) : Owner(i) = start /\ ItemOf(i, section)}
           now == InOrder(items \cap (1 .. n))
           before == InOrder(items \cap (1 .. n - 1))
<1>1. Len(lines) \in Nat /\ DOMAIN lines = 1 .. Len(lines) /\ n \in Nat /\ start \in Nat
  OBVIOUS
<1>2. ASSUME NEW m \in {n - 1, n}
      PROVE  ItemsWritten(Span(start, m), section) =
               [k \in DOMAIN InOrder(items \cap (1 .. m)) |->
                  lines[InOrder(items \cap (1 .. m))[k]].value]
  <2>1. {i \in Span(start, m) : ItemOf(i, section)} = items \cap (1 .. m)
    BY <1>1 DEF Span
  <2>2. {i \in Span(start, m) : /\ lines[i].kind = "item"
                                /\ lines[Opener(i)].kind = "section"
                                /\ lines[Opener(i)].value = section}
          = items \cap (1 .. m)
    BY <2>1 DEF ItemOf
  <2>. HIDE DEF items
  <2>. QED
    BY <2>2 DEF ItemsWritten
<1>3. n \in items <=> Owner(n) = start /\ ItemOf(n, section)
  BY <1>1
<1>. HIDE DEF items
<1>4. now = IF n \in items THEN Append(before, n) ELSE before
  BY InOrderGrows
<1>5. before \in Seq(Nat) /\ \A k \in DOMAIN before : before[k] \in DOMAIN lines
  BY InOrderFacts
<1>. HIDE DEF now, before
<1>6. CASE n \in items
  <2> DEFINE old == [k \in DOMAIN before |-> lines[before[k]].value]
             new == [k \in DOMAIN now |-> lines[now[k]].value]
  <2>1. now = Append(before, n)
    BY <1>4, <1>6
  <2>2. /\ DOMAIN now = 1 .. Len(before) + 1 /\ now[Len(before) + 1] = n
        /\ \A k \in DOMAIN before : now[k] = before[k]
        /\ DOMAIN before = 1 .. Len(before) /\ Len(before) \in Nat
    BY <1>1, <1>5, <2>1
  <2>3. \A i \in DOMAIN lines : lines[i].value \in Values
    BY DEF Values
  <2>4. old \in Seq(Values) /\ Len(old) = Len(before)
    BY <1>5, <2>2, <2>3
  <2>5. new = Append(old, lines[n].value)
    <3>1. lines[n].value \in Values
      BY <2>3
    <3>2. Append(old, lines[n].value) \in Seq(Values)
      BY <2>4, <3>1
    <3>3. DOMAIN new = 1 .. Len(before) + 1 /\ DOMAIN Append(old, lines[n].value) = 1 .. Len(before) + 1
      BY <2>2, <2>4, <3>1
    <3>4. ASSUME NEW k \in 1 .. Len(before) + 1
          PROVE  new[k] = Append(old, lines[n].value)[k]
      <4>1. CASE k = Len(before) + 1
        BY <2>2, <2>4, <3>1, <4>1
      <4>2. CASE k \in 1 .. Len(before)
        BY <2>2, <2>4, <3>1, <4>2
      <4>. QED
        BY <2>2, <4>1, <4>2
    <3>. HIDE DEF old
    <3>. QED
      BY <3>2, <3>3, <3>4
  <2>. QED
    BY <1>2, <1>3, <1>6, <2>5 DEF now, before
<1>7. CASE n \notin items
  BY <1>2, <1>3, <1>4, <1>7 DEF now, before
<1>. QED
  BY <1>6, <1>7

(* What one line adds to a record above it.                                *)
LEMMA RecordGrows ==
  ASSUME lines \in Seq(Texts), NEW n \in DOMAIN lines, NEW start \in 1 .. n
  PROVE  LET old == RecordUpTo(start, n - 1)
             new == RecordUpTo(start, n)
         IN  /\ Owner(n) # start => new = old
             /\ lines[n].kind \notin Scalars \cup {"item"} => new = old
             /\ Owner(n) = start /\ lines[n].kind \in Scalars =>
                  new = [old EXCEPT ![lines[n].kind] = lines[n].value]
             /\ \A section \in Sections :
                  Owner(n) = start /\ ItemOf(n, section) =>
                    new = [old EXCEPT ![section] = Append(old[section], lines[n].value)]
<1> DEFINE old == RecordUpTo(start, n - 1)
           new == RecordUpTo(start, n)
           kind == lines[n].kind
           value == lines[n].value
           Scalar(m, field) == ScalarWritten(Span(start, m), field)
           Items(m, section) == ItemsWritten(Span(start, m), section)
<1>1. \A field : Scalar(n, field) = IF Owner(n) = start /\ kind = field THEN value
                                                                     ELSE Scalar(n - 1, field)
  BY ScalarGrows
<1>2. \A section : Items(n, section) =
                     IF Owner(n) = start /\ ItemOf(n, section)
                     THEN Append(Items(n - 1, section), value) ELSE Items(n - 1, section)
  BY ItemsGrow
<1>3. \A m : RecordUpTo(start, m) =
        [id |-> lines[start].value, design |-> Scalar(m, "design"),
         status |-> Scalar(m, "status"), since |-> Scalar(m, "since"),
         code |-> Items(m, "code"), tests |-> Items(m, "tests")]
  BY DEF RecordUpTo
<1>4. /\ \A section : ItemOf(n, section) => kind = "item"
      /\ \A section, other : ItemOf(n, section) /\ ItemOf(n, other) => section = other
  BY DEF ItemOf
<1>. HIDE DEF Scalar, Items, value, kind
<1>5. ASSUME Owner(n) # start \/ kind \notin Scalars \cup {"item"}
      PROVE  new = old
  <2>1. /\ \A field \in Scalars : Scalar(n, field) = Scalar(n - 1, field)
        /\ \A section : Items(n, section) = Items(n - 1, section)
    BY <1>1, <1>2, <1>4, <1>5
  <2>. QED
    BY <1>3, <2>1 DEF Scalars
<1>6. ASSUME Owner(n) = start, kind \in Scalars
      PROVE  new = [old EXCEPT ![kind] = value]
  <2>1. /\ \A field \in Scalars : Scalar(n, field) = IF kind = field THEN value
                                                                   ELSE Scalar(n - 1, field)
        /\ \A section : Items(n, section) = Items(n - 1, section)
    BY <1>1, <1>2, <1>4, <1>6 DEF Scalars
  <2>. QED
    BY <1>3, <1>6, <2>1 DEF Scalars
<1>7. ASSUME NEW section \in Sections, Owner(n) = start, ItemOf(n, section)
      PROVE  new = [old EXCEPT ![section] = Append(old[section], value)]
  <2>1. /\ \A field \in Scalars : Scalar(n, field) = Scalar(n - 1, field)
        /\ Items(n, section) = Append(Items(n - 1, section), value)
        /\ \A other : other # section => Items(n, other) = Items(n - 1, other)
    BY <1>1, <1>2, <1>4, <1>7 DEF Scalars
  <2>2. /\ section = "code" \/ section = "tests"
        /\ old[section] = Items(n - 1, section)
    BY <1>3 DEF Sections
  <2> DEFINE longer == Append(Items(n - 1, section), value)
  <2>3. longer = Append(old[section], value)
    BY <2>2
  <2>. HIDE DEF longer
  <2>4. Items(n, section) = longer
    BY <2>1 DEF longer
  <2>5. new = [old EXCEPT ![section] = longer]
    <3>1. CASE section = "code"
      BY <1>3, <2>1, <2>4, <3>1 DEF Scalars
    <3>2. CASE section = "tests"
      BY <1>3, <2>1, <2>4, <3>2 DEF Scalars
    <3>. QED
      BY <2>2, <3>1, <3>2
  <2>. QED
    BY <2>3, <2>5
<1>. QED
  BY <1>5, <1>6, <1>7 DEF value, kind

(* A new record has nothing written below it yet.                          *)
LEMMA RecordBegins ==
  ASSUME lines \in Seq(Texts), NEW n \in IdLines
  PROVE  RecordUpTo(n, n) = NewRecord(lines[n].value)
<1>1. n \in DOMAIN lines /\ lines[n].kind = "id" /\ n \in Nat /\ n \in 1 .. n
  BY DEF IdLines
<1>2. Span(n, n - 1) = {}
  BY <1>1 DEF Span
<1>3. /\ \A field : ScalarWritten({}, field) = NoField
      /\ \A section : ItemsWritten({}, section) = << >>
  <2>1. \A section : ItemsWritten({}, section) =
                       [k \in DOMAIN InOrder({}) |-> lines[InOrder({})[k]].value]
    BY DEF ItemsWritten
  <2>2. [k \in DOMAIN << >> |-> lines[<< >>[k]].value] = << >>
    OBVIOUS
  <2>3. \A section : ItemsWritten({}, section) = << >>
    BY <2>1, <2>2, InOrderNone
  <2>. QED
    BY <2>3 DEF ScalarWritten
<1>4. RecordUpTo(n, n - 1) = NewRecord(lines[n].value)
  BY <1>2, <1>3 DEF RecordUpTo, NewRecord
<1>5. RecordUpTo(n, n) = RecordUpTo(n, n - 1)
  BY <1>1, RecordGrows DEF Scalars
<1>. QED
  BY <1>4, <1>5

(* The line of a record is that of the last id above it.                   *)
LEMMA OwnerOfLine ==
  ASSUME lines \in Seq(Texts), NEW n \in DOMAIN lines
  PROVE  /\ n \in IdLines => Owner(n) = n
         /\ n \notin IdLines /\ StartsUpTo(n - 1) # << >> =>
              Owner(n) = StartsUpTo(n - 1)[Len(StartsUpTo(n - 1))]
<1> DEFINE above == {j \in IdLines : j <= n}
           starts == StartsUpTo(n - 1)
<1>1. IdLines \subseteq Nat /\ IdLines \subseteq DOMAIN lines /\ n \in Nat /\ DOMAIN lines \subseteq Nat
  BY DEF IdLines
<1>2. Owner(n) = Latest(above)
  BY DEF Owner
<1>3. ASSUME n \in IdLines PROVE Owner(n) = n
  <2>1. above \subseteq Nat /\ \A j \in above : j <= n
    BY <1>1
  <2>2. n <= n
    BY <1>1
  <2>3. n \in above
    BY <1>3, <2>2
  <2>. HIDE DEF above
  <2>. QED
    BY <1>2, <2>1, <2>3, LatestIs
<1>4. ASSUME n \notin IdLines, starts # << >>
      PROVE  Owner(n) = starts[Len(starts)]
  <2>1. /\ starts \in Seq(Nat)
        /\ \A k \in DOMAIN starts : starts[k] \in IdLines \cap (1 .. n - 1) \cap DOMAIN lines
        /\ \A k, l \in DOMAIN starts : k < l => starts[k] < starts[l]
        /\ \A i \in IdLines \cap (1 .. n - 1) \cap DOMAIN lines :
             \E k \in DOMAIN starts : starts[k] = i
    BY InOrderFacts DEF StartsUpTo
  <2>. HIDE DEF starts
  <2> DEFINE last == starts[Len(starts)]
  <2>2. /\ Len(starts) \in DOMAIN starts /\ last \in Nat
        /\ \A k \in DOMAIN starts : k = Len(starts) \/ k < Len(starts)
    BY <1>4, <2>1
  <2>3. last \in above
    BY <1>1, <2>1, <2>2
  <2>4. ASSUME NEW j \in above PROVE j <= last
    <3>1. j \in IdLines \cap (1 .. n - 1) \cap DOMAIN lines
      BY <1>1, <1>4
    <3>2. PICK k \in DOMAIN starts : starts[k] = j
      BY <2>1, <3>1
    <3>. QED
      BY <1>1, <2>1, <2>2, <3>2
  <2>5. above \subseteq Nat
    BY <1>1
  <2>. HIDE DEF above, last
  <2>6. Latest(above) = last
    BY <2>3, <2>4, <2>5, LatestIs
  <2>. QED
    BY <1>2, <2>6 DEF last
<1>. QED
  BY <1>3, <1>4

(* Which list is open where a line stands, if any.                         *)
OpenAt(n, section) ==
  IF section = NoField
    THEN (\E start \in IdLines : start < n) => lines[Opener(n)].kind # "section"
    ELSE lines[Opener(n)].kind = "section" /\ lines[Opener(n)].value = section

LEMMA OpenerOfNext ==
  ASSUME lines \in Seq(Texts), NEW n \in DOMAIN lines
  PROVE  Opener(n + 1) = IF lines[n].kind \in {"item", "comment"} THEN Opener(n) ELSE n
<1> DEFINE before == {j \in 1 .. n - 1 : lines[j].kind \notin {"item", "comment"}}
           now == {j \in 1 .. n : lines[j].kind \notin {"item", "comment"}}
<1>1. n \in Nat /\ (n + 1) - 1 = n /\ n \in 1 .. n
  OBVIOUS
<1>2. Opener(n) = Latest(before) /\ Opener(n + 1) = Latest(now)
  BY <1>1 DEF Opener
<1>3. CASE lines[n].kind \in {"item", "comment"}
  <2>1. now = before
    BY <1>1, <1>3
  <2>. QED
    BY <1>2, <1>3, <2>1
<1>4. CASE lines[n].kind \notin {"item", "comment"}
  <2>1. n \in now /\ now \subseteq Nat /\ \A j \in now : j <= n
    BY <1>1, <1>4
  <2>. HIDE DEF now
  <2>2. Latest(now) = n
    BY <2>1, LatestIs
  <2>. QED
    BY <1>2, <1>4, <2>2
<1>. QED
  BY <1>3, <1>4

(* After n lines the parser has the records of those lines, and knows the  *)
(* list that is open.                                                      *)
ReadUpTo(n, p) ==
  /\ Len(p.records) = Len(StartsUpTo(n))
  /\ \A r \in DOMAIN StartsUpTo(n) : p.records[r] = RecordUpTo(StartsUpTo(n)[r], n)
  /\ OpenAt(n + 1, p.section)

LEMMA LineReadUpTo ==
  ASSUME lines \in Seq(Texts), NEW n \in DOMAIN lines,
         NEW p \in ParserState, ~ p.raised, ReadUpTo(n - 1, p),
         NEW q, q = ParseLine(p, lines[n]), ~ q.raised
  PROVE  ReadUpTo(n, q)
<1> DEFINE line == lines[n]
           starts == StartsUpTo(n - 1)
           last == Len(p.records)
<1>1. /\ n \in Nat /\ n \in 1 .. Len(lines) /\ (n - 1) + 1 = n
      /\ p.records \in Seq(RecordType) /\ p.section \in Sections \cup {NoField}
      /\ line \in Texts
  BY DEF ParserState
<1>2. LineEffect(p, q, line)
  BY LineRead
<1>3. /\ starts \in Seq(Nat)
      /\ \A k \in DOMAIN starts : starts[k] \in IdLines \cap (1 .. n - 1)
      /\ \A k, l \in DOMAIN starts : k < l => starts[k] < starts[l]
  BY InOrderFacts DEF StartsUpTo
<1>4. StartsUpTo(n) = IF n \in IdLines THEN Append(starts, n) ELSE starts
  BY InOrderGrows DEF StartsUpTo
<1>5. n \in IdLines <=> line.kind = "id"
  BY DEF IdLines
<1>6. /\ Len(p.records) = Len(starts)
      /\ \A r \in DOMAIN starts : p.records[r] = RecordUpTo(starts[r], n - 1)
      /\ OpenAt(n, p.section)
  BY <1>1 DEF ReadUpTo
<1>7. /\ n \in IdLines => Owner(n) = n
      /\ n \notin IdLines /\ starts # << >> => Owner(n) = starts[Len(starts)]
  BY OwnerOfLine
<1>8. Opener(n + 1) = IF line.kind \in {"item", "comment"} THEN Opener(n) ELSE n
  BY OpenerOfNext
<1>20. (\E start \in IdLines : start < n + 1) /\ n \notin IdLines => \E start \in IdLines : start < n
  <2>1. IdLines \subseteq Nat
    BY DEF IdLines
  <2>. QED
    BY <1>1, <2>1
<1>21. line.kind = "section" => line.value \in Sections /\ line.value # NoField
  BY <1>1, MapAssumption DEF Texts, Sections, NoField
<1>22. line.kind \notin {"item", "comment", "section"} => OpenAt(n + 1, NoField)
  BY <1>8 DEF OpenAt
<1>. HIDE DEF starts, line
<1>9. /\ DOMAIN starts = 1 .. Len(starts) /\ Len(starts) \in Nat
      /\ DOMAIN p.records = 1 .. last /\ last = Len(starts)
      /\ \A r \in DOMAIN starts : starts[r] \in 1 .. n /\ starts[r] # n
  BY <1>1, <1>3, <1>6
<1>10. \A r \in DOMAIN starts :
         LET old == RecordUpTo(starts[r], n - 1)
             new == RecordUpTo(starts[r], n)
         IN  /\ Owner(n) # starts[r] => new = old
             /\ line.kind \notin Scalars \cup {"item"} => new = old
             /\ Owner(n) = starts[r] /\ line.kind \in Scalars =>
                  new = [old EXCEPT ![line.kind] = line.value]
             /\ \A section \in Sections :
                  Owner(n) = starts[r] /\ ItemOf(n, section) =>
                    new = [old EXCEPT ![section] = Append(old[section], line.value)]
  BY <1>9, RecordGrows DEF line
(* A line that is not an id leaves all records but the last alone.         *)
<1>11. ASSUME n \notin IdLines, NEW new,
              last # 0 => new = RecordUpTo(starts[last], n),
              q.records = p.records \/ q.records = [p.records EXCEPT ![last] = new],
              q.records = p.records /\ last # 0 => new = p.records[last],
              OpenAt(n + 1, q.section)
       PROVE  ReadUpTo(n, q)
  <2>1. StartsUpTo(n) = starts /\ Len(q.records) = last
    BY <1>1, <1>4, <1>11
  <2>2. ASSUME NEW r \in DOMAIN starts
        PROVE  q.records[r] = RecordUpTo(starts[r], n)
    <3>1. last # 0 /\ last \in DOMAIN starts /\ starts # << >>
      BY <1>9
    <3>2. CASE r = last
      BY <1>1, <1>9, <1>11, <3>1, <3>2
    <3>3. CASE r # last
      <4>1. starts[r] # starts[last]
        <5>1. r < last /\ starts[r] \in Nat /\ starts[last] \in Nat
          BY <1>3, <1>9, <3>1, <3>3
        <5>2. starts[r] < starts[last]
          BY <1>3, <3>1, <5>1
        <5>. QED
          BY <5>1, <5>2
      <4>2. RecordUpTo(starts[r], n) = RecordUpTo(starts[r], n - 1)
        BY <1>7, <1>9, <1>10, <1>11, <3>1, <4>1
      <4>3. q.records[r] = p.records[r]
        BY <1>1, <1>9, <1>11, <3>3
      <4>. QED
        BY <1>6, <4>2, <4>3
    <3>. QED
      BY <3>2, <3>3
  <2>. QED
    BY <1>9, <1>11, <2>1, <2>2 DEF ReadUpTo
<1>12. \A r \in DOMAIN starts : r = last => starts # << >> /\ last # 0
  BY <1>9
<1>13. p.records # << >> => /\ last # 0 /\ last \in DOMAIN starts /\ starts # << >>
                           /\ p.records[last] = RecordUpTo(starts[last], n - 1)
  BY <1>1, <1>6, <1>9
<1>14. last # 0 => last \in DOMAIN starts /\ p.records # << >>
  BY <1>1, <1>9
<1>. HIDE DEF last
<1>15. ASSUME line.kind = "comment", q = p PROVE ReadUpTo(n, q)
  <2>1. n \notin IdLines
    BY <1>5, <1>15
  <2>2. OpenAt(n + 1, q.section)
    BY <1>6, <1>8, <1>15, <1>20, <2>1 DEF OpenAt
  <2>3. last # 0 => p.records[last] = RecordUpTo(starts[last], n)
    BY <1>10, <1>13, <1>14, <1>15 DEF Scalars
  <2>. QED
    BY <1>11, <1>15, <2>1, <2>2, <2>3
<1>16. ASSUME line.kind = "section", SectionRead(p, q, line) PROVE ReadUpTo(n, q)
  <2>1. n \notin IdLines /\ q.records = p.records /\ q.section = line.value
    BY <1>5, <1>16 DEF SectionRead
  <2>2. OpenAt(n + 1, q.section)
    BY <1>8, <1>16, <1>21, <2>1 DEF OpenAt, line
  <2>3. last # 0 => p.records[last] = RecordUpTo(starts[last], n)
    BY <1>10, <1>13, <1>14, <1>16 DEF Scalars
  <2>. QED
    BY <1>11, <2>1, <2>2, <2>3
<1>17. ASSUME line.kind \in Scalars, p.records # << >>, ScalarRead(p, q, line)
       PROVE  ReadUpTo(n, q)
  <2> DEFINE new == [p.records[last] EXCEPT ![line.kind] = line.value]
  <2>1. n \notin IdLines
    BY <1>5, <1>17 DEF Scalars
  <2>2. q.records = [p.records EXCEPT ![last] = new] /\ q.section = NoField
    BY <1>17 DEF ScalarRead, InLast, last
  <2>3. OpenAt(n + 1, q.section)
    BY <1>17, <1>22, <2>2 DEF Scalars
  <2>4. new = RecordUpTo(starts[last], n)
    BY <1>7, <1>9, <1>10, <1>13, <1>17, <2>1
  <2>5. q.records = p.records => new = p.records[last]
    <3>1. last \in DOMAIN p.records
      BY <1>9, <1>13, <1>17
    <3>. HIDE DEF new
    <3>. QED
      BY <1>1, <2>2, <3>1
  <2>. HIDE DEF new
  <2>. QED
    BY <1>11, <2>1, <2>2, <2>3, <2>4, <2>5
<1>18. ASSUME line.kind = "item", p.records # << >>, p.section # NoField, ItemRead(p, q, line)
       PROVE  ReadUpTo(n, q)
  <2> DEFINE new == [p.records[last] EXCEPT ![p.section] =
                       Append(p.records[last][p.section], line.value)]
  <2>1. n \notin IdLines
    BY <1>5, <1>18
  <2>2. q.records = [p.records EXCEPT ![last] = new] /\ q.section = p.section
    BY <1>18 DEF ItemRead, InLast, last
  <2>3. OpenAt(n + 1, q.section)
    BY <1>6, <1>8, <1>18, <2>2 DEF OpenAt
  <2>4. p.section \in Sections /\ ItemOf(n, p.section)
    BY <1>1, <1>6, <1>18 DEF OpenAt, ItemOf, line
  <2>5. new = RecordUpTo(starts[last], n)
    <3>1. last \in DOMAIN starts /\ starts # << >>
      BY <1>13, <1>18
    <3>2. Owner(n) = starts[last]
      BY <1>7, <1>9, <2>1, <3>1
    <3>3. RecordUpTo(starts[last], n)
            = [RecordUpTo(starts[last], n - 1) EXCEPT
                 ![p.section] = Append(RecordUpTo(starts[last], n - 1)[p.section], line.value)]
      BY <1>10, <2>4, <3>1, <3>2
    <3>. QED
      BY <1>13, <1>18, <3>3
  <2>6. q.records = p.records => new = p.records[last]
    <3>1. last \in DOMAIN p.records
      BY <1>9, <1>13, <1>18
    <3>. HIDE DEF new
    <3>. QED
      BY <1>1, <2>2, <3>1
  <2>. HIDE DEF new
  <2>. QED
    BY <1>11, <2>1, <2>2, <2>3, <2>5, <2>6
<1>19. ASSUME line.kind = "id", IdRead(p, q, line) PROVE ReadUpTo(n, q)
  <2> DEFINE new == NewRecord(line.value)
  <2>1. n \in IdLines /\ StartsUpTo(n) = Append(starts, n)
    BY <1>4, <1>5, <1>19
  <2>2. q.records = Append(p.records, new) /\ q.section = NoField
    BY <1>19 DEF IdRead
  <2>3. new = RecordUpTo(n, n) /\ new \in RecordType
    <3>1. line.value \in Values
      BY <1>1 DEF Values
    <3>. QED
      BY <2>1, <3>1, RecordBegins, NewRecordTyped DEF line
  <2>. HIDE DEF new
  <2>4. /\ DOMAIN StartsUpTo(n) = 1 .. Len(starts) + 1
        /\ Len(StartsUpTo(n)) = Len(starts) + 1
        /\ StartsUpTo(n)[Len(starts) + 1] = n
        /\ \A r \in DOMAIN starts : StartsUpTo(n)[r] = starts[r]
    BY <1>1, <1>3, <2>1
  <2>5. /\ Len(q.records) = Len(starts) + 1
        /\ q.records[Len(starts) + 1] = new
        /\ \A r \in DOMAIN starts : q.records[r] = p.records[r]
    BY <1>1, <1>6, <1>9, <2>2, <2>3
  <2>6. ASSUME NEW r \in DOMAIN StartsUpTo(n)
        PROVE  q.records[r] = RecordUpTo(StartsUpTo(n)[r], n)
    <3>1. CASE r = Len(starts) + 1
      BY <2>3, <2>4, <2>5, <3>1
    <3>2. CASE r \in DOMAIN starts
      <4>1. RecordUpTo(starts[r], n) = RecordUpTo(starts[r], n - 1)
        BY <1>7, <1>9, <1>10, <2>1, <3>2
      <4>. QED
        BY <1>6, <2>4, <2>5, <3>2, <4>1
    <3>. QED
      BY <1>9, <2>4, <3>1, <3>2
  <2>7. OpenAt(n + 1, q.section)
    BY <1>19, <1>22, <2>2
  <2>. QED
    BY <2>4, <2>5, <2>6, <2>7 DEF ReadUpTo
<1>. QED
  BY <1>2, <1>15, <1>16, <1>17, <1>18, <1>19 DEF LineEffect, Raises

(* The parser raises at a line that is misplaced, and at no other.         *)
LEMMA LineMisplaced ==
  ASSUME lines \in Seq(Texts), NEW n \in DOMAIN lines,
         NEW p \in ParserState, ~ p.raised, ReadUpTo(n - 1, p),
         NEW q, q = ParseLine(p, lines[n])
  PROVE  q.raised \in BOOLEAN /\ (q.raised <=> Misplaced(n))
<1> DEFINE line == lines[n]
           starts == StartsUpTo(n - 1)
<1>1. /\ n \in Nat /\ (n - 1) + 1 = n /\ line = lines[n] /\ DOMAIN lines \subseteq Nat
      /\ p.records \in Seq(RecordType) /\ p.raised = FALSE
      /\ p.section \in Sections \cup {NoField}
  BY DEF ParserState
<1>2. LineEffect(p, q, line)
  BY LineRead
<1>3. p.records # << >> <=> ~ \A start \in IdLines : start > n \/ start = n
  <2>1. /\ starts \in Seq(Nat)
        /\ \A k \in DOMAIN starts : starts[k] \in IdLines \cap (1 .. n - 1)
        /\ \A i \in IdLines \cap (1 .. n - 1) : \E k \in DOMAIN starts : starts[k] = i
    BY InOrderFacts DEF StartsUpTo, IdLines
  <2>2. Len(p.records) = Len(starts)
    BY DEF ReadUpTo
  <2>. HIDE DEF starts
  <2>3. p.records # << >> <=> starts # << >>
    BY <1>1, <2>1, <2>2
  <2>4. starts # << >> <=> DOMAIN starts # {}
    BY <2>1
  <2>5. IdLines \subseteq Nat /\ \A i \in IdLines : i >= 1
    BY DEF IdLines
  <2>6. \A i \in IdLines : i \in 1 .. n - 1 <=> ~ (i > n \/ i = n)
    BY <1>1, <2>5
  <2>. QED
    BY <2>1, <2>3, <2>4, <2>6
<1>4. n \in IdLines <=> line.kind = "id"
  BY DEF IdLines
<1>5. \A start \in IdLines : start \in Nat
  BY DEF IdLines
<1>6. p.records # << >> => (p.section # NoField <=> lines[Opener(n)].kind = "section")
  <2>1. OpenAt(n, p.section)
    BY <1>1 DEF ReadUpTo
  <2>2. p.records # << >> => \E start \in IdLines : start < n
    BY <1>1, <1>3, <1>5
  <2>. QED
    BY <2>1, <2>2 DEF OpenAt
<1>. HIDE DEF line, starts
<1>7. CASE line.kind \in {"comment", "id"}
  <2>1. ~ Misplaced(n)
    BY <1>1, <1>7 DEF Misplaced, Scalars
  <2>2. q.raised = FALSE
    BY <1>1, <1>2, <1>7 DEF LineEffect, IdRead, Unread, Scalars
  <2>. QED
    BY <2>1, <2>2
<1>8. CASE line.kind \notin {"comment", "id"}
  <2> DEFINE early == \A start \in IdLines : start > n
  <2>1. early <=> p.records = << >>
    BY <1>3, <1>4, <1>8
  <2>. HIDE DEF early
  <2>2. Misplaced(n) <=> \/ line.kind \notin Scalars \cup {"section", "item"}
                         \/ early
                         \/ line.kind = "item" /\ lines[Opener(n)].kind # "section"
    BY <1>1, <1>8 DEF Misplaced, early
  <2>3. Misplaced(n) <=> Unread(p, line)
    BY <1>6, <1>8, <2>1, <2>2 DEF Unread, Scalars
  <2>4. CASE Unread(p, line)
    BY <1>2, <1>8, <2>3, <2>4 DEF LineEffect, Unread, Raises, Scalars
  <2>5. CASE ~ Unread(p, line)
    BY <1>2, <1>8, <2>3, <2>5 DEF LineEffect, InLast, ScalarRead, SectionRead, ItemRead
  <2>. QED
    BY <2>4, <2>5
<1>. QED
  BY <1>7, <1>8

LEMMA TextReadUpTo ==
  ASSUME lines \in Seq(Texts)
  PROVE  IF ParseCoverage(lines).raised
           THEN \E i \in DOMAIN lines : Misplaced(i)
           ELSE /\ ReadUpTo(Len(lines), ParseCoverage(lines))
                /\ \A i \in DOMAIN lines : ~ Misplaced(i)
<1> DEFINE n == Len(lines)
<1>1. PICK acc : /\ acc[0] = Parsing
                 /\ \A k \in 0 .. n : acc[k] \in ParserState
                 /\ \A k \in 1 .. n : acc[k] = ParseLine(acc[k - 1], lines[k])
                 /\ ParseCoverage(lines) = acc[n]
  BY ParseSteps
<1> DEFINE T == {k \in 0 .. n : IF acc[k].raised
                                  THEN \E i \in 1 .. k : Misplaced(i)
                                  ELSE ReadUpTo(k, acc[k]) /\ \A i \in 1 .. k : ~ Misplaced(i)}
<1>2. n \in Nat /\ DOMAIN lines = 1 .. n
  OBVIOUS
<1>3. 0 \in T
  <2>1. IdLines \cap (1 .. 0) = {} /\ \A start \in IdLines : ~ (start < 1)
    BY DEF IdLines
  <2>2. StartsUpTo(0) = << >>
    BY <2>1, InOrderNone DEF StartsUpTo
  <2>3. ReadUpTo(0, Parsing) /\ Parsing.raised = FALSE
    BY <2>1, <2>2 DEF ReadUpTo, Parsing, OpenAt
  <2>. QED
    BY <1>1, <1>2, <2>3
<1>4. ASSUME NEW k \in 1 .. n, k - 1 \in T
      PROVE  k \in T
  <2>1. k \in 0 .. n /\ k - 1 \in 0 .. n /\ k \in DOMAIN lines
    BY <1>2
  <2>2. acc[k - 1] \in ParserState /\ acc[k] = ParseLine(acc[k - 1], lines[k])
    BY <1>1, <2>1
  <2>3. \A i : i \in 1 .. k <=> i \in 1 .. k - 1 \/ i = k
    BY <1>2
  <2>4. CASE acc[k - 1].raised
    <3>1. acc[k] = acc[k - 1]
      BY <2>2, <2>4 DEF ParseLine
    <3>. QED
      BY <1>4, <2>1, <2>3, <2>4, <3>1
  <2>5. CASE ~ acc[k - 1].raised
    <3>1. ReadUpTo(k - 1, acc[k - 1]) /\ \A i \in 1 .. k - 1 : ~ Misplaced(i)
      BY <1>4, <2>5
    <3>2. acc[k].raised <=> Misplaced(k)
      BY <2>1, <2>2, <2>5, <3>1, LineMisplaced
    <3>3. ~ acc[k].raised => ReadUpTo(k, acc[k])
      BY <2>1, <2>2, <2>5, <3>1, LineReadUpTo
    <3>. QED
      BY <2>1, <2>3, <3>1, <3>2, <3>3
  <2>. QED
    BY <2>4, <2>5
<1>. HIDE DEF T
<1>5. \A k \in 0 .. n : k \in T
  BY <1>2, <1>3, <1>4, InductionTo
<1>6. n \in T
  BY <1>2, <1>5
<1>. QED
  BY <1>1, <1>2, <1>6 DEF T

LEMMA TextIsParsed ==
  ASSUME lines \in Seq(Texts)
  PROVE  LET parsed == ParseCoverage(lines)
             starts == InOrder(IdLines)
         IN  /\ parsed.raised <=> \E i \in DOMAIN lines : Misplaced(i)
             /\ ~parsed.raised =>
                  parsed.records = [r \in DOMAIN starts |-> WrittenRecord(starts[r])]
<1> DEFINE parsed == ParseCoverage(lines)
           starts == InOrder(IdLines)
           written == [r \in DOMAIN starts |-> WrittenRecord(starts[r])]
<1>1. parsed.raised <=> \E i \in DOMAIN lines : Misplaced(i)
  <2>1. parsed.raised \in BOOLEAN
    <3>1. Len(lines) \in 0 .. Len(lines)
      OBVIOUS
    <3>2. parsed \in ParserState
      BY <3>1, ParseSteps
    <3>. HIDE DEF parsed
    <3>. QED
      BY <3>2 DEF ParserState
  <2>. QED
    BY <2>1, TextReadUpTo
<1>2. ASSUME ~parsed.raised
      PROVE  parsed.records = written
  <2>1. StartsUpTo(Len(lines)) = starts
    <3>1. IdLines \cap (1 .. Len(lines)) = IdLines
      BY DEF IdLines
    <3>. QED
      BY <3>1 DEF StartsUpTo
  <2>2. \A start : RecordUpTo(start, Len(lines)) = WrittenRecord(start)
    BY DEF RecordUpTo, WrittenRecord, Span
  <2>3. /\ Len(parsed.records) = Len(starts)
        /\ \A r \in DOMAIN starts : parsed.records[r] = WrittenRecord(starts[r])
    BY <1>2, <2>1, <2>2, TextReadUpTo DEF ReadUpTo
  <2>4. parsed.records \in Seq(RecordType) /\ starts \in Seq(Nat)
    BY ParsedRecords, InOrderFacts
  <2>. HIDE DEF parsed, starts
  <2>5. DOMAIN parsed.records = DOMAIN starts /\ DOMAIN written = DOMAIN starts
    BY <2>3, <2>4
  <2>. QED
    BY <2>3, <2>4, <2>5
<1>. QED
  BY <1>1, <1>2

(* Every record is written somewhere.                                      *)
LEMMA RecordsAreWritten ==
  ASSUME lines \in Seq(Texts), ~ParseCoverage(lines).raised
  PROVE  \A r \in DOMAIN ParseCoverage(lines).records :
           \E start \in IdLines : ParseCoverage(lines).records[r] = WrittenRecord(start)
<1> DEFINE records == ParseCoverage(lines).records
           starts == InOrder(IdLines)
<1>1. records = [r \in DOMAIN starts |-> WrittenRecord(starts[r])]
  BY TextIsParsed
<1>2. \A r \in DOMAIN starts : starts[r] \in IdLines
  BY InOrderFacts
<1>. HIDE DEF records, starts
<1>3. \A r \in DOMAIN records : \E start \in IdLines : records[r] = WrittenRecord(start)
  BY <1>1, <1>2
<1>. QED
  BY <1>3 DEF records

(* For every text that edits can make of the first map: parse_coverage     *)
(* raises exactly if some line belongs nowhere, and otherwise gives the    *)
(* records that are written, each field and each item to the record and    *)
(* the list under which it stands.                                         *)
THEOREM ParserCorrect == GatesSpec => []ParsedAsWritten
<1>1. GatesInv => ParsedAsWritten
  BY TextIsParsed DEF GatesInv, ParsedAsWritten
<1>. QED
  BY <1>1, GatesInitially, GatesStep, PTL DEF GatesSpec

(* For every map that edits can make of the first one, every catalogue and *)
(* every tree: what passes the gate of a later milestone passes those of   *)
(* the earlier ones, unless a claim of M1 or M2 rests on a test that only  *)
(* M3 counts as executed (validate-coverage.py of m1, m2 and m3).          *)
THEOREM EarlierGatesCorrect == GatesSpec => []EarlierGatesStillPass
<1>1. ASSUME GatesInv PROVE EarlierGatesStillPass
  <2>. SUFFICES ASSUME verdict # NoVerdict
                PROVE  /\ verdict.coverage[2] => verdict.coverage[1]
                       /\ verdict.coverage[3] => verdict.coverage[2] \/ EarlierClaimOnM3Test
                       /\ verdict.version # << >> =>
                            /\ verdict.version[3] => verdict.version[2]
                            /\ verdict.version[2] => verdict.version[1]
    BY DEF EarlierGatesStillPass
  <2>1. verdict.coverage = CoverageVerdict /\ lines \in Seq(Texts)
    <3>1. verdict = [coverage |-> CoverageVerdict,
                     selfTest |-> SelfTestsPass(lines, Discovered, Executed),
                     version |-> verdict.version]
      BY <1>1 DEF GatesInv, VerdictInv
    <3>. HIDE DEF CoverageVerdict
    <3>2. verdict.coverage = CoverageVerdict
      BY <3>1
    <3>. QED
      BY <1>1, <3>2 DEF GatesInv
  <2>2. /\ verdict.coverage[1] = M1Coverage(lines, Discovered, Executed)
        /\ verdict.coverage[2] = M2Coverage(lines, Discovered, Executed)
        /\ verdict.coverage[3] = M3Coverage(lines, Discovered, Executed, M3Tests)
    BY <2>1 DEF CoverageVerdict
  <2>3. verdict.coverage[2] => verdict.coverage[1]
    BY <2>1, <2>2, M2CoverageImpliesM1
  <2>4. ASSUME verdict.coverage[3], ~EarlierClaimOnM3Test
        PROVE  verdict.coverage[2]
    <3> DEFINE records == ParseCoverage(lines).records
    <3>1. ~ParseCoverage(lines).raised
      BY <2>2, <2>4 DEF M3Coverage
    <3>2. \A r \in DOMAIN records : \E start \in IdLines : records[r] = WrittenRecord(start)
      BY <2>1, <3>1, RecordsAreWritten
    <3>. HIDE DEF records
    <3>3. ASSUME NEW r \in DOMAIN records, records[r].id \in M2Ids
          PROVE  ToSet(records[r].tests) \cap (M3Tests \ Executed) = {}
      <4>1. PICK start \in IdLines : records[r] = WrittenRecord(start)
        BY <3>2
      <4>2. WrittenRecord(start).id = lines[start].value
        BY DEF WrittenRecord
      <4>. QED
        BY <2>4, <3>3, <4>1, <4>2 DEF EarlierClaimOnM3Test
    <3>4. \A r \in DOMAIN records :
            records[r].id \in M2Ids => ToSet(records[r].tests) \cap (M3Tests \ Executed) = {}
      BY <3>3
    <3>. QED
      BY <2>1, <2>2, <2>4, <3>4, M3CoverageImpliesM2 DEF records
  <2>5. ASSUME verdict.version # << >>
        PROVE  /\ verdict.version[3] => verdict.version[2]
               /\ verdict.version[2] => verdict.version[1]
    <3>1. PICK package, api : verdict.version = VersionVerdict(package, api)
      BY <1>1, <2>5 DEF GatesInv, VerdictInv
    <3>2. /\ verdict.version[1] = M1Version(lines, package, api)
          /\ verdict.version[2] = M2Version(lines, package, api)
          /\ verdict.version[3] = M3Version(lines, package, api)
      BY <3>1 DEF VersionVerdict
    <3>. QED
      BY <3>2, VersionGatesNest
  <2>. QED
    BY <2>3, <2>4, <2>5
<1>. QED
  BY <1>1, GatesInitially, GatesStep, PTL DEF GatesSpec

-----------------------------------------------------------------------------
(***************************************************************************)
(* What the parsers of the samples let through.                            *)
(***************************************************************************)

(* Where the sample lines of one launch, batch and sample are.             *)
Group(raw, run, batch, sample) ==
  {i \in Samples(raw) : <<raw[i].run, raw[i].batch, raw[i].sample>> = <<run, batch, sample>>}

(* As many places as values, and every value at some place: each is at one.*)
LEMMA EveryValueOnce ==
  ASSUME NEW places, IsFiniteSet(places), NEW values, Cardinality(places) = Cardinality(values),
         NEW value \in [places -> values], \A v \in values : \E i \in places : value[i] = v
  PROVE  \A i, j \in places : value[i] = value[j] => i = j
<1>1. value \in Surjection(places, values)
  BY DEF Surjection
<1>2. value \in Injection(places, values)
  BY <1>1, FS_SurjSameCardinalityImpliesInj
<1>. QED
  BY <1>2 DEF Injection, IsInjective

(* In a sample of an accepted output every variant has one line, and every *)
(* place in the order one.                                                 *)
LEMMA GroupIsPermutation ==
  ASSUME NEW raw, IsList(raw), M3ParseRaw(raw),
         NEW run \in Runs, NEW batch \in Batches, NEW sample \in 1 .. SamplesPerRun
  PROVE  LET group == Group(raw, run, batch, sample)
         IN  /\ \A variant \in Variants : \E i \in group : raw[i].variant = variant
             /\ \A i \in group : raw[i].order \in 1 .. Cardinality(Variants)
             /\ \A i, j \in group :
                  raw[i].variant = raw[j].variant \/ raw[i].order = raw[j].order => i = j
<1> DEFINE group == Group(raw, run, batch, sample)
           chosen == M3Order(raw, run, batch, sample)
           size == Cardinality(Variants)
           orders == [k \in DOMAIN chosen |-> chosen[k].order]
<1>1. chosen = ElementsAt(raw, group) /\ group \in SUBSET DOMAIN raw
  BY DEF M3Order, Group, Samples, Places
<1>2. M3CompleteOrder(chosen)
  BY DEF M3ParseRaw
<1>3. /\ Len(orders) = size /\ ToSet(orders) = 1 .. size
      /\ {chosen[k].variant : k \in DOMAIN chosen} = Variants
  BY <1>2 DEF M3CompleteOrder, SortedUpTo, FieldOf
<1>. HIDE DEF group, chosen
<1>4. /\ IsList(chosen) /\ IsFiniteSet(group) /\ Cardinality(group) = Len(chosen)
      /\ \E place \in Bijection(1 .. Len(chosen), group) :
           \A k \in 1 .. Len(chosen) : chosen[k] = raw[place[k]]
  BY <1>1, ElementsAreAtPlaces
<1>5. DOMAIN chosen = 1 .. Len(chosen) /\ Len(chosen) \in Nat
  BY <1>4, ListFacts
<1>6. PICK place \in Bijection(1 .. Len(chosen), group) :
        \A k \in 1 .. Len(chosen) : chosen[k] = raw[place[k]]
  BY <1>4
<1>7. /\ \A k \in DOMAIN chosen : place[k] \in group /\ chosen[k] = raw[place[k]]
      /\ \A i \in group : \E k \in DOMAIN chosen : place[k] = i
  BY <1>5, <1>6 DEF Bijection, Injection, Surjection
<1>8. Len(orders) = Len(chosen)
  <2>1. DOMAIN orders = 1 .. Len(chosen) /\ orders = [k \in 1 .. Len(chosen) |-> orders[k]]
    BY <1>5
  <2>. HIDE DEF orders
  <2>. QED
    BY <1>5, <2>1, FunctionsAreLists
<1>9. Cardinality(group) = size
  BY <1>3, <1>4, <1>8
<1>10. /\ \A i \in group : raw[i].variant \in Variants
       /\ \A variant \in Variants : \E i \in group : raw[i].variant = variant
  BY <1>3, <1>7
<1>11. /\ \A i \in group : raw[i].order \in 1 .. size
       /\ \A order \in 1 .. size : \E i \in group : raw[i].order = order
  <2>1. ToSet(orders) = {chosen[k].order : k \in DOMAIN chosen}
    BY DEF ToSet
  <2> DEFINE positions == 1 .. size
  <2>2. {chosen[k].order : k \in DOMAIN chosen} = positions
    BY <1>3, <2>1
  <2>. HIDE DEF orders, positions
  <2>3. /\ \A i \in group : raw[i].order \in positions
        /\ \A order \in positions : \E i \in group : raw[i].order = order
    BY <1>7, <2>2
  <2>. QED
    BY <2>3 DEF positions
<1>12. \A i, j \in group : raw[i].variant = raw[j].variant => i = j
  <2> DEFINE variant == [i \in group |-> raw[i].variant]
  <2>1. /\ variant \in [group -> Variants] /\ \A v \in Variants : \E i \in group : variant[i] = v
        /\ \A i \in group : variant[i] = raw[i].variant
    BY <1>10
  <2>. HIDE DEF variant
  <2>2. \A i, j \in group : variant[i] = variant[j] => i = j
    BY <1>4, <1>9, <2>1, EveryValueOnce
  <2>. QED
    BY <2>1, <2>2
<1>13. \A i, j \in group : raw[i].order = raw[j].order => i = j
  <2> DEFINE order == [i \in group |-> raw[i].order]
  <2>1. /\ order \in [group -> 1 .. size] /\ \A v \in 1 .. size : \E i \in group : order[i] = v
        /\ \A i \in group : order[i] = raw[i].order
    BY <1>11
  <2>2. size \in Nat /\ Cardinality(1 .. size) = size
    <3>1. size \in Nat
      BY <1>4, <1>5, <1>9
    <3>. QED
      BY <3>1, FS_Interval
  <2>. HIDE DEF order, size
  <2>3. \A i, j \in group : order[i] = order[j] => i = j
    BY <1>4, <1>9, <2>1, <2>2, EveryValueOnce
  <2>. QED
    BY <2>1, <2>3
<1>. QED
  BY <1>10, <1>11, <1>12, <1>13 DEF group

(* Every line of an accepted output belongs to a group of it.              *)
LEMMA SamplesAreGrouped ==
  ASSUME NEW raw, M3ParseRaw(raw), NEW i \in Samples(raw)
  PROVE  /\ raw[i].run \in Runs /\ raw[i].batch \in Batches
         /\ raw[i].sample \in 1 .. SamplesPerRun /\ raw[i].variant \in Variants
         /\ i \in Group(raw, raw[i].run, raw[i].batch, raw[i].sample)
<1>1. <<raw[i].run, raw[i].batch, raw[i].variant>> \in Runs \X Batches \X Variants
  BY DEF M3ParseRaw, Keys
<1>2. <<raw[i].run, raw[i].batch, raw[i].sample>> \in Runs \X Batches \X (1 .. SamplesPerRun)
  BY DEF M3ParseRaw, Keys
<1>. QED
  BY <1>1, <1>2 DEF Group

(* The parser lets nothing through but a complete design.                  *)
LEMMA ParsedIsComplete ==
  ASSUME NEW raw, IsList(raw), M3ParseRaw(raw)
  PROVE  CompleteDesign(raw)
<1> DEFINE cell(line) == <<line.run, line.batch, line.sample, line.variant>>
           cells == Runs \X Batches \X (1 .. SamplesPerRun) \X Variants
           of == [i \in Samples(raw) |-> cell(raw[i])]
<1>1. \A i \in Samples(raw) : cell(raw[i]) \in cells
  BY SamplesAreGrouped
<1>2. ASSUME NEW c \in cells
      PROVE  \E i \in Samples(raw) : cell(raw[i]) = c
  <2>1. PICK run \in Runs, batch \in Batches, sample \in 1 .. SamplesPerRun, variant \in Variants :
          c = <<run, batch, sample, variant>>
    BY <1>2
  <2>2. PICK i \in Group(raw, run, batch, sample) : raw[i].variant = variant
    BY GroupIsPermutation
  <2>. QED
    BY <2>1, <2>2 DEF Group
<1>3. ASSUME NEW i \in Samples(raw), NEW j \in Samples(raw),
             <<raw[i].run, raw[i].batch, raw[i].sample>> = <<raw[j].run, raw[j].batch, raw[j].sample>>,
             raw[i].variant = raw[j].variant \/ raw[i].order = raw[j].order
      PROVE  i = j
  <2>1. /\ raw[i].run \in Runs /\ raw[i].batch \in Batches /\ raw[i].sample \in 1 .. SamplesPerRun
        /\ i \in Group(raw, raw[i].run, raw[i].batch, raw[i].sample)
        /\ j \in Group(raw, raw[j].run, raw[j].batch, raw[j].sample)
        /\ raw[j].run = raw[i].run /\ raw[j].batch = raw[i].batch /\ raw[j].sample = raw[i].sample
    BY <1>3, SamplesAreGrouped
  <2>. QED
    BY <1>3, <2>1, GroupIsPermutation
<1>4. of \in Bijection(Samples(raw), cells)
  <2>1. of \in [Samples(raw) -> cells]
    BY <1>1
  <2>2. \A c \in cells : \E i \in Samples(raw) : of[i] = c
    BY <1>2
  <2>3. ASSUME NEW i \in Samples(raw), NEW j \in Samples(raw), of[i] = of[j]
        PROVE  i = j
    <3>1. /\ <<raw[i].run, raw[i].batch, raw[i].sample>> = <<raw[j].run, raw[j].batch, raw[j].sample>>
          /\ raw[i].variant = raw[j].variant
      BY <2>3
    <3>. QED
      BY <1>3, <3>1
  <2>. HIDE DEF of, cells
  <2>. QED
    BY <2>1, <2>2, <2>3 DEF Bijection, Injection, Surjection, IsInjective
<1>5. Cardinality(Samples(raw)) = Cardinality(cells)
  <2>1. DOMAIN raw = 1 .. Len(raw) /\ Len(raw) \in Nat
    BY ListFacts
  <2>2. IsFiniteSet(Samples(raw))
    <3>1. IsFiniteSet(1 .. Len(raw)) /\ Samples(raw) \subseteq 1 .. Len(raw)
      BY <2>1, FS_Interval DEF Samples, Places
    <3>. QED
      BY <3>1, FS_Subset
  <2>3. ExistsBijection(Samples(raw), cells)
    BY <1>4 DEF ExistsBijection
  <2>. HIDE DEF cells
  <2>. QED
    BY <2>2, <2>3, FS_Bijection
<1>6. {cell(raw[i]) : i \in Samples(raw)} = cells
  BY <1>1, <1>2
<1>7. ASSUME NEW i \in Samples(raw), NEW j \in Samples(raw)
      PROVE  /\ raw[i].order \in 1 .. Cardinality(Variants)
             /\ SubSeq(cell(raw[i]), 1, 3) = SubSeq(cell(raw[j]), 1, 3) /\ i # j =>
                  raw[i].order # raw[j].order
  <2>1. raw[i].order \in 1 .. Cardinality(Variants)
    BY SamplesAreGrouped, GroupIsPermutation
  <2>2. ASSUME NEW a, NEW b, NEW c, NEW d
        PROVE  \A k \in 1 .. 3 : SubSeq(<<a, b, c, d>>, 1, 3)[k] = <<a, b, c, d>>[k]
    <3>1. <<a, b, c, d>> \in Seq({a, b, c, d}) /\ Len(<<a, b, c, d>>) = 4
      OBVIOUS
    <3>2. \A k \in 1 .. 3 : 1 + k - 1 = k
      OBVIOUS
    <3>. QED
      BY <3>1, <3>2, SubSeqProperties
  <2>3. SubSeq(cell(raw[i]), 1, 3) = SubSeq(cell(raw[j]), 1, 3) =>
          <<raw[i].run, raw[i].batch, raw[i].sample>> = <<raw[j].run, raw[j].batch, raw[j].sample>>
    <3>1. SubSeq(cell(raw[i]), 1, 3) = SubSeq(cell(raw[j]), 1, 3) =>
            \A k \in 1 .. 3 : cell(raw[i])[k] = cell(raw[j])[k]
      BY <2>2
    <3>. QED
      BY <3>1
  <2>. QED
    BY <1>3, <2>1, <2>3
<1>. QED
  BY <1>5, <1>6, <1>7 DEF CompleteDesign

-----------------------------------------------------------------------------
(* Documents as the tools write them, and as the edits of the file leave   *)
(* them: all their fields are there and the raw output is a list of lines. *)
ListedDocument(document) ==
  /\ document = [commit |-> document.commit, tree |-> document.tree, raw |-> document.raw,
                 rawHash |-> document.rawHash, generation |-> document.generation,
                 environment |-> document.environment, sources |-> document.sources,
                 runs |-> document.runs, summaries |-> document.summaries,
                 ratios |-> document.ratios, pass |-> document.pass,
                 measured |-> document.measured]
  /\ IsList(document.raw)

(* Where the evidence is such a document, where its schema was checked, and *)
(* where everything in it was.                                             *)
M3Accepting == {"gate recheck commit", "gate recheck status", "passed", "validated"}

M3Passing ==
  {"fresh tree", "retained bridge", "retained environment", "retained sources"} \cup M3Accepting

M3Judging == {"write", "fresh head"} \cup M3Passing

M3SamplesOK ==
  /\ IsList(m3.raw)
  /\ m3Artifact # NoEvidence => ListedDocument(m3Artifact)
  /\ m3.at \in M3Judging => ListedDocument(m3.evidence)
  /\ m3.at \in M3Passing => SchemaCheck(m3.evidence)
  /\ m3.at \in M3Accepting => SelfConsistent(m3.evidence)

LEMMA NothingIsList == IsList(<< >>)
<1>1. << >> \in Seq({})
  OBVIOUS
<1>. QED
  BY <1>1, ListsAreLists

LEMMA ListsJoin ==
  ASSUME NEW a, IsList(a), NEW b, IsList(b)
  PROVE  IsList(a \o b)
<1>1. a \in Seq(ToSet(a) \cup ToSet(b)) /\ b \in Seq(ToSet(a) \cup ToSet(b))
  BY SeqMonotonic DEF IsList
<1>2. a \o b \in Seq(ToSet(a) \cup ToSet(b))
  BY <1>1
<1>. QED
  BY <1>2, ListsAreLists

(* A line of a list can be replaced.                                       *)
LEMMA ListExcept ==
  ASSUME NEW list, IsList(list), NEW i, NEW line
  PROVE  IsList([list EXCEPT ![i] = line])
<1> DEFINE new == [list EXCEPT ![i] = line]
<1>1. DOMAIN list = 1 .. Len(list) /\ Len(list) \in Nat
  BY ListFacts
<1>2. DOMAIN new = 1 .. Len(list) /\ new = [k \in 1 .. Len(list) |-> new[k]]
  BY <1>1
<1>. HIDE DEF new
<1>. QED
  BY <1>1, <1>2, FunctionsAreLists

(* A line can be added to a list, and its last line be lost.               *)
LEMMA ListAppends ==
  ASSUME NEW list, IsList(list), NEW line
  PROVE  IsList(Append(list, line))
<1>1. list \in Seq(ToSet(list) \cup {line})
  BY SeqMonotonic DEF IsList
<1>2. Append(list, line) \in Seq(ToSet(list) \cup {line})
  BY <1>1
<1>. QED
  BY <1>2, ListsAreLists

LEMMA ListShortens ==
  ASSUME NEW list, IsList(list)
  PROVE  IsList(SubSeq(list, 1, Len(list) - 1))
<1>1. list \in Seq(ToSet(list)) /\ Len(list) \in Nat
  BY ListFacts DEF IsList
<1>2. \A i \in 1 .. Len(list) - 1 : list[i] \in ToSet(list)
  BY <1>1
<1>3. SubSeq(list, 1, Len(list) - 1) \in Seq(ToSet(list))
  BY <1>1, <1>2, SubSeqProperties
<1>. QED
  BY <1>3, ListsAreLists

LEMMA M3SamplesElsewhere ==
  ASSUME M3SamplesOK, m3Artifact' = m3Artifact, IsList(m3'.raw), m3'.at \notin M3Judging
  PROVE  M3SamplesOK'
BY DEF M3SamplesOK, M3Judging, M3Passing

LEMMA M3SamplesChecked ==
  ASSUME M3SamplesOK, m3Artifact' = m3Artifact, NEW check, NEW next, M3Continue(check, next)
  PROVE  M3SamplesOK' \/ (check /\ m3' = next)
<1>1. CASE m3' = M3Idle
  <2>1. m3'.raw = << >> /\ m3'.at = "idle"
    BY <1>1 DEF M3Idle
  <2>2. m3'.at \notin M3Judging
    BY <2>1 DEF M3Judging, M3Passing, M3Accepting
  <2>. QED
    BY <2>1, <2>2, NothingIsList, M3SamplesElsewhere
<1>. QED
  BY <1>1 DEF M3Continue

(* Until there is a document.                                              *)
LEMMA MeasuringSamples ==
  ASSUME M3Inv, M3SamplesOK, m3Artifact' = m3Artifact,
         M3GateBegin \/ M3GateReadCommit \/ M3Launch \/ M3GenerateBegin
  PROVE  M3SamplesOK'
<1>1. IsList(m3.raw) /\ M3Shape
  BY DEF M3SamplesOK, M3Inv
<1>2. {"gate commit", "launch", "generate"} \cap M3Judging = {}
  BY DEF M3Judging, M3Passing, M3Accepting
<1>3. CASE M3GateBegin
  <2>1. PICK retain \in BOOLEAN :
          M3Continue(StatusEmpty, [M3Idle EXCEPT !.at = "gate commit", !.retain = retain])
    BY <1>3 DEF M3GateBegin
  <2>2. SUFFICES ASSUME m3' = [M3Idle EXCEPT !.at = "gate commit", !.retain = retain]
                 PROVE  M3SamplesOK'
    BY <2>1, M3SamplesChecked
  <2>3. m3'.raw = << >> /\ m3'.at = "gate commit"
    BY <2>2 DEF M3Idle
  <2>. QED
    BY <1>2, <2>3, NothingIsList, M3SamplesElsewhere
<1>4. CASE M3GateReadCommit
  <2>1. m3'.raw = m3.raw /\ m3'.at = "launch"
    BY <1>1, <1>4 DEF M3GateReadCommit, M3To, M3Shape
  <2>. QED
    BY <1>1, <1>2, <2>1, M3SamplesElsewhere
<1>5. CASE M3Launch
  <2>1. m3.at = "launch" /\ m3.read \in Nat /\ m3.read < IndependentRuns
    BY <1>5 DEF M3Launch, M3Inv, LaunchOK
  <2>2. m3.read + 1 \in Runs
    BY <2>1, RawSamplesAssumption DEF Runs
  <2>3. PICK output \in M3Launches[m3.read + 1] :
          M3Continue(output # << >>,
                     [m3 EXCEPT !.read = @ + 1, !.raw = @ \o output,
                                !.measured = @ \cup {Bytes(work)}])
    BY <1>5 DEF M3Launch
  <2>4. IsList(output)
    BY <2>2, M3EvidenceAssumption DEF IsList
  <2>5. SUFFICES ASSUME m3' = [m3 EXCEPT !.read = @ + 1, !.raw = @ \o output,
                                         !.measured = @ \cup {Bytes(work)}]
                 PROVE  M3SamplesOK'
    BY <2>3, M3SamplesChecked
  <2>6. m3'.raw = m3.raw \o output /\ m3'.at = "launch"
    BY <1>1, <2>1, <2>5 DEF M3Shape
  <2>7. IsList(m3'.raw)
    BY <1>1, <2>4, <2>6, ListsJoin
  <2>. QED
    BY <1>2, <2>6, <2>7, M3SamplesElsewhere
<1>6. CASE M3GenerateBegin
  <2>1. SUFFICES ASSUME m3' = [M3To("generate") EXCEPT !.read = 0]
                 PROVE  M3SamplesOK'
    BY <1>6, M3SamplesChecked DEF M3GenerateBegin
  <2>2. m3'.raw = m3.raw /\ m3'.at = "generate"
    BY <1>1, <2>1 DEF M3To, M3Shape
  <2>. QED
    BY <1>1, <1>2, <2>2, M3SamplesElsewhere
<1>. QED
  BY <1>3, <1>4, <1>5, <1>6

(* The document, from the measurements to the end of the gate.             *)
LEMMA GateSamples ==
  ASSUME M3Inv, M3SamplesOK, m3Artifact' = m3Artifact,
         \/ M3GenerateDocument \/ M3FreshHead \/ M3FreshTree
         \/ M3GateRecheckCommit \/ M3GateRecheckStatus
  PROVE  M3SamplesOK'
<1>1. IsList(m3.raw) /\ M3Shape
  BY DEF M3SamplesOK, M3Inv
<1>2. CASE M3GenerateDocument
  <2>1. SUFFICES ASSUME m3' = [M3To("write") EXCEPT !.evidence = Generated]
                 PROVE  M3SamplesOK'
    BY <1>2, M3SamplesChecked DEF M3GenerateDocument, Generated
  <2>2. m3'.raw = m3.raw /\ m3'.at = "write" /\ m3'.evidence = Generated
    BY <1>1, <2>1 DEF M3To, M3Shape
  <2>3. ListedDocument(Generated)
    <3> DEFINE document == DocumentFor(m3.raw, head)
               bytes == Bytes(TreeOf(head))
               listed == [i \in DOMAIN M3Sources |-> <<M3Sources[i], bytes[M3Sources[i]]>>]
               measured == IF undone THEN {} ELSE m3.measured
    <3>1. ListedDocument(document) /\ document.raw = m3.raw
      BY <1>1 DEF DocumentFor, ListedDocument
    <3>. HIDE DEF document
    <3>2. Generated = [document EXCEPT !.environment = bytes[M3Environment],
                                       !.sources = listed, !.measured = measured]
      BY <3>1 DEF Generated, Binding, document, ListedDocument
    <3>. HIDE DEF bytes, listed, measured
    <3>. QED
      BY <3>1, <3>2 DEF ListedDocument
  <2>. QED
    BY <1>1, <2>2, <2>3 DEF M3SamplesOK, M3Passing, M3Accepting
<1>3. CASE M3FreshHead
  <2>1. SUFFICES ASSUME SchemaCheck(m3.evidence), m3' = [M3To("fresh tree") EXCEPT !.read = head]
                 PROVE  M3SamplesOK'
    <3>1. M3Continue(SchemaCheck(m3.evidence), [M3To("fresh tree") EXCEPT !.read = head])
      BY <1>3 DEF M3FreshHead
    <3>2. M3SamplesOK' \/ ( /\ SchemaCheck(m3.evidence)
                            /\ m3' = [M3To("fresh tree") EXCEPT !.read = head])
      BY <3>1, M3SamplesChecked
    <3>. QED
      BY <2>1, <3>2
  <2>2. m3'.raw = m3.raw /\ m3'.at = "fresh tree" /\ m3'.evidence = m3.evidence
    BY <1>1, <2>1 DEF M3To, M3Shape
  <2>3. ListedDocument(m3.evidence)
    BY <1>3 DEF M3FreshHead, M3SamplesOK, M3Judging
  <2>. QED
    BY <1>1, <2>1, <2>2, <2>3 DEF M3SamplesOK, M3Accepting
<1>4. CASE M3FreshTree
  <2>1. SUFFICES ASSUME SelfConsistent(m3.evidence), m3' = M3To("gate recheck commit")
                 PROVE  M3SamplesOK'
    BY <1>4, M3SamplesChecked DEF M3FreshTree, FreshValid
  <2>2. m3'.raw = m3.raw /\ m3'.at = "gate recheck commit" /\ m3'.evidence = m3.evidence
    BY <1>1, <2>1 DEF M3To, M3Shape
  <2>3. ListedDocument(m3.evidence) /\ SchemaCheck(m3.evidence)
    BY <1>4 DEF M3FreshTree, M3SamplesOK, M3Judging, M3Passing
  <2>. QED
    BY <1>1, <2>1, <2>2, <2>3 DEF M3SamplesOK
<1>5. CASE M3GateRecheckCommit \/ M3GateRecheckStatus
  <2>1. SUFFICES ASSUME NEW at \in {"passed", "gate recheck status"}, m3' = M3To(at)
                 PROVE  M3SamplesOK'
    BY <1>5, M3SamplesChecked DEF M3GateRecheckCommit, M3GateRecheckStatus
  <2>2. m3'.raw = m3.raw /\ m3'.evidence = m3.evidence
    BY <1>1, <2>1 DEF M3To, M3Shape
  <2>3. m3.at \in M3Accepting
    BY <1>5 DEF M3GateRecheckCommit, M3GateRecheckStatus, M3Accepting
  <2>4. ListedDocument(m3.evidence) /\ SchemaCheck(m3.evidence) /\ SelfConsistent(m3.evidence)
    BY <2>3 DEF M3SamplesOK, M3Judging, M3Passing
  <2>. QED
    BY <1>1, <2>2, <2>4 DEF M3SamplesOK
<1>. QED
  BY <1>2, <1>3, <1>4, <1>5

LEMMA WriteDocumentSamples ==
  ASSUME M3Inv, M3SamplesOK, M3WriteDocument
  PROVE  M3SamplesOK'
<1>1. IsList(m3.raw) /\ M3Shape
  BY DEF M3SamplesOK, M3Inv
<1>2. m3'.raw = m3.raw /\ m3'.at = "fresh head" /\ m3'.evidence = m3.evidence
  BY <1>1 DEF M3WriteDocument, M3To, M3Shape
<1>3. ListedDocument(m3.evidence)
  BY DEF M3WriteDocument, M3SamplesOK, M3Judging
<1>4. m3Artifact' = m3.evidence \/ m3Artifact' = m3Artifact
  BY DEF M3WriteDocument
<1>. QED
  BY <1>1, <1>2, <1>3, <1>4 DEF M3SamplesOK, M3Passing, M3Accepting

LEMMA RetainedSamples ==
  ASSUME M3Inv, M3SamplesOK, m3Artifact' = m3Artifact, M3Validate
  PROVE  M3SamplesOK'
<1>1. IsList(m3.raw) /\ M3Shape
  BY DEF M3SamplesOK, M3Inv
<1>2. CASE M3ValidateBegin
  <2>1. SUFFICES ASSUME SchemaCheck(m3Artifact),
                        m3' = [M3Idle EXCEPT !.at = "retained bridge", !.evidence = m3Artifact]
                 PROVE  M3SamplesOK'
    BY <1>2, M3SamplesChecked DEF M3ValidateBegin
  <2>2. m3'.raw = << >> /\ m3'.at = "retained bridge" /\ m3'.evidence = m3Artifact
    BY <2>1 DEF M3Idle
  <2>3. ListedDocument(m3Artifact)
    BY <1>2 DEF M3ValidateBegin, M3SamplesOK
  <2>. QED
    BY <2>1, <2>2, <2>3, NothingIsList DEF M3SamplesOK, M3Accepting
<1>3. CASE M3RetainedBridge \/ M3RetainedEnvironment \/ M3RetainedSource
  <2>1. \/ M3SamplesOK'
        \/ m3' = [M3To("retained environment") EXCEPT !.commit = head]
        \/ m3' = M3To("retained sources")
        \/ m3' = [m3 EXCEPT !.read = @ + 1]
    BY <1>3, M3SamplesChecked DEF M3RetainedBridge, M3RetainedEnvironment, M3RetainedSource
  <2>2. m3.at \in {"retained bridge", "retained environment", "retained sources"}
    BY <1>3 DEF M3RetainedBridge, M3RetainedEnvironment, M3RetainedSource
  <2>3. ListedDocument(m3.evidence) /\ SchemaCheck(m3.evidence)
    BY <2>2 DEF M3SamplesOK, M3Judging, M3Passing
  <2>4. \/ M3SamplesOK'
        \/ /\ m3'.raw = m3.raw /\ m3'.evidence = m3.evidence
           /\ m3'.at \in {"retained bridge", "retained environment", "retained sources"}
    BY <1>1, <2>1, <2>2 DEF M3To, M3Shape
  <2>. QED
    BY <1>1, <2>3, <2>4 DEF M3SamplesOK, M3Accepting
<1>4. CASE M3RetainedSamples
  <2>1. SUFFICES ASSUME SelfConsistent(m3.evidence), m3' = M3To("validated")
                 PROVE  M3SamplesOK'
    BY <1>4, M3SamplesChecked DEF M3RetainedSamples
  <2>2. m3'.raw = m3.raw /\ m3'.at = "validated" /\ m3'.evidence = m3.evidence
    BY <1>1, <2>1 DEF M3To, M3Shape
  <2>3. ListedDocument(m3.evidence) /\ SchemaCheck(m3.evidence)
    BY <1>4 DEF M3RetainedSamples, M3SamplesOK, M3Judging, M3Passing
  <2>. QED
    BY <1>1, <2>1, <2>2, <2>3 DEF M3SamplesOK
<1>. QED
  BY <1>2, <1>3, <1>4 DEF M3Validate

(* The self-test has documents of its own.                                 *)
LEMMA SelfTestSamples ==
  ASSUME M3Inv, M3SamplesOK, m3Artifact' = m3Artifact, M3SelfTest
  PROVE  M3SamplesOK'
<1>1. m3'.at \in M3SelfTesting /\ m3'.raw \in {<< >>, m3.raw}
  BY SelfTestFields DEF M3Inv
<1>2. m3'.at \notin M3Judging
  BY <1>1 DEF M3SelfTesting, M3Judging, M3Passing, M3Accepting
<1>. QED
  BY <1>1, <1>2, NothingIsList, M3SamplesElsewhere DEF M3SamplesOK

(* The edits of the retained file leave it a document.                     *)
LEMMA EditedListed ==
  ASSUME NEW document, ListedDocument(document), NEW edited, edited \in M3Edited(document)
  PROVE  ListedDocument(edited)
<1>1. ASSUME NEW commit \in Commit,
             edited = [document EXCEPT !.commit = commit, !.tree = TreeOf(commit)]
      PROVE  ListedDocument(edited)
  BY <1>1 DEF ListedDocument
<1>2. ASSUME NEW i \in DOMAIN M3Sources, NEW hash \in Content,
             edited = [document EXCEPT !.sources[i][2] = hash]
      PROVE  ListedDocument(edited)
  BY <1>2 DEF ListedDocument
<1>3. ASSUME NEW i, NEW line, edited = WithRaw(document, [document.raw EXCEPT ![i] = line])
      PROVE  ListedDocument(edited)
  <2> DEFINE raw == [document.raw EXCEPT ![i] = line]
  <2>1. IsList(raw)
    BY ListExcept DEF ListedDocument
  <2>2. edited = [document EXCEPT !.raw = raw, !.rawHash = raw]
    BY <1>3 DEF WithRaw
  <2>. HIDE DEF raw
  <2>. QED
    BY <2>1, <2>2 DEF ListedDocument
<1>4. ASSUME edited = Forged(document, "duplicate-order")
      PROVE  ListedDocument(edited)
  <2>1. edited = WithRaw(document, [document.raw EXCEPT ![3].order = 1])
    BY <1>4, SMTT(60) DEF Forged
  <2>. QED
    BY <1>3, <2>1
<1>5. ASSUME edited = Forged(document, "inconsistent-elapsed")
      PROVE  ListedDocument(edited)
  <2>1. edited = WithRaw(document, [document.raw EXCEPT ![2].elapsed = @ + 1])
    BY <1>5, SMTT(60) DEF Forged
  <2>. QED
    BY <1>3, <2>1
<1>6. ListedDocument(edited)
  <2> DEFINE Recommitted(commit) == [document EXCEPT !.commit = commit, !.tree = TreeOf(commit)]
             Rehashed(i, hash) == [document EXCEPT !.sources[i][2] = hash]
             commits == {Recommitted(commit) : commit \in Commit}
             hashes == UNION {{Rehashed(i, hash) : hash \in Content} : i \in DOMAIN M3Sources}
             others == {Forged(document, name) : name \in {"duplicate-order", "inconsistent-elapsed"}}
  <2>1. edited \in {Recommitted(commit) : commit \in Commit}
                    \cup {Forged(document, name) :
                            name \in {"duplicate-order", "inconsistent-elapsed"}}
                    \cup UNION {{Rehashed(i, hash) : hash \in Content} : i \in DOMAIN M3Sources}
    BY DEF M3Edited
  <2>. HIDE DEF Recommitted, Rehashed
  <2>5. edited \in commits \cup hashes \cup others
    BY <2>1
  <2>2. CASE edited \in hashes
    <3>1. PICK i \in DOMAIN M3Sources : edited \in {Rehashed(i, hash) : hash \in Content}
      BY <2>2
    <3>2. PICK hash \in Content : edited = Rehashed(i, hash)
      BY <3>1
    <3>. QED
      BY <1>2, <3>2 DEF Rehashed
  <2>3. CASE edited \in commits
    <3>1. PICK commit \in Commit : edited = Recommitted(commit)
      BY <2>3
    <3>. QED
      BY <1>1, <3>1 DEF Recommitted
  <2>4. CASE edited \in others
    BY <1>4, <1>5, <2>4
  <2>. HIDE DEF commits, hashes, others
  <2>. QED
    BY <2>2, <2>3, <2>4, <2>5
<1>. QED
  BY <1>6

LEMMA ForgedSamples ==
  ASSUME M3SamplesOK, M3Forge
  PROVE  M3SamplesOK'
<1>1. m3' = m3 /\ ListedDocument(m3Artifact)
  BY DEF M3Forge, M3SamplesOK
<1>2. PICK edited \in M3Edited(m3Artifact) : m3Artifact' = [edited EXCEPT !.measured = {}]
  BY DEF M3Forge
<1>3. ListedDocument(edited)
  BY <1>1, EditedListed
<1>4. ListedDocument(m3Artifact')
  BY <1>2, <1>3 DEF ListedDocument
<1>. QED
  BY <1>1, <1>4 DEF M3SamplesOK

LEMMA M3SamplesStep ==
  ASSUME M3Inv, M3SamplesOK, [Next]_vars
  PROVE  M3SamplesOK'
<1>1. CASE m3' = m3 /\ m3Artifact' = m3Artifact
  BY <1>1 DEF M3SamplesOK
<1>2. CASE ~(m3' = m3 /\ m3Artifact' = m3Artifact)
  <2>1. M3Gate \/ M3Validate \/ M3SelfTest \/ M3Forge
    BY <1>2 DEF Next, vars, m3Vars
  <2>2. CASE M3Gate
    BY <2>2, MeasuringSamples, GateSamples, WriteDocumentSamples DEF M3Gate
  <2>3. CASE M3Validate
    BY <2>3, RetainedSamples DEF M3Validate
  <2>4. CASE M3SelfTest
    BY <2>4, SelfTestSamples DEF M3SelfTest
  <2>. QED
    BY <2>1, <2>2, <2>3, <2>4, ForgedSamples
<1>. QED
  BY <1>1, <1>2

LEMMA M3SamplesAccepted ==
  ASSUME M3SamplesOK, m3.at \in {"passed", "validated"}
  PROVE  /\ CompleteDesign(m3.evidence.raw)
         /\ PerfCorePass(m3.evidence.raw)
         /\ m3.evidence.summaries = M3Summarize(m3.evidence.raw)
<1>1. ListedDocument(m3.evidence) /\ SchemaCheck(m3.evidence) /\ SelfConsistent(m3.evidence)
  BY DEF M3SamplesOK, M3Judging, M3Passing, M3Accepting
<1>2. CompleteDesign(m3.evidence.raw)
  BY <1>1, ParsedIsComplete DEF ListedDocument, SelfConsistent, Recomputed
<1>3. PerfCorePass(m3.evidence.raw)
  BY <1>1, Zenon DEF SchemaCheck, SelfConsistent, Recomputed
<1>4. m3.evidence.summaries = M3Summarize(m3.evidence.raw)
  BY <1>1 DEF SelfConsistent, Recomputed
<1>. QED
  BY <1>2, <1>3, <1>4

-----------------------------------------------------------------------------
(* The same of M2's artifact.                                              *)

ListedArtifact(artifact) ==
  /\ artifact = [commit |-> artifact.commit, tree |-> artifact.tree,
                 environment |-> artifact.environment, records |-> artifact.records,
                 raw |-> artifact.raw, medians |-> artifact.medians,
                 measured |-> artifact.measured]
  /\ IsList(artifact.raw)
  /\ IsList(artifact.records)

SamplesValid(artifact) == M2ParseRaw(artifact.raw) /\ artifact.medians = M2Medians(artifact.raw)

M2SamplesOK ==
  /\ IsList(m2.raw) /\ IsList(m2.records)
  /\ m2Artifact # NoDocument => ListedArtifact(m2Artifact)
  /\ m2.at \in {"bridge", "environment", "records", "validated"} => ListedArtifact(m2.artifact)
  /\ m2.at = "validated" => SamplesValid(m2.artifact)

LEMMA M2SamplesElsewhere ==
  ASSUME M2SamplesOK, m2Artifact' = m2Artifact, IsList(m2'.raw), IsList(m2'.records),
         m2'.at \notin {"bridge", "environment", "records", "validated"}
  PROVE  M2SamplesOK'
BY DEF M2SamplesOK

LEMMA M2SamplesChecked ==
  ASSUME M2SamplesOK, m2Artifact' = m2Artifact, NEW check, NEW next, M2Continue(check, next)
  PROVE  M2SamplesOK' \/ (check /\ m2' = next)
<1>1. CASE m2' = M2Idle
  <2>1. m2'.raw = << >> /\ m2'.records = << >> /\ m2'.at = "idle"
    BY <1>1 DEF M2Idle
  <2>. QED
    BY <2>1, NothingIsList, M2SamplesElsewhere
<1>. QED
  BY <1>1 DEF M2Continue

LEMMA CapturedSamples ==
  ASSUME M2Inv, M2SamplesOK, M2Capture
  PROVE  M2SamplesOK'
<1>1. IsList(m2.raw) /\ IsList(m2.records) /\ M2Shape
  BY DEF M2SamplesOK, M2Inv
<1>2. CASE M2WriteArtifact
  <2>1. m2'.raw = << >> /\ m2'.records = << >> /\ m2'.at = "idle"
    BY <1>2 DEF M2WriteArtifact, M2Idle
  <2>2. ListedArtifact(m2Artifact')
    BY <1>1, <1>2 DEF M2WriteArtifact, ListedArtifact
  <2>. QED
    BY <2>1, <2>2, NothingIsList DEF M2SamplesOK
<1>3. CASE M2CaptureBegin \/ M2ReadCommit \/ M2ReadTree
  <2>1. \/ M2SamplesOK'
        \/ m2' = [M2Idle EXCEPT !.at = "read commit"]
        \/ m2' = [M2To("read tree") EXCEPT !.commit = head]
        \/ m2' = [M2To("bench") EXCEPT !.tree = TreeOf(head)]
    BY <1>3, M2SamplesChecked DEF M2CaptureBegin, M2ReadCommit, M2ReadTree
  <2>2. m2Artifact' = m2Artifact
    BY <1>3 DEF M2CaptureBegin, M2ReadCommit, M2ReadTree
  <2>3. \/ M2SamplesOK'
        \/ /\ m2'.raw \in {<< >>, m2.raw} /\ m2'.records \in {<< >>, m2.records}
           /\ m2'.at \in {"read commit", "read tree", "bench"}
    BY <1>1, <2>1 DEF M2Idle, M2To, M2Shape
  <2>. QED
    BY <1>1, <2>2, <2>3, NothingIsList, M2SamplesElsewhere
<1>4. CASE M2Bench
  <2>1. PICK raw \in M2Outputs :
          M2Continue(M2ParseRaw(raw),
                     [M2To("recheck status") EXCEPT !.raw = raw, !.measured = {work}])
    BY <1>4 DEF M2Bench
  <2>2. m2Artifact' = m2Artifact /\ IsList(raw)
    BY <1>4, M2EvidenceAssumption DEF M2Bench, IsList
  <2>3. M2SamplesOK' \/ m2' = [M2To("recheck status") EXCEPT !.raw = raw, !.measured = {work}]
    BY <2>1, <2>2, M2SamplesChecked
  <2>4. m2' = [M2To("recheck status") EXCEPT !.raw = raw, !.measured = {work}]
          => m2'.raw = raw /\ m2'.records = m2.records /\ m2'.at = "recheck status"
    BY <1>1 DEF M2To, M2Shape
  <2>. QED
    BY <1>1, <2>2, <2>3, <2>4, M2SamplesElsewhere
<1>5. CASE M2RecheckStatus \/ M2RecheckCommit \/ M2RecheckTree \/ M2HashEnvironment
  <2>1. m2Artifact' = m2Artifact
    BY <1>5 DEF M2RecheckStatus, M2RecheckCommit, M2RecheckTree, M2HashEnvironment
  <2>2. \/ M2SamplesOK'
        \/ m2' = M2To("recheck commit")
        \/ m2' = M2To("recheck tree")
        \/ m2' = [M2To("hash environment") EXCEPT !.measured = IF undone THEN {} ELSE @]
        \/ m2' = [M2To("hash sources") EXCEPT !.environment = work[M2Environment]]
    BY <1>5, <2>1, M2SamplesChecked
       DEF M2RecheckStatus, M2RecheckCommit, M2RecheckTree, M2HashEnvironment
  <2>3. \/ M2SamplesOK'
        \/ /\ m2'.raw = m2.raw /\ m2'.records = m2.records
           /\ m2'.at \in {"recheck commit", "recheck tree", "hash environment", "hash sources"}
    BY <1>1, <2>2 DEF M2To, M2Shape
  <2>. QED
    BY <1>1, <2>1, <2>3, M2SamplesElsewhere
<1>6. CASE M2HashSource
  <2> DEFINE path == M2Sources[Len(m2.records) + 1]
             record == <<path, work[path]>>
  <2>1. m2Artifact' = m2Artifact /\ m2.at = "hash sources"
    BY <1>6 DEF M2HashSource
  <2>2. M2SamplesOK' \/ m2' = [m2 EXCEPT !.records = Append(@, record)]
    BY <1>6, <2>1, M2SamplesChecked DEF M2HashSource
  <2>. HIDE DEF record
  <2>3. IsList(Append(m2.records, record))
    BY <1>1, ListAppends
  <2>4. m2' = [m2 EXCEPT !.records = Append(@, record)] =>
          /\ m2'.raw = m2.raw /\ m2'.records = Append(m2.records, record)
          /\ m2'.at = "hash sources"
    BY <1>1, <2>1 DEF M2Shape
  <2>. QED
    BY <1>1, <2>1, <2>2, <2>3, <2>4, M2SamplesElsewhere
<1>. QED
  BY <1>2, <1>3, <1>4, <1>5, <1>6 DEF M2Capture

LEMMA ValidatedSamples ==
  ASSUME M2Inv, M2SamplesOK, M2Validate
  PROVE  M2SamplesOK'
<1>1. IsList(m2.raw) /\ IsList(m2.records) /\ M2Shape
  BY DEF M2SamplesOK, M2Inv
<1>2. m2Artifact' = m2Artifact
  BY DEF M2Validate, M2ValidateBegin, M2ValidateBridge, M2ValidateEnvironment,
         M2ValidateRecord, M2ValidateSamples
<1>3. CASE M2ValidateBegin
  <2>1. /\ m2'.raw = << >> /\ m2'.records = << >> /\ m2'.at = "bridge"
        /\ m2'.artifact = m2Artifact
    BY <1>3 DEF M2ValidateBegin, M2Idle
  <2>2. ListedArtifact(m2Artifact)
    BY <1>3 DEF M2ValidateBegin, M2SamplesOK
  <2>. QED
    BY <1>2, <2>1, <2>2, NothingIsList DEF M2SamplesOK
<1>4. CASE M2ValidateBridge \/ M2ValidateEnvironment \/ M2ValidateRecord
  <2>1. m2.at \in {"bridge", "environment", "records"}
    BY <1>4 DEF M2ValidateBridge, M2ValidateEnvironment, M2ValidateRecord
  <2>2. \/ M2SamplesOK'
        \/ m2' = M2To("environment")
        \/ m2' = M2To("records")
        \/ m2' = [m2 EXCEPT !.position = @ + 1]
    BY <1>2, <1>4, M2SamplesChecked DEF M2ValidateBridge, M2ValidateEnvironment, M2ValidateRecord
  <2>3. \/ M2SamplesOK'
        \/ /\ m2'.raw = m2.raw /\ m2'.records = m2.records /\ m2'.artifact = m2.artifact
           /\ m2'.at \in {"bridge", "environment", "records"}
    BY <1>1, <2>1, <2>2 DEF M2To, M2Shape
  <2>4. ListedArtifact(m2.artifact)
    BY <2>1 DEF M2SamplesOK
  <2>. QED
    BY <1>1, <1>2, <2>3, <2>4 DEF M2SamplesOK
<1>5. CASE M2ValidateSamples
  <2>1. SUFFICES ASSUME SamplesValid(m2.artifact), m2' = M2To("validated")
                 PROVE  M2SamplesOK'
    BY <1>2, <1>5, M2SamplesChecked DEF M2ValidateSamples, SamplesValid
  <2>2. /\ m2'.raw = m2.raw /\ m2'.records = m2.records
        /\ m2'.artifact = m2.artifact /\ m2'.at = "validated"
    BY <1>1, <2>1 DEF M2To, M2Shape
  <2>3. ListedArtifact(m2.artifact)
    BY <1>5 DEF M2ValidateSamples, M2SamplesOK
  <2>. QED
    BY <1>1, <1>2, <2>1, <2>2, <2>3 DEF M2SamplesOK
<1>. QED
  BY <1>3, <1>4, <1>5 DEF M2Validate

(* The edits of the retained file leave it an artifact.                    *)
LEMMA EditedArtifact ==
  ASSUME NEW artifact, ListedArtifact(artifact), NEW edited, edited \in M2Edited(artifact)
  PROVE  ListedArtifact(edited)
<1>1. ASSUME NEW commit \in Commit,
             edited = [artifact EXCEPT !.commit = commit, !.tree = TreeOf(commit)]
      PROVE  ListedArtifact(edited)
  BY <1>1 DEF ListedArtifact
<1>2. ASSUME NEW new, IsList(new),
             \/ edited = [artifact EXCEPT !.raw = new]
             \/ edited = [artifact EXCEPT !.records = new]
      PROVE  ListedArtifact(edited)
  BY <1>2 DEF ListedArtifact
<1>3. IsList(artifact.raw) /\ IsList(artifact.records)
  BY DEF ListedArtifact
<1>4. ASSUME NEW i, NEW hash, edited = [artifact EXCEPT !.records[i][2] = hash]
      PROVE  ListedArtifact(edited)
  <2> DEFINE record == [artifact.records[i] EXCEPT ![2] = hash]
             new == [artifact.records EXCEPT ![i] = record]
  <2>1. edited = [artifact EXCEPT !.records = new]
    BY <1>4
  <2>. HIDE DEF record
  <2>2. IsList(new)
    BY <1>3, ListExcept
  <2>. QED
    BY <1>2, <2>1, <2>2
<1>5. ASSUME NEW i, NEW line, edited = [artifact EXCEPT !.raw[i] = line]
      PROVE  ListedArtifact(edited)
  <2>1. IsList([artifact.raw EXCEPT ![i] = line])
    BY <1>3, ListExcept
  <2>. QED
    BY <1>2, <1>5, <2>1
<1>6. IsList(SubSeq(artifact.raw, 1, Len(artifact.raw) - 1))
  BY <1>3, ListShortens
<1>7. IsList(SubSeq(artifact.records, 1, Len(artifact.records) - 1))
  BY <1>3, ListShortens
<1>8. ListedArtifact(edited)
  <2> DEFINE Recommitted(commit) == [artifact EXCEPT !.commit = commit, !.tree = TreeOf(commit)]
             Rehashed(i, hash) == [artifact EXCEPT !.records[i][2] = hash]
             fewer == [artifact EXCEPT !.records = SubSeq(@, 1, Len(@) - 1)]
             shorter == [artifact EXCEPT !.raw = SubSeq(@, 1, Len(@) - 1)]
             slower == [artifact EXCEPT !.raw[Len(artifact.raw)].parser = @ + 9]
             commits == {Recommitted(commit) : commit \in Commit}
             hashes == UNION {{Rehashed(i, hash) : hash \in Content} : i \in DOMAIN artifact.records}
             others == {fewer, shorter, slower}
  <2>1. edited \in {Recommitted(commit) : commit \in Commit}
                    \cup {fewer, shorter, slower}
                    \cup UNION {{Rehashed(i, hash) : hash \in Content} : i \in DOMAIN artifact.records}
    BY DEF M2Edited
  <2>. HIDE DEF Recommitted, Rehashed, fewer, shorter, slower
  <2>5. edited \in commits \cup hashes \cup others
    BY <2>1
  <2>2. CASE edited \in hashes
    <3>1. PICK i \in DOMAIN artifact.records : edited \in {Rehashed(i, hash) : hash \in Content}
      BY <2>2
    <3>2. PICK hash \in Content : edited = Rehashed(i, hash)
      BY <3>1
    <3>. QED
      BY <1>4, <3>2 DEF Rehashed
  <2>3. CASE edited \in commits
    <3>1. PICK commit \in Commit : edited = Recommitted(commit)
      BY <2>3
    <3>. QED
      BY <1>1, <3>1 DEF Recommitted
  <2>4. CASE edited \in others
    <3>1. CASE edited = fewer
      BY <1>2, <1>7, <3>1 DEF fewer
    <3>2. CASE edited = shorter
      BY <1>2, <1>6, <3>2 DEF shorter
    <3>3. CASE edited = slower
      BY <1>5, <3>3 DEF slower
    <3>. QED
      BY <2>4, <3>1, <3>2, <3>3
  <2>. HIDE DEF commits, hashes, others
  <2>. QED
    BY <2>2, <2>3, <2>4, <2>5
<1>. QED
  BY <1>8

LEMMA ForgedArtifact ==
  ASSUME M2SamplesOK, M2Forge
  PROVE  M2SamplesOK'
<1>1. m2' = m2 /\ ListedArtifact(m2Artifact)
  BY DEF M2Forge, M2SamplesOK
<1>2. PICK edited \in M2Edited(m2Artifact) : m2Artifact' = [edited EXCEPT !.measured = {}]
  BY DEF M2Forge
<1>3. ListedArtifact(edited)
  BY <1>1, EditedArtifact
<1>4. ListedArtifact(m2Artifact')
  BY <1>2, <1>3 DEF ListedArtifact
<1>. QED
  BY <1>1, <1>4 DEF M2SamplesOK

LEMMA M2SamplesStep ==
  ASSUME M2Inv, M2SamplesOK, [Next]_vars
  PROVE  M2SamplesOK'
<1>1. CASE m2' = m2 /\ m2Artifact' = m2Artifact
  BY <1>1 DEF M2SamplesOK, SamplesValid
<1>2. M2Capture \/ M2Validate \/ M2Forge \/ (m2' = m2 /\ m2Artifact' = m2Artifact)
  BY DEF Next, vars, m2Vars
<1>. QED
  BY <1>1, <1>2, CapturedSamples, ValidatedSamples, ForgedArtifact

LEMMA M2SamplesAccepted ==
  ASSUME M2SamplesOK, m2.at = "validated"
  PROVE  /\ \A batch \in BatchSizes :
              Len(M2Batch(m2.artifact.raw, batch)) = Repetitions
         /\ m2.artifact.medians = M2Medians(m2.artifact.raw)
<1> DEFINE raw == m2.artifact.raw
<1>1. IsList(raw) /\ SamplesValid(m2.artifact)
  BY DEF M2SamplesOK, ListedArtifact
<1>2. ASSUME NEW batch \in BatchSizes
      PROVE  Len(M2Batch(raw, batch)) = Repetitions
  <2> DEFINE places == {i \in Samples(raw) : raw[i].batch = batch}
             chosen == M2Batch(raw, batch)
  <2>1. chosen = ElementsAt(raw, places) /\ places \in SUBSET DOMAIN raw
    BY DEF M2Batch, Samples, Places
  <2>2. [k \in DOMAIN chosen |-> chosen[k].run] = [k \in 1 .. Repetitions |-> k]
    BY <1>1 DEF SamplesValid, M2ParseRaw, FieldOf, UpTo
  <2>. HIDE DEF raw, places, chosen
  <2>3. IsList(chosen)
    BY <1>1, <2>1, ElementsAreAtPlaces
  <2>4. DOMAIN chosen = 1 .. Repetitions
    BY <2>2
  <2>5. DOMAIN chosen = 1 .. Len(chosen) /\ Len(chosen) \in Nat
    BY <2>3, ListFacts
  <2>. QED
    BY <2>4, <2>5, RawSamplesAssumption DEF chosen
<1>3. m2.artifact.medians = M2Medians(raw)
  BY <1>1 DEF SamplesValid
<1>. QED
  BY <1>2, <1>3

(* Whatever the launches print, in whatever order lines are lost, repeated *)
(* or mixed up, and whatever is edited afterwards: evidence that passed    *)
(* the gate or a validator has one line per launch, batch, sample and      *)
(* variant, and its medians and the threshold are those of these lines.    *)
THEOREM AcceptedSamplesCorrect == Spec => []AcceptedSamplesAreComplete
<1>1. Init => HistoryOK /\ M3Inv /\ M2Inv /\ M3SamplesOK /\ M2SamplesOK
  <2> SUFFICES ASSUME Init PROVE HistoryOK /\ M3Inv /\ M2Inv /\ M3SamplesOK /\ M2SamplesOK
    OBVIOUS
  <2>1. m3.raw = << >> /\ m3.at = "idle" /\ m3Artifact = NoEvidence
    BY DEF Init, M3Init, M3Idle
  <2>2. m2.raw = << >> /\ m2.records = << >> /\ m2.at = "idle" /\ m2Artifact = NoDocument
    BY DEF Init, M2Init, M2Idle
  <2>3. M3SamplesOK /\ M2SamplesOK
    BY <2>1, <2>2, NothingIsList
       DEF M3SamplesOK, M2SamplesOK, M3Judging, M3Passing, M3Accepting
  <2>. QED
    BY <2>3, HistoryInit, M3InitInv, FirstInv
<1>2. HistoryOK /\ M3Inv /\ M2Inv /\ M3SamplesOK /\ M2SamplesOK /\ [Next]_vars
        => (HistoryOK /\ M3Inv /\ M2Inv /\ M3SamplesOK /\ M2SamplesOK)'
  BY StepOfRepository, M3StepInv, M2StepInv, M3SamplesStep, M2SamplesStep
<1>3. M3SamplesOK /\ M2SamplesOK => AcceptedSamplesAreComplete
  BY M3SamplesAccepted, M2SamplesAccepted DEF AcceptedSamplesAreComplete
<1>. QED
  BY <1>1, <1>2, <1>3, PTL DEF Spec

-----------------------------------------------------------------------------
(***************************************************************************)
(* What was measured, and of what evidence says it was.                    *)
(***************************************************************************)

(* All that was measured had the files of the commit.                      *)
MeasuredOf(measured, commit) ==
  \A bytes \in measured : commit \in Commit /\ bytes = TreeOf(commit)

(* Unless work is taken back, a step that ends at an old commit began there, *)
(* and with no fewer changes.                                              *)
LEMMA HeadStays ==
  ASSUME HistoryOK, HistoryOK', RepositoryStep, ~undone', head' \in Commit
  PROVE  /\ ~undone /\ head = head'
         /\ (work = TreeOf(head))' => work = TreeOf(head)
<1>1. ~undone /\ head' = head
  BY DEF RepositoryStep
<1>. QED
  BY <1>1, DifferenceKept

M2Validating == {"bridge", "environment", "records", "validated"}

M2MeasuredOK ==
  /\ m2.at \in {"read tree", "bench", "recheck status", "recheck commit"} => m2.commit \in Commit
  /\ m2.at = "recheck status" /\ ~undone /\ head = m2.commit =>
       MeasuredOf(m2.measured, m2.commit) \/ work # TreeOf(head)
  /\ m2.at = "recheck commit" /\ ~undone /\ head = m2.commit =>
       MeasuredOf(m2.measured, m2.commit)
  /\ m2.at = "recheck tree" /\ ~undone => MeasuredOf(m2.measured, m2.commit)
  /\ m2.at \in {"hash environment", "hash sources"} => MeasuredOf(m2.measured, m2.commit)
  /\ m2.at \in M2Validating => MeasuredOf(m2.artifact.measured, m2.artifact.commit)
  /\ m2Artifact # NoDocument => MeasuredOf(m2Artifact.measured, m2Artifact.commit)

LEMMA M2MeasuredKept ==
  ASSUME HistoryOK, HistoryOK', RepositoryStep, M2MeasuredOK, UNCHANGED m2Vars
  PROVE  M2MeasuredOK'
<1>1. m2' = m2 /\ m2Artifact' = m2Artifact
  BY DEF m2Vars
<1>2. \A commit \in Commit : commit \in Commit' /\ history'[commit] = history[commit]
  BY DEF RepositoryStep
<1>3. /\ MeasuredOf(m2.measured, m2.commit) => MeasuredOf(m2.measured, m2.commit)'
      /\ MeasuredOf(m2.artifact.measured, m2.artifact.commit)
           => MeasuredOf(m2.artifact.measured, m2.artifact.commit)'
      /\ MeasuredOf(m2Artifact.measured, m2Artifact.commit)
           => MeasuredOf(m2Artifact.measured, m2Artifact.commit)'
  <2>1. MeasuredOf(m2.measured, m2.commit) => MeasuredOf(m2.measured, m2.commit)'
    BY <1>1, <1>2 DEF MeasuredOf, TreeOf
  <2>2. MeasuredOf(m2.artifact.measured, m2.artifact.commit)
           => MeasuredOf(m2.artifact.measured, m2.artifact.commit)'
    BY <1>1, <1>2 DEF MeasuredOf, TreeOf
  <2>3. MeasuredOf(m2Artifact.measured, m2Artifact.commit)
           => MeasuredOf(m2Artifact.measured, m2Artifact.commit)'
    BY <1>1, <1>2 DEF MeasuredOf, TreeOf
  <2>. QED
    BY <2>1, <2>2, <2>3
<1>4. m2.commit \in Commit => m2.commit \in Commit'
  BY DEF RepositoryStep
<1>5. m2.commit \in Commit /\ ~undone' /\ head' = m2.commit =>
        /\ ~undone /\ head = m2.commit
        /\ (work = TreeOf(head))' => work = TreeOf(head)
  BY HeadStays
<1>6. undone => undone'
  BY DEF RepositoryStep
<1>. QED
  BY <1>1, <1>3, <1>4, <1>5, <1>6 DEF M2MeasuredOK

(* Nothing is measured anew, or for another commit.                        *)
LEMMA M2MeasuredElsewhere ==
  ASSUME M2MeasuredOK, m2Artifact' = m2Artifact, history' = history,
         m2'.at \in {"idle", "read commit"}
  PROVE  M2MeasuredOK'
BY DEF M2MeasuredOK, M2Validating, MeasuredOf, Commit, TreeOf

LEMMA M2MeasuredChecked ==
  ASSUME M2MeasuredOK, m2Artifact' = m2Artifact, history' = history,
         NEW check, NEW next, M2Continue(check, next)
  PROVE  M2MeasuredOK' \/ (check /\ m2' = next)
BY M2MeasuredElsewhere DEF M2Continue, M2Idle

LEMMA CapturedMeasured ==
  ASSUME HistoryOK, M2Inv, M2MeasuredOK, M2Capture
  PROVE  M2MeasuredOK'
<1>1. M2Shape
  BY DEF M2Inv
<1>2. UNCHANGED <<history, head, work, undone>>
  BY DEF M2Capture, repository, OutputWritten
<1>3. history' = history /\ Commit' = Commit
  BY <1>2 DEF Commit
<1>4. m2Artifact # NoDocument => MeasuredOf(m2Artifact.measured, m2Artifact.commit)
  BY DEF M2MeasuredOK
<1>5. ASSUME m2Artifact' = m2Artifact
      PROVE  m2Artifact' # NoDocument => MeasuredOf(m2Artifact.measured, m2Artifact.commit)'
  BY <1>3, <1>4, <1>5 DEF MeasuredOf, TreeOf
<1>6. CASE M2CaptureBegin
  <2>1. M2MeasuredOK' \/ m2' = [M2Idle EXCEPT !.at = "read commit"]
    BY <1>2, <1>6, M2MeasuredChecked DEF M2CaptureBegin
  <2>2. m2' = [M2Idle EXCEPT !.at = "read commit"] => m2'.at = "read commit"
    BY DEF M2Idle
  <2>. QED
    BY <1>2, <1>6, <2>1, <2>2, M2MeasuredElsewhere DEF M2CaptureBegin
<1>7. CASE M2ReadCommit
  <2>1. m2'.at = "read tree" /\ m2'.commit = head /\ m2Artifact' = m2Artifact
    BY <1>1, <1>7 DEF M2ReadCommit, M2To, M2Shape
  <2>2. m2'.commit \in Commit'
    BY <1>2, <2>1 DEF HistoryOK, Commit
  <2>. QED
    BY <1>5, <2>1, <2>2 DEF M2MeasuredOK, M2Validating
<1>8. CASE M2ReadTree
  <2>1. m2'.at = "bench" /\ m2'.commit = m2.commit /\ m2Artifact' = m2Artifact
    BY <1>1, <1>8 DEF M2ReadTree, M2To, M2Shape
  <2>2. m2'.commit \in Commit'
    BY <1>2, <1>8, <2>1 DEF M2ReadTree, M2MeasuredOK, Commit
  <2>. QED
    BY <1>5, <2>1, <2>2 DEF M2MeasuredOK, M2Validating
<1>9. CASE M2Bench
  <2>1. PICK raw \in M2Outputs :
          M2Continue(M2ParseRaw(raw),
                     [M2To("recheck status") EXCEPT !.raw = raw, !.measured = {work}])
    BY <1>9 DEF M2Bench
  <2>2. SUFFICES ASSUME m2' = [M2To("recheck status") EXCEPT !.raw = raw, !.measured = {work}]
                 PROVE  M2MeasuredOK'
    BY <1>2, <1>9, <2>1, M2MeasuredChecked DEF M2Bench
  <2>3. /\ m2'.at = "recheck status" /\ m2'.commit = m2.commit /\ m2'.measured = {work}
        /\ m2Artifact' = m2Artifact
    BY <1>1, <1>9, <2>2 DEF M2Bench, M2To, M2Shape
  <2>4. m2'.commit \in Commit'
    BY <1>2, <1>9, <2>3 DEF M2Bench, M2MeasuredOK, Commit
  <2>5. (head = m2.commit /\ work = TreeOf(head))' => MeasuredOf(m2.measured, m2.commit)'
    BY <1>2, <2>3, <2>4 DEF MeasuredOf
  <2>. QED
    BY <1>5, <2>3, <2>4, <2>5 DEF M2MeasuredOK, M2Validating
<1>10. CASE M2RecheckStatus
  <2>1. SUFFICES ASSUME StatusEmpty, m2' = M2To("recheck commit")
                 PROVE  M2MeasuredOK'
    <3>1. M2Continue(StatusEmpty, M2To("recheck commit"))
      BY <1>10 DEF M2RecheckStatus
    <3>2. M2MeasuredOK' \/ (StatusEmpty /\ m2' = M2To("recheck commit"))
      BY <1>2, <1>10, <3>1, M2MeasuredChecked DEF M2RecheckStatus
    <3>. QED
      BY <2>1, <3>2
  <2>2. /\ m2'.at = "recheck commit" /\ m2'.commit = m2.commit /\ m2'.measured = m2.measured
        /\ m2Artifact' = m2Artifact
    BY <1>1, <1>10, <2>1 DEF M2RecheckStatus, M2To, M2Shape
  <2>3. /\ m2.commit \in Commit
        /\ ~undone /\ head = m2.commit => MeasuredOf(m2.measured, m2.commit)
    BY <1>10, <2>1 DEF M2RecheckStatus, M2MeasuredOK, StatusEmpty
  <2>4. m2'.commit \in Commit'
    BY <1>2, <2>2, <2>3 DEF Commit
  <2>5. MeasuredOf(m2.measured, m2.commit) => MeasuredOf(m2.measured, m2.commit)'
    BY <1>3, <2>2 DEF MeasuredOf, TreeOf
  <2>. QED
    BY <1>2, <1>5, <2>2, <2>3, <2>4, <2>5 DEF M2MeasuredOK, M2Validating
<1>11. CASE M2RecheckCommit
  <2>1. SUFFICES ASSUME head = m2.commit, m2' = M2To("recheck tree")
                 PROVE  M2MeasuredOK'
    BY <1>2, <1>11, M2MeasuredChecked DEF M2RecheckCommit
  <2>2. /\ m2'.at = "recheck tree" /\ m2'.commit = m2.commit /\ m2'.measured = m2.measured
        /\ m2Artifact' = m2Artifact
    BY <1>1, <1>11, <2>1 DEF M2RecheckCommit, M2To, M2Shape
  <2>3. ~undone => MeasuredOf(m2.measured, m2.commit)
    BY <1>11, <2>1 DEF M2RecheckCommit, M2MeasuredOK
  <2>4. MeasuredOf(m2.measured, m2.commit) => MeasuredOf(m2.measured, m2.commit)'
    BY <1>3, <2>2 DEF MeasuredOf, TreeOf
  <2>. QED
    BY <1>2, <1>5, <2>2, <2>3, <2>4 DEF M2MeasuredOK, M2Validating
<1>12. CASE M2RecheckTree
  <2>1. SUFFICES ASSUME m2' = [M2To("hash environment") EXCEPT
                                 !.measured = IF undone THEN {} ELSE @]
                 PROVE  M2MeasuredOK'
    BY <1>2, <1>12, M2MeasuredChecked DEF M2RecheckTree
  <2>2. /\ m2'.at = "hash environment" /\ m2'.commit = m2.commit
        /\ m2'.measured = IF undone THEN {} ELSE m2.measured
        /\ m2Artifact' = m2Artifact
    BY <1>1, <1>12, <2>1 DEF M2RecheckTree, M2To, M2Shape
  <2>3. ~undone => MeasuredOf(m2.measured, m2.commit)
    BY <1>12 DEF M2RecheckTree, M2MeasuredOK
  <2>4. MeasuredOf(m2.measured, m2.commit)'
    BY <1>3, <2>2, <2>3 DEF MeasuredOf, TreeOf
  <2>. QED
    BY <1>5, <2>2, <2>4 DEF M2MeasuredOK, M2Validating
<1>13. CASE M2HashEnvironment \/ M2HashSource
  <2> DEFINE path == M2Sources[Len(m2.records) + 1]
             record == <<path, work[path]>>
  <2>1. MeasuredOf(m2.measured, m2.commit) /\ m2Artifact' = m2Artifact
    BY <1>13 DEF M2HashEnvironment, M2HashSource, M2MeasuredOK
  <2>2. \/ M2MeasuredOK'
        \/ m2' = [M2To("hash sources") EXCEPT !.environment = work[M2Environment]]
        \/ m2.at = "hash sources" /\ m2' = [m2 EXCEPT !.records = Append(@, record)]
    BY <1>2, <1>13, <2>1, M2MeasuredChecked DEF M2HashEnvironment, M2HashSource
  <2>. HIDE DEF record
  <2>3. \/ M2MeasuredOK'
        \/ m2'.at = "hash sources" /\ m2'.commit = m2.commit /\ m2'.measured = m2.measured
    BY <1>1, <2>2 DEF M2To, M2Shape
  <2>4. ASSUME m2'.commit = m2.commit, m2'.measured = m2.measured
        PROVE  MeasuredOf(m2.measured, m2.commit)'
    BY <1>3, <2>1, <2>4 DEF MeasuredOf, TreeOf
  <2>. QED
    BY <1>5, <2>1, <2>3, <2>4 DEF M2MeasuredOK, M2Validating
<1>14. CASE M2WriteArtifact
  <2>1. /\ m2'.at = "idle" /\ m2Artifact'.commit = m2.commit
        /\ m2Artifact'.measured = m2.measured
    BY <1>14 DEF M2WriteArtifact, M2Idle
  <2>2. MeasuredOf(m2.measured, m2.commit)
    BY <1>14 DEF M2WriteArtifact, M2MeasuredOK
  <2>3. MeasuredOf(m2Artifact.measured, m2Artifact.commit)'
    BY <1>3, <2>1, <2>2 DEF MeasuredOf, TreeOf
  <2>. QED
    BY <2>1, <2>3 DEF M2MeasuredOK, M2Validating
<1>. QED
  BY <1>6, <1>7, <1>8, <1>9, <1>10, <1>11, <1>12, <1>13, <1>14 DEF M2Capture

LEMMA M2MeasuredStep ==
  ASSUME HistoryOK, M2Inv, M2SamplesOK, M2MeasuredOK, [Next]_vars
  PROVE  M2MeasuredOK'
<1>1. HistoryOK' /\ RepositoryStep
  BY StepOfRepository
<1>2. CASE UNCHANGED m2Vars
  BY <1>1, <1>2, M2MeasuredKept
<1>3. CASE M2Capture
  BY <1>3, CapturedMeasured
<1>4. CASE M2Validate
  <2>1. M2Shape /\ history' = history /\ m2Artifact' = m2Artifact
    BY <1>4 DEF M2Inv, M2Validate, repository, M2ValidateBegin, M2ValidateBridge,
                M2ValidateEnvironment, M2ValidateRecord, M2ValidateSamples
  <2>2. \/ M2MeasuredOK'
        \/ m2Artifact # NoDocument /\ m2' = [M2Idle EXCEPT !.at = "bridge", !.artifact = m2Artifact]
        \/ m2.at \in M2Validating /\ \E at \in M2Validating : m2' = M2To(at)
        \/ m2.at = "records" /\ m2' = [m2 EXCEPT !.position = @ + 1]
    BY <1>4, <2>1, M2MeasuredChecked
       DEF M2Validate, M2ValidateBegin, M2ValidateBridge, M2ValidateEnvironment,
           M2ValidateRecord, M2ValidateSamples, M2Validating
  <2>3. \/ M2MeasuredOK'
        \/ m2Artifact # NoDocument /\ m2'.at \in M2Validating /\ m2'.artifact = m2Artifact
        \/ m2.at \in M2Validating /\ m2'.at \in M2Validating /\ m2'.artifact = m2.artifact
    BY <2>1, <2>2 DEF M2Idle, M2To, M2Shape, M2Validating
  <2>4. M2MeasuredOK' \/ (m2'.at \in M2Validating
                            /\ MeasuredOf(m2'.artifact.measured, m2'.artifact.commit))
    BY <2>3 DEF M2MeasuredOK
  <2>5. ASSUME MeasuredOf(m2'.artifact.measured, m2'.artifact.commit)
        PROVE  MeasuredOf(m2.artifact.measured, m2.artifact.commit)'
    BY <2>1, <2>5 DEF MeasuredOf, Commit, TreeOf
  <2>6. m2Artifact' # NoDocument => MeasuredOf(m2Artifact.measured, m2Artifact.commit)'
    BY <2>1 DEF M2MeasuredOK, MeasuredOf, Commit, TreeOf
  <2>. QED
    BY <2>4, <2>5, <2>6 DEF M2MeasuredOK, M2Validating
<1>5. CASE M2Forge
  <2>1. m2' = m2 /\ ListedArtifact(m2Artifact) /\ UNCHANGED <<history, head, work, undone>>
    BY <1>5 DEF M2Forge, M2SamplesOK
  <2>2. PICK edited \in M2Edited(m2Artifact) : m2Artifact' = [edited EXCEPT !.measured = {}]
    BY <1>5 DEF M2Forge
  <2>3. ListedArtifact(edited)
    BY <2>1, EditedArtifact
  <2>4. m2Artifact'.measured = {}
    BY <2>2, <2>3 DEF ListedArtifact
  <2>. QED
    BY <2>1, <2>4 DEF M2MeasuredOK, MeasuredOf, Commit, TreeOf
<1>. QED
  BY <1>2, <1>3, <1>4, <1>5 DEF Next, vars, m2Vars

LEMMA M2MeasuredAccepted ==
  ASSUME M2Inv, M2SamplesOK, M2MeasuredOK, m2.at = "validated",
         NEW bytes \in m2.artifact.measured, NEW i \in DOMAIN m2.artifact.records
  PROVE  bytes[m2.artifact.records[i][1]] = m2.artifact.records[i][2]
<1>1. bytes = TreeOf(m2.artifact.commit)
  BY DEF M2MeasuredOK, M2Validating, MeasuredOf
<1>2. IsList(m2.artifact.records)
  BY DEF M2SamplesOK, ListedArtifact
<1>3. DOMAIN m2.artifact.records = 1 .. Len(m2.artifact.records)
  BY <1>2, ListFacts
<1>4. M2Accepted(i)
  BY <1>3 DEF M2Inv, M2RecordsOK
<1>. QED
  BY <1>1, <1>4 DEF M2Accepted, Blob, TreeOf

-----------------------------------------------------------------------------
(* The same of the fuzz summaries.                                         *)

FuzzMeasuring == {"campaign", "hash seeds", "read commit"}

FuzzReading == {"read tree", "read dirty"}

FuzzRead == {"hash sources", "hash dictionary", "write", "records", "validated"}

SummaryMeasured(summary) ==
  \/ summary.dirty
  \/ ~Ancestor(summary.commit, FinalGate)
  \/ MeasuredOf(summary.measured, summary.commit)

(* At the commit that HEAD names, what was measured is what the summary    *)
(* will say, or the summary will say dirty.                                *)
HeadMeasured ==
  ~undone /\ Ancestor(head, FinalGate) =>
    MeasuredOf(fuzz.summary.measured, head) \/ work # TreeOf(head)

FuzzMeasuredOK ==
  /\ fuzz.at \in FuzzMeasuring => HeadMeasured
  /\ fuzz.at \in FuzzReading /\ head = fuzz.summary.commit => HeadMeasured
  /\ fuzz.at \in FuzzRead => SummaryMeasured(fuzz.summary)
  /\ fuzz.at \in {"records", "validated"} => ~fuzz.summary.dirty
  /\ \A target \in FuzzTarget :
       fuzzSummary[target] # NoSummary => SummaryMeasured(fuzzSummary[target])

LEMMA FuzzMeasuredKept ==
  ASSUME HistoryOK, HistoryOK', RepositoryStep, FuzzMeasuredOK, UNCHANGED fuzzVars
  PROVE  FuzzMeasuredOK'
<1>1. fuzz' = fuzz /\ fuzzSummary' = fuzzSummary
  BY DEF fuzzVars
<1>2. \A commit \in Commit : commit \in Commit' /\ history'[commit] = history[commit]
  BY DEF RepositoryStep
<1>3. /\ history'[FinalGate].ancestors = history[FinalGate].ancestors
      /\ history[FinalGate].ancestors \subseteq Commit
  BY <1>2, AcceptedCommits DEF HistoryOK
<1>4. SummaryMeasured(fuzz.summary) => SummaryMeasured(fuzz.summary)'
  BY <1>1, <1>2, <1>3 DEF SummaryMeasured, MeasuredOf, Ancestor, TreeOf
<1>5. ASSUME NEW target \in FuzzTarget, SummaryMeasured(fuzzSummary[target])
      PROVE  SummaryMeasured(fuzzSummary[target])'
  BY <1>1, <1>2, <1>3, <1>5 DEF SummaryMeasured, MeasuredOf, Ancestor, TreeOf
<1>6. ASSUME ~undone', Ancestor(head, FinalGate)'
      PROVE  /\ ~undone /\ Ancestor(head, FinalGate) /\ head' = head /\ head \in Commit
             /\ (work = TreeOf(head))' => work = TreeOf(head)
  <2>1. head' \in Commit
    BY <1>3, <1>6 DEF Ancestor
  <2>. QED
    BY <1>3, <1>6, <2>1, HeadStays DEF Ancestor
<1>7. HeadMeasured => HeadMeasured'
  <2>1. MeasuredOf(fuzz.summary.measured, head) /\ head' = head
          => MeasuredOf(fuzz.summary.measured, head)'
    BY <1>1, <1>2 DEF MeasuredOf, TreeOf
  <2>. QED
    BY <1>6, <2>1 DEF HeadMeasured
<1>8. ASSUME HeadMeasured', fuzz.at \in FuzzReading
      PROVE  (fuzz.at \in FuzzReading /\ head = fuzz.summary.commit => HeadMeasured)'
  BY <1>8
<1>9. ASSUME head' # head
      PROVE  HeadMeasured'
  BY <1>6, <1>9 DEF HeadMeasured
<1>10. (fuzz.at \in FuzzReading /\ head = fuzz.summary.commit => HeadMeasured)'
  <2>1. CASE head' = head
    BY <1>1, <1>7, <2>1 DEF FuzzMeasuredOK
  <2>. QED
    BY <1>9, <2>1
<1>. QED
  BY <1>1, <1>4, <1>5, <1>7, <1>10 DEF FuzzMeasuredOK

(* What a step leaves alone when it leaves the repository alone.           *)
LEMMA FuzzMeasuredStill ==
  ASSUME FuzzMeasuredOK, UNCHANGED <<history, head, work, undone, fuzzSummary>>
  PROVE  /\ \A target \in FuzzTarget :
              (fuzzSummary[target] # NoSummary => SummaryMeasured(fuzzSummary[target]))'
         /\ UNCHANGED fuzz.summary => /\ HeadMeasured' <=> HeadMeasured
                                      /\ SummaryMeasured(fuzz.summary)
                                           => SummaryMeasured(fuzz.summary)'
<1>1. ASSUME NEW target \in FuzzTarget
      PROVE  (fuzzSummary[target] # NoSummary => SummaryMeasured(fuzzSummary[target]))'
  BY DEF FuzzMeasuredOK, SummaryMeasured, MeasuredOf, Commit, Ancestor, TreeOf
<1>2. ASSUME UNCHANGED fuzz.summary
      PROVE  /\ HeadMeasured' <=> HeadMeasured
             /\ SummaryMeasured(fuzz.summary) => SummaryMeasured(fuzz.summary)'
  BY <1>2 DEF HeadMeasured, SummaryMeasured, MeasuredOf, Commit, Ancestor, TreeOf
<1>. QED
  BY <1>1, <1>2

LEMMA FuzzMeasuredChecked ==
  ASSUME FuzzMeasuredOK, UNCHANGED <<history, head, work, undone, fuzzSummary>>,
         NEW check, NEW next, FuzzContinue(check, next)
  PROVE  FuzzMeasuredOK' \/ (check /\ fuzz' = next)
<1>1. CASE fuzz' = FuzzIdle
  <2>1. fuzz'.at = "idle"
    BY <1>1 DEF FuzzIdle
  <2>. QED
    BY <2>1, FuzzMeasuredStill DEF FuzzMeasuredOK, FuzzMeasuring, FuzzReading, FuzzRead
<1>. QED
  BY <1>1 DEF FuzzContinue

LEMMA WrittenMeasured ==
  ASSUME HistoryOK, FuzzInv, FuzzMeasuredOK, FuzzWrite
  PROVE  FuzzMeasuredOK'
<1>1. FuzzShape /\ UNCHANGED <<history, head, work, undone>> /\ head \in Commit
  BY DEF FuzzInv, FuzzWrite, repository, OutputWritten, HistoryOK
<1>2. fuzz.at \in FuzzWriting => SummaryOK(fuzz.summary)
  BY DEF FuzzInv, FuzzRecordsOK
<1>3. ASSUME NEW target \in DOMAIN FuzzSources, FuzzBuild(target)
      PROVE  FuzzMeasuredOK'
  <2> DEFINE begun == [target |-> target, commit |-> 0, tree |-> << >>, dirty |-> FALSE,
                       seeds |-> << >>, sources |-> << >>, dictionary |-> << >>,
                       measured |-> {work}]
  <2>1. fuzzSummary' = fuzzSummary
    BY <1>3 DEF FuzzBuild
  <2>2. SUFFICES ASSUME fuzz' = [FuzzIdle EXCEPT !.at = "campaign", !.summary = begun]
                 PROVE  FuzzMeasuredOK'
    BY <1>1, <1>3, <2>1, FuzzMeasuredChecked DEF FuzzBuild
  <2>3. fuzz'.at = "campaign" /\ fuzz'.summary.measured = {work}
    BY <2>2 DEF FuzzIdle
  <2>4. HeadMeasured'
    BY <1>1, <2>3 DEF HeadMeasured, MeasuredOf, Commit, TreeOf
  <2>. QED
    BY <1>1, <2>1, <2>3, <2>4, FuzzMeasuredStill
       DEF FuzzMeasuredOK, FuzzMeasuring, FuzzReading, FuzzRead
<1>4. CASE FuzzCampaign
  <2>1. PICK passed \in BOOLEAN :
          FuzzContinue(passed, [FuzzTo("hash seeds") EXCEPT !.summary.measured = @ \cup {work}])
    BY <1>4 DEF FuzzCampaign
  <2>2. fuzzSummary' = fuzzSummary /\ fuzz.at = "campaign" /\ SummaryOK(fuzz.summary)
    BY <1>2, <1>4 DEF FuzzCampaign, FuzzWriting
  <2>3. SUFFICES ASSUME fuzz' = [FuzzTo("hash seeds") EXCEPT !.summary.measured = @ \cup {work}]
                 PROVE  FuzzMeasuredOK'
    BY <1>1, <2>1, <2>2, FuzzMeasuredChecked
  <2>4. fuzz'.at = "hash seeds" /\ fuzz'.summary.measured = fuzz.summary.measured \cup {work}
    BY <1>1, <2>2, <2>3 DEF FuzzTo, FuzzShape, SummaryOK
  <2>5. HeadMeasured
    BY <2>2 DEF FuzzMeasuredOK, FuzzMeasuring
  <2>6. HeadMeasured'
    BY <1>1, <2>4, <2>5 DEF HeadMeasured, MeasuredOf, Commit, TreeOf, Ancestor
  <2>. QED
    BY <1>1, <2>2, <2>4, <2>6, FuzzMeasuredStill
       DEF FuzzMeasuredOK, FuzzMeasuring, FuzzReading, FuzzRead
<1>5. CASE FuzzHashSeeds
  <2> DEFINE seeds == Present(FuzzSeeds[fuzz.summary.target])
             records == Recorded(seeds)
  <2>1. fuzzSummary' = fuzzSummary /\ fuzz.at = "hash seeds" /\ SummaryOK(fuzz.summary)
    BY <1>2, <1>5 DEF FuzzHashSeeds, FuzzWriting
  <2>2. SUFFICES ASSUME fuzz' = [FuzzTo("read commit") EXCEPT !.summary.seeds = records]
                 PROVE  FuzzMeasuredOK'
    BY <1>1, <1>5, <2>1, FuzzMeasuredChecked DEF FuzzHashSeeds
  <2>. HIDE DEF records
  <2>3. fuzz'.at = "read commit" /\ fuzz'.summary.measured = fuzz.summary.measured
    BY <1>1, <2>1, <2>2 DEF FuzzTo, FuzzShape, SummaryOK
  <2>4. HeadMeasured
    BY <2>1 DEF FuzzMeasuredOK, FuzzMeasuring
  <2>5. HeadMeasured'
    BY <1>1, <2>3, <2>4 DEF HeadMeasured, MeasuredOf, Commit, TreeOf, Ancestor
  <2>. QED
    BY <1>1, <2>1, <2>3, <2>5, FuzzMeasuredStill
       DEF FuzzMeasuredOK, FuzzMeasuring, FuzzReading, FuzzRead
<1>6. CASE FuzzReadCommit \/ FuzzReadTree
  <2>1. fuzzSummary' = fuzzSummary /\ SummaryOK(fuzz.summary)
    BY <1>2, <1>6 DEF FuzzReadCommit, FuzzReadTree, FuzzWriting
  <2>2. /\ fuzz'.at \in FuzzReading /\ fuzz'.summary.measured = fuzz.summary.measured
        /\ fuzz'.summary.commit = IF FuzzReadCommit THEN head ELSE fuzz.summary.commit
    <3>1. CASE FuzzReadCommit
      BY <1>1, <2>1, <3>1 DEF FuzzReadCommit, FuzzTo, FuzzShape, SummaryOK, FuzzReading
    <3>2. CASE FuzzReadTree
      <4>1. fuzz.at = "read tree"
        BY <3>2 DEF FuzzReadTree
      <4>2. ~FuzzReadCommit
        BY <4>1 DEF FuzzReadCommit
      <4>. QED
        BY <1>1, <2>1, <3>2, <4>2 DEF FuzzReadTree, FuzzTo, FuzzShape, SummaryOK, FuzzReading
    <3>. QED
      BY <1>6, <3>1, <3>2
  <2>3. head = fuzz'.summary.commit => HeadMeasured
    BY <1>6, <2>2
       DEF FuzzMeasuredOK, FuzzMeasuring, FuzzReading, FuzzReadCommit, FuzzReadTree
  <2>4. (head = fuzz.summary.commit => HeadMeasured)'
    BY <1>1, <2>2, <2>3 DEF HeadMeasured, MeasuredOf, Commit, TreeOf, Ancestor
  <2>. QED
    BY <1>1, <2>1, <2>2, <2>4, FuzzMeasuredStill
       DEF FuzzMeasuredOK, FuzzMeasuring, FuzzReading, FuzzRead
<1>7. CASE FuzzReadDirty
  <2> DEFINE dirty == ~StatusEmpty
             measured == IF undone \/ head # fuzz.summary.commit THEN {} ELSE fuzz.summary.measured
  <2>1. fuzzSummary' = fuzzSummary /\ SummaryOK(fuzz.summary)
    BY <1>2, <1>7 DEF FuzzReadDirty, FuzzWriting
  <2>2. /\ fuzz'.at = "hash sources" /\ fuzz'.summary.commit = fuzz.summary.commit
        /\ fuzz'.summary.dirty = dirty /\ fuzz'.summary.measured = measured
    BY <1>1, <1>7, <2>1 DEF FuzzReadDirty, FuzzTo, FuzzShape, SummaryOK
  <2>3. ~dirty => work = TreeOf(head)
    BY DEF StatusEmpty
  <2>4. head = fuzz.summary.commit => HeadMeasured
    BY <1>7 DEF FuzzReadDirty, FuzzMeasuredOK, FuzzReading
  <2>. HIDE DEF dirty
  <2>5. \/ dirty \/ ~Ancestor(fuzz.summary.commit, FinalGate)
        \/ MeasuredOf(measured, fuzz.summary.commit)
    BY <2>3, <2>4 DEF HeadMeasured, MeasuredOf
  <2>. HIDE DEF measured
  <2>6. SummaryMeasured(fuzz.summary)'
    BY <1>1, <2>2, <2>5 DEF SummaryMeasured, MeasuredOf, Commit, Ancestor, TreeOf
  <2>. QED
    BY <1>1, <2>1, <2>2, <2>6, FuzzMeasuredStill
       DEF FuzzMeasuredOK, FuzzMeasuring, FuzzReading, FuzzRead
<1>8. CASE FuzzHashSources \/ FuzzHashDictionary
  <2> DEFINE sources == Recorded(FuzzSources[fuzz.summary.target])
             dictionary == Recorded(<<FuzzDictionary[fuzz.summary.target]>>)
  <2>1. fuzzSummary' = fuzzSummary /\ SummaryOK(fuzz.summary) /\ SummaryMeasured(fuzz.summary)
    BY <1>2, <1>8 DEF FuzzHashSources, FuzzHashDictionary, FuzzWriting, FuzzMeasuredOK, FuzzRead
  <2>2. \/ FuzzMeasuredOK'
        \/ fuzz' = [FuzzTo("hash dictionary") EXCEPT !.summary.sources = sources]
        \/ fuzz' = [FuzzTo("write") EXCEPT !.summary.dictionary = dictionary]
    BY <1>1, <1>8, <2>1, FuzzMeasuredChecked DEF FuzzHashSources, FuzzHashDictionary
  <2>. HIDE DEF sources, dictionary
  <2>3. \/ FuzzMeasuredOK'
        \/ /\ fuzz'.at \in {"hash dictionary", "write"}
           /\ fuzz'.summary.commit = fuzz.summary.commit
           /\ fuzz'.summary.dirty = fuzz.summary.dirty
           /\ fuzz'.summary.measured = fuzz.summary.measured
    BY <1>1, <2>1, <2>2 DEF FuzzTo, FuzzShape, SummaryOK
  <2>4. SUFFICES ASSUME fuzz'.at \in {"hash dictionary", "write"},
                        fuzz'.summary.commit = fuzz.summary.commit,
                        fuzz'.summary.dirty = fuzz.summary.dirty,
                        fuzz'.summary.measured = fuzz.summary.measured
                 PROVE  FuzzMeasuredOK'
    BY <2>3
  <2>5. SummaryMeasured(fuzz.summary)'
    BY <1>1, <2>1, <2>4 DEF SummaryMeasured, MeasuredOf, Commit, Ancestor, TreeOf
  <2>. QED
    BY <1>1, <2>1, <2>4, <2>5, FuzzMeasuredStill
       DEF FuzzMeasuredOK, FuzzMeasuring, FuzzReading, FuzzRead
<1>9. ASSUME NEW output \in FuzzTarget, FuzzWriteSummary(output)
      PROVE  FuzzMeasuredOK'
  <2>1. /\ fuzzSummary' = [fuzzSummary EXCEPT ![output] = fuzz.summary] /\ fuzz' = FuzzIdle
        /\ SummaryMeasured(fuzz.summary)
    BY <1>9 DEF FuzzWriteSummary, FuzzMeasuredOK, FuzzRead
  <2>2. ASSUME NEW target \in FuzzTarget
        PROVE  (fuzzSummary[target] # NoSummary => SummaryMeasured(fuzzSummary[target]))'
    <3>1. fuzzSummary'[target] = IF target = output THEN fuzz.summary ELSE fuzzSummary[target]
      BY <2>1 DEF FuzzInv, SummariesOK
    <3>2. fuzzSummary'[target] # NoSummary => SummaryMeasured(fuzzSummary'[target])
      BY <2>1, <3>1 DEF FuzzMeasuredOK
    <3>. QED
      BY <1>1, <3>2 DEF SummaryMeasured, MeasuredOf, Commit, Ancestor, TreeOf
  <2>3. fuzz'.at = "idle"
    BY <2>1 DEF FuzzIdle
  <2>. QED
    BY <2>2, <2>3 DEF FuzzMeasuredOK, FuzzMeasuring, FuzzReading, FuzzRead
<1>. QED
  BY <1>3, <1>4, <1>5, <1>6, <1>7, <1>8, <1>9 DEF FuzzWrite

LEMMA FuzzMeasuredStep ==
  ASSUME HistoryOK, FuzzInv, FuzzMeasuredOK, [Next]_vars
  PROVE  FuzzMeasuredOK'
<1>1. HistoryOK' /\ RepositoryStep
  BY StepOfRepository
<1>2. CASE UNCHANGED fuzzVars
  BY <1>1, <1>2, FuzzMeasuredKept
<1>3. CASE FuzzWrite
  BY <1>3, WrittenMeasured
<1>4. CASE FuzzValidate
  <2>1. FuzzShape /\ UNCHANGED <<history, head, work, undone, fuzzSummary>>
    BY <1>4 DEF FuzzInv, FuzzValidate, repository, FuzzValidateBegin, FuzzValidateBridge,
                FuzzValidateRecord, FuzzTargetValid
  <2>2. CASE FuzzValidateBegin
    <3>1. fuzz'.at = "next target"
      BY <2>2 DEF FuzzValidateBegin, FuzzIdle
    <3>. QED
      BY <2>1, <3>1, FuzzMeasuredStill DEF FuzzMeasuredOK, FuzzMeasuring, FuzzReading, FuzzRead
  <2>3. CASE FuzzValidateBridge
    <3> DEFINE target == FuzzTargets[fuzz.target + 1]
               summary == fuzzSummary[target]
               next == [at |-> "records", target |-> fuzz.target + 1, position |-> 0,
                        summary |-> summary]
    <3>1. FuzzMeasuredOK' \/ (~summary.dirty /\ fuzz' = next)
      BY <2>1, <2>3, FuzzMeasuredChecked DEF FuzzValidateBridge
    <3>2. target \in FuzzTarget /\ summary # NoSummary
      <4>1. /\ fuzz.target \in Nat /\ fuzz.target < Len(FuzzTargets)
            /\ \A t \in FuzzTarget : fuzzSummary[t] # NoSummary
        BY <2>3 DEF FuzzValidateBridge, FuzzInv, FuzzRecordsOK
      <4>2. fuzz.target + 1 \in DOMAIN FuzzTargets
        BY <4>1, FuzzEvidenceAssumption
      <4>. QED
        BY <4>1, <4>2 DEF FuzzTarget
    <3>. HIDE DEF target
    <3>3. SummaryMeasured(summary)
      BY <3>2 DEF FuzzMeasuredOK
    <3>4. fuzz' = next => fuzz'.at = "records" /\ fuzz'.summary = summary
      OBVIOUS
    <3>. HIDE DEF summary, next
    <3>5. fuzz'.summary = summary => SummaryMeasured(fuzz.summary)'
      BY <2>1, <3>3 DEF SummaryMeasured, MeasuredOf, Commit, Ancestor, TreeOf
    <3>. QED
      BY <2>1, <3>1, <3>4, <3>5, FuzzMeasuredStill
         DEF FuzzMeasuredOK, FuzzMeasuring, FuzzReading, FuzzRead
  <2>4. CASE FuzzValidateRecord \/ FuzzTargetValid
    <3>1. /\ fuzz.at = "records" /\ SummaryMeasured(fuzz.summary) /\ ~fuzz.summary.dirty
      BY <2>4 DEF FuzzValidateRecord, FuzzTargetValid, FuzzMeasuredOK, FuzzRead
    <3>2. \/ FuzzMeasuredOK'
          \/ fuzz' = [fuzz EXCEPT !.position = @ + 1]
          \/ \E at \in {"validated", "next target"} : fuzz' = FuzzTo(at)
      BY <2>1, <2>4, FuzzMeasuredChecked DEF FuzzValidateRecord, FuzzTargetValid
    <3>3. \/ FuzzMeasuredOK'
          \/ /\ fuzz'.summary = fuzz.summary
             /\ fuzz'.at \in {"records", "validated", "next target"}
      BY <2>1, <3>1, <3>2 DEF FuzzTo, FuzzShape
    <3>4. fuzz'.summary = fuzz.summary => SummaryMeasured(fuzz.summary)'
      BY <2>1, <3>1 DEF SummaryMeasured, MeasuredOf, Commit, Ancestor, TreeOf
    <3>. QED
      BY <2>1, <3>1, <3>3, <3>4, FuzzMeasuredStill
         DEF FuzzMeasuredOK, FuzzMeasuring, FuzzReading, FuzzRead
  <2>. QED
    BY <1>4, <2>2, <2>3, <2>4 DEF FuzzValidate
<1>. QED
  BY <1>2, <1>3, <1>4 DEF Next, vars, fuzzVars

LEMMA FuzzMeasuredAccepted ==
  ASSUME FuzzInv, FuzzMeasuredOK, fuzz.at = "validated",
         NEW bytes \in fuzz.summary.measured, NEW i \in DOMAIN FuzzRecords(fuzz.summary)
  PROVE  bytes[FuzzRecords(fuzz.summary)[i][1]] = FuzzRecords(fuzz.summary)[i][2]
<1>1. /\ SummaryOK(fuzz.summary) /\ Ancestor(fuzz.summary.commit, FinalGate)
      /\ \A k \in 1 .. Len(FuzzRecords(fuzz.summary)) : FuzzAccepted(k)
  BY DEF FuzzInv, FuzzRecordsOK, Ancestor
<1>2. bytes = TreeOf(fuzz.summary.commit)
  BY <1>1 DEF FuzzMeasuredOK, FuzzRead, SummaryMeasured, MeasuredOf
<1>3. DOMAIN FuzzRecords(fuzz.summary) = 1 .. Len(FuzzRecords(fuzz.summary))
  BY <1>1, RecordsAreSequence
<1>. QED
  BY <1>1, <1>2, <1>3 DEF FuzzAccepted, Blob, TreeOf

-----------------------------------------------------------------------------
(* The same of M3's documents, and the theorem.                            *)

M3Retaining ==
  {"write", "retained bridge", "retained environment", "retained sources", "validated"}

(* No other document is ever accepted as the retained one.                 *)
RetainedMeasured(document) ==
  document.commit = RetainedSource =>
    \A bytes \in document.measured : bytes = Bytes(TreeOf(RetainedSource))

M3MeasuredOK ==
  /\ m3.at \in {"launch", "generate"} /\ ~undone => head = m3.commit \/ head \notin 1 .. Squash
  /\ m3.at \in M3Retaining => RetainedMeasured(m3.evidence)
  /\ m3Artifact # NoEvidence => RetainedMeasured(m3Artifact)

(* What the retained source commit holds, it goes on holding.              *)
LEMMA RetainedBytesKept ==
  ASSUME HistoryOK, RepositoryStep
  PROVE  Bytes(TreeOf(RetainedSource))' = Bytes(TreeOf(RetainedSource))
<1>1. RetainedSource \in Commit
  BY AcceptedCommits
<1>. QED
  BY <1>1, CommitKept

(* Wherever the program goes with no document or with one it had.          *)
LEMMA M3MeasuredElsewhere ==
  ASSUME HistoryOK, RepositoryStep, M3MeasuredOK, m3Artifact' = m3Artifact,
         m3'.at \in M3Retaining => RetainedMeasured(m3'.evidence),
         (m3.at \in {"launch", "generate"} /\ ~undone => head = m3.commit \/ head \notin 1 .. Squash)'
  PROVE  M3MeasuredOK'
<1>1. Bytes(TreeOf(RetainedSource))' = Bytes(TreeOf(RetainedSource))
  BY RetainedBytesKept
<1>2. m3'.at \in M3Retaining => RetainedMeasured(m3.evidence)'
  BY <1>1 DEF RetainedMeasured, RetainedSource
<1>3. m3Artifact' # NoEvidence => RetainedMeasured(m3Artifact)'
  BY <1>1 DEF M3MeasuredOK, RetainedMeasured, RetainedSource
<1>. QED
  BY <1>2, <1>3 DEF M3MeasuredOK

LEMMA M3MeasuredChecked ==
  ASSUME HistoryOK, RepositoryStep, M3MeasuredOK, m3Artifact' = m3Artifact,
         NEW check, NEW next, M3Continue(check, next)
  PROVE  M3MeasuredOK' \/ (check /\ m3' = next)
<1>1. CASE m3' = M3Idle
  <2>1. m3'.at = "idle"
    BY <1>1 DEF M3Idle
  <2>. QED
    BY <2>1, M3MeasuredElsewhere DEF M3Retaining
<1>. QED
  BY <1>1 DEF M3Continue

LEMMA M3MeasuredKept ==
  ASSUME HistoryOK, RepositoryStep, M3MeasuredOK, UNCHANGED m3Vars
  PROVE  M3MeasuredOK'
<1>1. m3' = m3 /\ m3Artifact' = m3Artifact
  BY DEF m3Vars
<1>2. 1 .. Squash \subseteq Commit
  BY DEF HistoryOK, Commit, Squash
<1>3. undone => undone'
  BY DEF RepositoryStep
<1>4. ~undone' => head' = head \/ head' \notin 1 .. Squash
  BY <1>2 DEF RepositoryStep
<1>. QED
  BY <1>1, <1>3, <1>4, M3MeasuredElsewhere DEF M3MeasuredOK

(* At the places where no document is to be retained yet, or any more.     *)
LEMMA M3MeasuredLaunching ==
  ASSUME HistoryOK, RepositoryStep, M3MeasuredOK, m3Artifact' = m3Artifact,
         UNCHANGED <<head, undone>>, m3'.at \in {"launch", "generate"},
         \/ m3'.commit = head
         \/ m3.at \in {"launch", "generate"} /\ m3'.commit = m3.commit
  PROVE  M3MeasuredOK'
<1>1. m3'.at \notin M3Retaining
  BY DEF M3Retaining
<1>2. ~undone => head = m3'.commit \/ head \notin 1 .. Squash
  BY DEF M3MeasuredOK
<1>. QED
  BY <1>1, <1>2, M3MeasuredElsewhere

LEMMA M3MeasuredResting ==
  ASSUME HistoryOK, RepositoryStep, M3MeasuredOK, m3Artifact' = m3Artifact,
         m3'.at \notin M3Retaining \cup {"launch", "generate"}
  PROVE  M3MeasuredOK'
BY M3MeasuredElsewhere

(* The document of the retained source commit was measured with its files. *)
LEMMA GenerateMeasured ==
  ASSUME HistoryOK, RepositoryStep, M3Inv, M3MeasuredOK, m3Artifact' = m3Artifact,
         M3GenerateDocument
  PROVE  M3MeasuredOK'
<1>1. SUFFICES ASSUME m3' = [M3To("write") EXCEPT !.evidence = Generated]
               PROVE  M3MeasuredOK'
  BY M3MeasuredChecked DEF M3GenerateDocument, Generated
<1>2. m3'.at = "write" /\ m3'.evidence = Generated
  BY <1>1 DEF M3Inv, M3Shape, M3To
<1>3. m3.at = "generate" /\ GenerateOK
  BY DEF M3GenerateDocument, M3Inv
<1>4. ASSUME head = RetainedSource, ~undone
      PROVE  m3.measured = {Bytes(TreeOf(RetainedSource))}
  <2>1. head = m3.commit
    BY <1>3, <1>4 DEF M3MeasuredOK, RetainedSource, Squash
  <2>. QED
    BY <1>3, <1>4, <2>1 DEF GenerateOK, MeasuredItsCommit
<1>5. RetainedMeasured(Generated)
  BY <1>4, GeneratedFields DEF RetainedMeasured
<1>6. RetainedMeasured(m3'.evidence)
  BY <1>2, <1>5
<1>. QED
  BY <1>2, <1>6, M3MeasuredElsewhere

(* It is written as it was generated.                                      *)
LEMMA WriteMeasured ==
  ASSUME HistoryOK, RepositoryStep, M3Inv, M3MeasuredOK, M3WriteDocument
  PROVE  M3MeasuredOK'
<1>1. m3'.at = "fresh head"
  BY DEF M3WriteDocument, M3To, M3Inv, M3Shape
<1>2. m3'.at \notin M3Retaining \cup {"launch", "generate"}
  BY <1>1 DEF M3Retaining
<1>3. RetainedMeasured(m3.evidence)
  BY DEF M3WriteDocument, M3MeasuredOK, M3Retaining
<1>4. m3Artifact' = m3.evidence \/ m3Artifact' = m3Artifact
  BY DEF M3WriteDocument
<1>5. m3Artifact' # NoEvidence => RetainedMeasured(m3Artifact')
  BY <1>3, <1>4 DEF M3MeasuredOK
<1>6. Bytes(TreeOf(RetainedSource))' = Bytes(TreeOf(RetainedSource))
  BY RetainedBytesKept
<1>7. m3Artifact' # NoEvidence => RetainedMeasured(m3Artifact)'
  BY <1>5, <1>6 DEF RetainedMeasured, RetainedSource
<1>. QED
  BY <1>2, <1>7 DEF M3MeasuredOK

LEMMA GateMeasured ==
  ASSUME HistoryOK, RepositoryStep, M3Inv, M3MeasuredOK, M3Gate
  PROVE  M3MeasuredOK'
<1>1. M3Shape
  BY DEF M3Inv
<1>2. CASE M3WriteDocument
  BY <1>2, WriteMeasured
<1>3. CASE ~M3WriteDocument
  <2>1. m3Artifact' = m3Artifact /\ UNCHANGED <<head, undone>>
    BY <1>3 DEF M3Gate, repository
  <2>2. CASE M3GateBegin
    <3>1. PICK retain \in BOOLEAN :
            M3Continue(StatusEmpty, [M3Idle EXCEPT !.at = "gate commit", !.retain = retain])
      BY <2>2 DEF M3GateBegin
    <3>2. M3MeasuredOK' \/ m3' = [M3Idle EXCEPT !.at = "gate commit", !.retain = retain]
      BY <2>1, <3>1, M3MeasuredChecked
    <3>3. M3MeasuredOK' \/ m3'.at = "gate commit"
      BY <3>2 DEF M3Idle
    <3>. QED
      BY <2>1, <3>3, M3MeasuredResting DEF M3Retaining
  <2>3. CASE M3GateReadCommit
    <3>1. m3'.at = "launch" /\ m3'.commit = head
      BY <1>1, <2>3 DEF M3GateReadCommit, M3To, M3Shape
    <3>. QED
      BY <2>1, <3>1, M3MeasuredLaunching
  <2>4. CASE M3Launch
    <3>1. PICK output \in M3Launches[m3.read + 1] :
            M3Continue(output # << >>,
                       [m3 EXCEPT !.read = @ + 1, !.raw = @ \o output,
                                  !.measured = @ \cup {Bytes(work)}])
      BY <2>4 DEF M3Launch
    <3>2. SUFFICES ASSUME m3' = [m3 EXCEPT !.read = @ + 1, !.raw = @ \o output,
                                           !.measured = @ \cup {Bytes(work)}]
                   PROVE  M3MeasuredOK'
      BY <2>1, <3>1, M3MeasuredChecked
    <3>3. m3.at = "launch" /\ m3'.at = "launch" /\ m3'.commit = m3.commit
      BY <1>1, <2>4, <3>2 DEF M3Launch, M3Shape
    <3>. QED
      BY <2>1, <3>3, M3MeasuredLaunching
  <2>5. CASE M3GenerateBegin
    <3>1. SUFFICES ASSUME m3' = [M3To("generate") EXCEPT !.read = 0]
                   PROVE  M3MeasuredOK'
      BY <2>1, <2>5, M3MeasuredChecked DEF M3GenerateBegin
    <3>2. m3.at = "launch" /\ m3'.at = "generate" /\ m3'.commit = m3.commit
      BY <1>1, <2>5, <3>1 DEF M3GenerateBegin, M3To, M3Shape
    <3>. QED
      BY <2>1, <3>2, M3MeasuredLaunching
  <2>6. CASE M3GenerateDocument
    BY <2>1, <2>6, GenerateMeasured
  <2>7. CASE M3FreshHead \/ M3FreshTree \/ M3GateRecheckCommit \/ M3GateRecheckStatus
    <3>1. \/ M3MeasuredOK'
          \/ m3' = [M3To("fresh tree") EXCEPT !.read = head]
          \/ \E at \in {"gate recheck commit", "gate recheck status", "passed"} : m3' = M3To(at)
      <4>1. CASE M3FreshHead
        BY <2>1, <4>1, M3MeasuredChecked DEF M3FreshHead
      <4>2. CASE M3FreshTree
        BY <2>1, <4>2, M3MeasuredChecked DEF M3FreshTree
      <4>3. CASE M3GateRecheckCommit
        BY <2>1, <4>3, M3MeasuredChecked DEF M3GateRecheckCommit
      <4>4. CASE M3GateRecheckStatus
        BY <2>1, <4>4, M3MeasuredChecked DEF M3GateRecheckStatus
      <4>. QED
        BY <2>7, <4>1, <4>2, <4>3, <4>4
    <3>2. \/ M3MeasuredOK'
          \/ m3'.at \in {"fresh tree", "gate recheck commit", "gate recheck status", "passed"}
      BY <1>1, <3>1 DEF M3To, M3Shape
    <3>. QED
      BY <2>1, <3>2, M3MeasuredResting DEF M3Retaining
  <2>. QED
    BY <1>3, <2>2, <2>3, <2>4, <2>5, <2>6, <2>7 DEF M3Gate
<1>. QED
  BY <1>2, <1>3

LEMMA ValidateMeasured ==
  ASSUME HistoryOK, RepositoryStep, M3Inv, M3MeasuredOK, M3Validate
  PROVE  M3MeasuredOK'
<1>1. M3Shape /\ m3Artifact' = m3Artifact
  BY DEF M3Inv, M3Validate
<1>2. CASE M3ValidateBegin
  <2>1. SUFFICES ASSUME m3' = [M3Idle EXCEPT !.at = "retained bridge", !.evidence = m3Artifact]
                 PROVE  M3MeasuredOK'
    BY <1>1, <1>2, M3MeasuredChecked DEF M3ValidateBegin
  <2>2. m3'.at = "retained bridge" /\ m3'.evidence = m3Artifact
    BY <2>1 DEF M3Idle
  <2>3. RetainedMeasured(m3'.evidence)
    BY <1>2, <2>2 DEF M3ValidateBegin, M3MeasuredOK
  <2>. QED
    BY <1>1, <2>2, <2>3, M3MeasuredElsewhere
<1>3. CASE M3RetainedBridge \/ M3RetainedEnvironment \/ M3RetainedSource \/ M3RetainedSamples
  <2>1. \/ M3MeasuredOK'
        \/ m3' = [M3To("retained environment") EXCEPT !.commit = head]
        \/ \E at \in {"retained sources", "validated"} : m3' = M3To(at)
        \/ m3' = [m3 EXCEPT !.read = @ + 1]
    <3>1. CASE M3RetainedBridge
      BY <1>1, <3>1, M3MeasuredChecked DEF M3RetainedBridge
    <3>2. CASE M3RetainedEnvironment
      BY <1>1, <3>2, M3MeasuredChecked DEF M3RetainedEnvironment
    <3>3. CASE M3RetainedSource
      BY <1>1, <3>3, M3MeasuredChecked DEF M3RetainedSource
    <3>4. CASE M3RetainedSamples
      BY <1>1, <3>4, M3MeasuredChecked DEF M3RetainedSamples
    <3>. QED
      BY <1>3, <3>1, <3>2, <3>3, <3>4
  <2>2. m3.at \in {"retained bridge", "retained environment", "retained sources"}
    BY <1>3 DEF M3RetainedBridge, M3RetainedEnvironment, M3RetainedSource, M3RetainedSamples
  <2>3. RetainedMeasured(m3.evidence)
    BY <2>2 DEF M3MeasuredOK, M3Retaining
  <2>4. \/ M3MeasuredOK'
        \/ /\ m3'.evidence = m3.evidence
           /\ m3'.at \in {"retained bridge", "retained environment", "retained sources", "validated"}
    BY <1>1, <2>1, <2>2 DEF M3To, M3Shape
  <2>. QED
    BY <1>1, <2>3, <2>4, M3MeasuredElsewhere
<1>. QED
  BY <1>2, <1>3 DEF M3Validate

LEMMA M3MeasuredStep ==
  ASSUME HistoryOK, M3Inv, M3SamplesOK, M3MeasuredOK, [Next]_vars
  PROVE  M3MeasuredOK'
<1>1. RepositoryStep
  BY StepOfRepository
<1>2. CASE UNCHANGED m3Vars
  BY <1>1, <1>2, M3MeasuredKept
<1>3. CASE M3Gate
  BY <1>1, <1>3, GateMeasured
<1>4. CASE M3Validate
  BY <1>1, <1>4, ValidateMeasured
<1>5. CASE M3SelfTest
  <2>1. m3'.at \in M3SelfTesting /\ m3Artifact' = m3Artifact
    BY <1>5, SelfTestFields DEF M3Inv, M3SelfTest
  <2>2. m3'.at \notin M3Retaining \cup {"launch", "generate"}
    BY <2>1 DEF M3SelfTesting, M3Retaining
  <2>. QED
    BY <1>1, <2>1, <2>2, M3MeasuredResting
<1>6. CASE M3Forge
  <2>1. m3' = m3 /\ UNCHANGED <<history, head, undone>>
    BY <1>6 DEF M3Forge
  <2>2. PICK edited \in M3Edited(m3Artifact) : m3Artifact' = [edited EXCEPT !.measured = {}]
    BY <1>6 DEF M3Forge
  <2>3. ListedDocument(edited)
    BY <1>6, <2>2, EditedListed DEF M3Forge, M3SamplesOK
  <2>4. m3Artifact'.measured = {}
    BY <2>2, <2>3 DEF ListedDocument
  <2>5. RetainedMeasured(m3Artifact)'
    BY <2>4 DEF RetainedMeasured
  <2>6. Bytes(TreeOf(RetainedSource))' = Bytes(TreeOf(RetainedSource))
    BY <1>1, RetainedBytesKept
  <2>7. RetainedMeasured(m3.evidence) => RetainedMeasured(m3.evidence)'
    BY <2>1, <2>6 DEF RetainedMeasured, RetainedSource
  <2>. QED
    BY <2>1, <2>5, <2>7 DEF M3MeasuredOK
<1>. QED
  BY <1>2, <1>3, <1>4, <1>5, <1>6 DEF Next, vars

LEMMA M3MeasuredAccepted ==
  ASSUME M3Inv, M3MeasuredOK, m3.at = "validated", NEW bytes \in m3.evidence.measured
  PROVE  HashesMatch(m3.evidence, bytes)
<1>1. /\ m3.evidence.commit = RetainedSource
      /\ HashesMatch(m3.evidence, Bytes(TreeOf(RetainedSource)))
  BY DEF M3Inv, RetainedOK
<1>2. bytes = Bytes(TreeOf(RetainedSource))
  BY <1>1 DEF M3MeasuredOK, M3Retaining, RetainedMeasured
<1>. QED
  BY <1>1, <1>2

(* Whatever the three families of tools measure, and whenever they read    *)
(* commits, hashes and status in between, evidence their validators accept *)
(* records the bytes that were measured: tools/m2/benchmark-evidence.py    *)
(* and tools/m3/benchmark-evidence.py validate, tools/m2/validate-fuzz-evidence.py.    *)
THEOREM MeasuredCorrect == Spec => []AcceptedEvidenceWasMeasured
<1> DEFINE History == HistoryOK /\ M3Inv /\ M2Inv /\ FuzzInv
           Samples3 == M3SamplesOK /\ M2SamplesOK
           Measured == M2MeasuredOK /\ FuzzMeasuredOK /\ M3MeasuredOK
<1>1. Init => History /\ Samples3 /\ Measured
  <2> SUFFICES ASSUME Init PROVE History /\ Samples3 /\ Measured
    OBVIOUS
  <2>1. m3.raw = << >> /\ m3.at = "idle" /\ m3Artifact = NoEvidence
    BY DEF Init, M3Init, M3Idle
  <2>2. m2.raw = << >> /\ m2.records = << >> /\ m2.at = "idle" /\ m2Artifact = NoDocument
    BY DEF Init, M2Init, M2Idle
  <2>3. Samples3
    BY <2>1, <2>2, NothingIsList
       DEF M3SamplesOK, M2SamplesOK, M3Judging, M3Passing, M3Accepting
  <2>4. History
    BY HistoryInit, M3InitInv, FirstInv
  <2>5. M3MeasuredOK
    BY <2>1 DEF M3MeasuredOK, M3Retaining
  <2>6. M2MeasuredOK
    BY <2>2 DEF M2MeasuredOK, M2Validating
  <2>7. FuzzMeasuredOK
    BY DEF Init, FuzzInit, FuzzIdle, FuzzMeasuredOK, FuzzMeasuring, FuzzReading, FuzzRead
  <2>. QED
    BY <2>3, <2>4, <2>5, <2>6, <2>7
<1>2. History /\ Samples3 /\ Measured /\ [Next]_vars => (History /\ Samples3 /\ Measured)'
  <2> SUFFICES ASSUME History, Samples3, Measured, [Next]_vars
               PROVE  (History /\ Samples3 /\ Measured)'
    OBVIOUS
  <2>1. History'
    BY StepOfRepository, M3StepInv, M2StepInv, FuzzStepInv
  <2>2. Samples3'
    BY M3SamplesStep, M2SamplesStep
  <2>3. Measured'
    BY M2MeasuredStep, FuzzMeasuredStep, M3MeasuredStep
  <2>. QED
    BY <2>1, <2>2, <2>3
<1>3. History /\ Samples3 /\ Measured => AcceptedEvidenceWasMeasured
  BY M2MeasuredAccepted, FuzzMeasuredAccepted, M3MeasuredAccepted DEF AcceptedEvidenceWasMeasured
<1>. QED
  BY <1>1, <1>2, <1>3, PTL DEF Spec
=============================================================================
