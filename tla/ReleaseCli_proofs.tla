-------------------------- MODULE ReleaseCli_proofs --------------------------
(***************************************************************************)
(* Proofs about ReleaseCli, for every number of versions, failures and     *)
(* changes: the types, that what people install is sound, and that it      *)
(* never goes back.                                                        *)
(***************************************************************************)
EXTENDS ReleaseCli, TLAPS

\* A commit keeps the commits before it and adds its files.
LEMMA Committed ==
  ASSUME NEW o \in Seq(Files), NEW f \in Files
  PROVE  /\ Append(o, f) \in Seq(Files)
         /\ Len(o) \in Nat /\ Len(Append(o, f)) = Len(o) + 1
         /\ \A c \in 1 .. Len(o) : Append(o, f)[c] = o[c]
         /\ Append(o, f)[Len(o) + 1] = f
  OBVIOUS

\* The release files of a commit are release files.
LEMMA TreeType ==
  ASSUME TypeOK, NEW c \in 1 .. Len(objects)
  PROVE  Tree(c) \in Files
  BY DEF TypeOK, Tree

\* The versions in the files of a commit are versions.
LEMMA CommitVersions ==
  ASSUME TypeOK, NEW c \in 1 .. Len(objects)
  PROVE  /\ objects[c] \in Files /\ objects[c].cli \in Version /\ objects[c].url \in Version
         /\ objects[c].cli \in Nat
<1>1. objects[c] \in Files
  BY DEF TypeOK
<1> QED
  BY <1>1 DEF Files, Version

\* The first state is well typed.
LEMMA InitType == Init => TypeOK
<1> SUFFICES ASSUME Init PROVE TypeOK
  OBVIOUS
<1>1. 1 \in Version
  BY ReleaseAssumption DEF Version
<1> DEFINE f == [cli |-> 1, url |-> 1, sha |-> 0]
           g == [cli |-> 1, url |-> 1, sha |-> 1]
<1>2. f \in Files /\ g \in Files
  BY <1>1 DEF Files
<1>3. <<f, g>> \in Seq(Files) /\ Len(<<f, g>>) = 2 /\ <<f, g>>[2] = g
  BY <1>2
<1>4. objects \in Seq(Files) /\ Len(objects) = 2 /\ disk = g /\ index = g
  BY <1>3 DEF Init, Placeholder
<1>5. tags \in [Version -> 0 .. 2] /\ rtags = tags
  BY DEF Init, NoTag
<1>6. run \in [at : Steps, next : Version, only : BOOLEAN, sha : 0 .. 2]
  BY <1>1 DEF Init, Steps, Placeholder
<1>7. faults \in 0 .. MaxFaults /\ changes \in 0 .. MaxChanges
  BY ReleaseAssumption DEF Init
<1>8. head = 2 /\ upstream = 2 /\ main = 2
  BY DEF Init
<1> HIDE DEF f, g
<1> QED
  BY <1>2, <1>4, <1>5, <1>6, <1>7, <1>8 DEF TypeOK

\* Going to a step of the script keeps the type of the run.
LEMMA GotoType ==
  ASSUME TypeOK, NEW step \in Steps, Goto(step), objects' = objects
  PROVE  /\ run' \in [at : Steps, next : Version, only : BOOLEAN, sha : 0 .. Len(objects')]
         /\ run'.at = step /\ run'.next = run.next /\ run'.sha = run.sha
  BY DEF TypeOK, Goto

\* Where a script may stand.
LEMMA StepNames ==
  {"idle", "gate", "cli", "url", "prove", "add", "commit", "tag", "push", "fetch",
   "rewrite", "stage", "gate2", "formula", "publish", "smoke"} \subseteq Steps
  BY DEF Steps, BumpSteps, FormulaSteps

\* A step that makes no commit keeps the types.
LEMMA QuietType ==
  ASSUME TypeOK, [Next]_vars, UNCHANGED objects
  PROVE  TypeOK'
<1> USE ReleaseAssumption
<1>1. CASE UNCHANGED vars
  BY <1>1 DEF TypeOK, vars
<1>2. CASE \E v \in Version, only \in BOOLEAN : Begin(v, only)
  BY <1>2 DEF TypeOK, Begin, clone, remote, bounds, Steps, Placeholder
<1>3. CASE Gate \/ Prove \/ GateFormula \/ Finish
  BY <1>3, GotoType, StepNames DEF TypeOK, Gate, Prove, GateFormula, Finish, At, clone, remote, bounds
<1>4. CASE BumpCli \/ BumpUrl \/ Add
  <2>a. run.next \in Version /\ disk \in Files /\ index \in Files
    BY DEF TypeOK
  <2>1. disk' \in Files /\ index' \in Files
    <3>1. CASE BumpCli
      BY <2>a, <3>1 DEF BumpCli, Files
    <3>2. CASE BumpUrl
      BY <2>a, <3>2 DEF BumpUrl, Files, Placeholder
    <3>3. CASE Add
      BY <2>a, <3>3 DEF Add
    <3> QED
      BY <1>4, <3>1, <3>2, <3>3
  <2> QED
    BY <1>4, <2>1, GotoType, StepNames DEF TypeOK, BumpCli, BumpUrl, Add, At, remote, bounds
<1>5. CASE Tag
  BY <1>5, GotoType, StepNames DEF TypeOK, Tag, At, remote, bounds
<1>6. CASE Push \/ PushRejected
  BY <1>6, GotoType, StepNames DEF TypeOK, Push, PushRejected, PublishMain, At, bounds
<1>7. CASE Fetch
  BY <1>7, StepNames DEF TypeOK, Fetch, At, clone, remote, bounds
<1>8. CASE Rewrite \/ Stage
  <2>a. run.next \in Version /\ run.sha \in Nat /\ disk \in Files /\ index \in Files
    BY DEF TypeOK
  <2>1. disk' \in Files /\ index' \in Files
    BY <1>8, <2>a DEF Rewrite, Stage, WithFormula, Files
  <2> QED
    BY <1>8, <2>1, GotoType, StepNames DEF TypeOK, Rewrite, Stage, At, remote, bounds
<1>9. CASE Publish
  BY <1>9, GotoType, StepNames DEF TypeOK, Publish, PublishMain, At, bounds
<1>10. CASE Die
  <2>1. Tree(head) \in Files
    BY TreeType DEF TypeOK
  <2>2. disk' \in Files /\ index' \in Files
    BY <1>10, <2>1 DEF TypeOK, Die, Reverted, WithFormula, Files
  <2> QED
    BY <1>10, <2>2, GotoType, StepNames DEF TypeOK, Die, remote
<1>11. CASE Kill
  BY <1>11, GotoType, StepNames DEF TypeOK, Kill, clone, remote
<1>12. CASE Stash
  BY <1>12, TreeType DEF TypeOK, Stash, remote, bounds
<1>13. CASE Pull
  <2>1. head' \in 1 .. Len(objects)
    BY <1>13, Committed, TreeType DEF TypeOK, Pull, Commit
  <2> QED
    BY <1>13, <2>1 DEF TypeOK, Pull, remote, bounds
<1>14. CASE PushByHand
  <2>1. Tree(head).cli \in Version
    BY TreeType DEF TypeOK, Files
  <2> QED
    BY <1>14, <2>1 DEF TypeOK, PushByHand, PublishMain, bounds
<1>15. CASE TagByHand
  <2>1. Tree(head).cli \in Version
    BY TreeType DEF TypeOK, Files
  <2> QED
    BY <1>15, <2>1 DEF TypeOK, TagByHand, remote, bounds
<1>16. CASE Undo
  BY <1>16, TreeType DEF TypeOK, Undo, remote, bounds
<1>17. CASE CommitRelease \/ CommitFormula \/ Work \/ Others
  BY <1>17, Committed, TreeType DEF TypeOK, CommitRelease, CommitFormula, Work, Others, Commit
<1> QED
  BY <1>1, <1>2, <1>3, <1>4, <1>5, <1>6, <1>7, <1>8, <1>9, <1>10, <1>11, <1>12, <1>13, <1>14,
     <1>15, <1>16, <1>17 DEF Next, Script

\* A new commit changes no commit, no tag and no branch there was.
LEMMA Grown ==
  ASSUME TypeOK, NEW f \in Files, objects' = Append(objects, f)
  PROVE  /\ objects' \in Seq(Files) /\ Len(objects') = Len(objects) + 1
         /\ Len(objects) + 1 \in 1 .. Len(objects')
         /\ {head, upstream, main} \subseteq 1 .. Len(objects')
         /\ {tags, rtags} \subseteq [Version -> 0 .. Len(objects')]
         /\ run \in [at : Steps, next : Version, only : BOOLEAN, sha : 0 .. Len(objects')]
         /\ \A c \in 1 .. Len(objects) : objects'[c] = objects[c]
         /\ objects'[Len(objects) + 1] = f
<1>1. /\ objects' \in Seq(Files) /\ Len(objects) \in Nat /\ Len(objects') = Len(objects) + 1
      /\ \A c \in 1 .. Len(objects) : objects'[c] = objects[c]
      /\ objects'[Len(objects) + 1] = f
  BY Committed DEF TypeOK
<1>2. 0 .. Len(objects) \subseteq 0 .. Len(objects')
  BY <1>1
<1> QED
  BY <1>1, <1>2 DEF TypeOK

\* The steps that make a commit.
LEMMA Committing ==
  ASSUME Next, objects' # objects
  PROVE  CommitRelease \/ CommitFormula \/ Work \/ Others \/ Pull
  BY DEF Next, Script, Begin, Gate, Prove, GateFormula, Finish, BumpCli, BumpUrl, Add, Tag, Push,
         PushRejected, Fetch, Rewrite, Stage, Publish, Die, Kill, Stash, PushByHand, TagByHand, Undo

\* A step that makes a commit keeps the types.
LEMMA GrowingType ==
  ASSUME TypeOK, Next, objects' # objects
  PROVE  TypeOK'
<1> USE ReleaseAssumption
<1>1. CASE CommitRelease \/ CommitFormula
  <2>1. index \in Files /\ objects' = Append(objects, index) /\ head' = Len(objects) + 1
    BY <1>1 DEF TypeOK, CommitRelease, CommitFormula, Commit
  <2>2. run' \in [at : Steps, next : Version, only : BOOLEAN, sha : 0 .. Len(objects')]
    BY <1>1, <2>1, Grown, StepNames DEF CommitRelease, CommitFormula, Goto
  <2> QED
    BY <1>1, <2>1, <2>2, Grown DEF TypeOK, CommitRelease, CommitFormula, remote, bounds
<1>2. CASE Work
  <2>1. Tree(head) \in Files /\ objects' = Append(objects, Tree(head)) /\ head' = Len(objects) + 1
    BY <1>2, TreeType DEF TypeOK, Work, Commit
  <2> QED
    BY <1>2, <2>1, Grown DEF TypeOK, Work, remote
<1>3. CASE Others
  <2>1. Tree(main) \in Files /\ objects' = Append(objects, Tree(main)) /\ main' = Len(objects) + 1
    BY <1>3, TreeType DEF TypeOK, Others
  <2> QED
    BY <1>3, <2>1, Grown DEF TypeOK, Others, clone
<1>4. CASE Pull
  <2>1. Tree(head) \in Files /\ objects' = Append(objects, Tree(head)) /\ head' = Len(objects) + 1
    BY <1>4, TreeType DEF TypeOK, Pull, Commit
  <2>2. disk' \in Files /\ index' \in Files
    BY <1>4, <2>1, Grown DEF Pull
  <2> QED
    BY <1>4, <2>1, <2>2, Grown DEF TypeOK, Pull, remote, bounds
<1> QED
  BY <1>1, <1>2, <1>3, <1>4, Committing

\* The repository, the two tag lists and the script keep their types, for every number of
\* versions, failures and changes (release-cli.sh).
THEOREM TypeCorrect == Spec => []TypeOK
<1>1. TypeOK /\ [Next]_vars => TypeOK'
  BY QuietType, GrowingType DEF vars
<1> QED
  BY <1>1, InitType, PTL DEF Spec

-----------------------------------------------------------------------------
\* The tags of a list name commits of their own version.
Named(t) == \A v \in Version : t[v] # NoTag => objects[t[v]].cli = v

\* The Formula of f is of f's CLI, and holds a placeholder or the sha of a pushed tag.
Sound(f) == f.url = f.cli /\ (f.sha # Placeholder => rtags[f.url] = f.sha)

\* Every commit is sound, every tag names its version, and the remote is never ahead of
\* the clone in version.
HistoryInv ==
  /\ \A c \in 1 .. Len(objects) : Sound(objects[c])
  /\ Named(tags) /\ Named(rtags)
  /\ objects[main] = objects[upstream]
  /\ objects[upstream].cli <= objects[head].cli

Bumped == [cli |-> run.next, url |-> run.next, sha |-> Placeholder]
Finished == [cli |-> Tree(head).cli, url |-> run.next, sha |-> run.sha]

\* What the working tree and the index hold at each step of the script.
ScriptInv ==
  /\ run.at \in {"gate", "cli", "tag", "push", "fetch", "rewrite", "publish", "smoke"} => Clean
  /\ run.at \in {"cli", "url", "prove"} => tags[Tree(head).cli] # NoTag
  /\ run.at \in {"url", "prove", "add", "stage"} => index = Tree(head)
  /\ run.at = "url" => disk.cli = run.next
  /\ run.at \in {"prove", "add", "commit"} => disk = Bumped
  /\ run.at \in {"add", "commit"} => Tree(head).cli < run.next
  /\ run.at = "commit" => index = Bumped
  /\ run.at \in {"tag", "push"} => Tree(head).cli = run.next
  /\ run.at \in FormulaSteps => run.sha = rtags[run.next]
  /\ run.at \in {"stage", "gate2", "formula"} => disk = Finished
  /\ run.at \in {"gate2", "formula"} => index = Finished
  /\ run.at = "formula" => Tree(head).cli = run.next

IInv == TypeOK /\ HistoryInv /\ ScriptInv

\* The first state satisfies the invariant.
LEMMA InitInv == Init => IInv
<1> SUFFICES ASSUME Init PROVE IInv
  OBVIOUS
<1>1. TypeOK
  BY InitType
<1>2. /\ Len(objects) = 2 /\ objects[1] = [cli |-> 1, url |-> 1, sha |-> 0]
      /\ objects[2] = [cli |-> 1, url |-> 1, sha |-> 1]
  BY DEF Init, Placeholder
<1>3. \A v \in Version : tags[v] # NoTag => v = 1 /\ tags[v] = 1
  BY DEF Init, NoTag
<1>4. rtags = tags /\ tags[1] = 1 /\ head = 2 /\ upstream = 2 /\ main = 2
  BY ReleaseAssumption DEF Init, Version
<1>5. HistoryInv
  BY <1>2, <1>3, <1>4 DEF HistoryInv, Sound, Named, Placeholder
<1>6. ScriptInv
  BY DEF Init, ScriptInv, FormulaSteps
<1> QED
  BY <1>1, <1>5, <1>6 DEF IInv

\* A step that makes no commit keeps the history sound.
LEMMA QuietHistory ==
  ASSUME IInv, Next, UNCHANGED objects
  PROVE  HistoryInv'
<1> USE DEF IInv
<1>1. CASE UNCHANGED <<head, upstream, main, tags, rtags>>
  BY <1>1 DEF HistoryInv, Sound, Named
<1>2. CASE Tag
  <2>1. objects[head].cli = run.next
    BY <1>2 DEF ScriptInv, Tag, At, Tree
  <2>2. Named(tags)'
    BY <1>2, <2>1 DEF HistoryInv, Named, Tag, TypeOK
  <2> QED
    BY <1>2, <2>2 DEF HistoryInv, Sound, Named, Tag, remote
<1>3. ASSUME NEW v \in Version, rtags[v] \in {NoTag, tags[v]}, rtags' = [rtags EXCEPT ![v] = tags[v]]
      PROVE  Named(rtags)' /\ \A c \in 1 .. Len(objects) : Sound(objects[c])'
  <2>1. \A w \in Version : rtags'[w] = IF w = v THEN tags[v] ELSE rtags[w]
    BY <1>3 DEF TypeOK
  <2>2. Named(rtags)'
    BY <2>1 DEF HistoryInv, Named
  <2>3. ASSUME NEW c \in 1 .. Len(objects)
        PROVE  Sound(objects[c])'
    <3>1. objects[c].url \in Version /\ Sound(objects[c])
      BY CommitVersions DEF HistoryInv
    <3> QED
      BY <1>3, <2>1, <3>1 DEF Sound, Placeholder, NoTag
  <2> QED
    BY <2>2, <2>3
<1>4. ASSUME NEW v \in Version, rtags' = [rtags EXCEPT ![v] = IF @ = NoTag THEN tags[v] ELSE @]
      PROVE  Named(rtags)' /\ \A c \in 1 .. Len(objects) : Sound(objects[c])'
  <2>1. CASE rtags[v] = NoTag
    BY <1>3, <1>4, <2>1 DEF TypeOK
  <2>2. CASE rtags[v] # NoTag
    <3>1. rtags' = rtags
      BY <1>4, <2>2 DEF TypeOK
    <3> QED
      BY <3>1 DEF HistoryInv, Named, Sound
  <2> QED
    BY <2>1, <2>2
<1>5. run.next \in Version /\ Tree(head).cli \in Version
  BY TreeType DEF TypeOK, Files
<1>6. objects[head].cli <= objects[head].cli
  BY <1>5 DEF Tree, Version
<1>7. CASE Push
  <2>1. Named(rtags)' /\ \A c \in 1 .. Len(objects) : Sound(objects[c])'
    BY <1>3, <1>5, <1>7 DEF Push, At, Passes
  <2> QED
    BY <1>6, <1>7, <2>1 DEF HistoryInv, Named, Push, PublishMain
<1>8. CASE PushRejected
  <2>1. Named(rtags)' /\ \A c \in 1 .. Len(objects) : Sound(objects[c])'
    BY <1>4, <1>5, <1>8 DEF PushRejected
  <2> QED
    BY <1>6, <1>8, <2>1 DEF HistoryInv, Named, PushRejected, PublishMain
<1>9. CASE Publish
  BY <1>6, <1>9 DEF HistoryInv, Named, Sound, Publish, PublishMain
<1>10. CASE Pull
  <2>1. head' = main /\ upstream' = main
    BY <1>10, Committed, TreeType DEF TypeOK, Pull, Commit
  <2>2. objects[main].cli \in Nat
    BY CommitVersions DEF TypeOK, Version
  <2> QED
    BY <1>10, <2>1, <2>2 DEF HistoryInv, Named, Sound, Pull, remote
<1>11. CASE PushByHand
  <2>1. Named(rtags)' /\ \A c \in 1 .. Len(objects) : Sound(objects[c])'
    BY <1>4, <1>5, <1>11 DEF PushByHand
  <2> QED
    BY <1>6, <1>11, <2>1 DEF HistoryInv, Named, PushByHand, PublishMain
<1>12. CASE TagByHand
  <2>1. Named(tags)'
    BY <1>5, <1>12 DEF HistoryInv, Named, TagByHand, TypeOK, Tree
  <2> QED
    BY <1>12, <2>1 DEF HistoryInv, Named, Sound, TagByHand, remote
<1>13. CASE Undo
  <2>1. objects[upstream].cli \in Nat
    BY CommitVersions DEF TypeOK, Version
  <2> QED
    BY <1>13, <2>1 DEF HistoryInv, Named, Sound, Undo, remote
<1>14. CASE CommitRelease \/ CommitFormula \/ Work \/ Others
  BY <1>14, Committed, TreeType DEF TypeOK, CommitRelease, CommitFormula, Work, Others, Commit
<1> QED
  <2>1. \/ UNCHANGED <<head, upstream, main, tags, rtags>>
        \/ Tag \/ Push \/ PushRejected \/ Publish \/ Pull \/ PushByHand \/ TagByHand \/ Undo
        \/ CommitRelease \/ CommitFormula \/ Work \/ Others
    BY DEF Next, Script, Begin, Gate, Prove, GateFormula, Finish, BumpCli, BumpUrl, Add, Fetch,
           Rewrite, Stage, Die, Kill, Stash, clone, remote
  <2> QED
    BY <1>1, <1>2, <1>7, <1>8, <1>9, <1>10, <1>11, <1>12, <1>13, <1>14, <2>1

\* A step that makes a commit keeps the history sound.
LEMMA GrowingHistory ==
  ASSUME IInv, Next, objects' # objects
  PROVE  HistoryInv'
<1> USE DEF IInv
<1>1. UNCHANGED <<tags, rtags>>
  BY Committing DEF CommitRelease, CommitFormula, Work, Others, Pull, clone, remote
<1>2. ASSUME NEW f \in Files, Sound(f), objects' = Append(objects, f)
      PROVE  /\ Named(tags)' /\ Named(rtags)'
             /\ \A c \in 1 .. Len(objects') : Sound(objects[c])'
  <2>1. \A c \in 1 .. Len(objects') : c \in 1 .. Len(objects) \/ c = Len(objects) + 1
    BY <1>2, Grown DEF TypeOK
  <2>2. \A c \in 1 .. Len(objects') : Sound(objects[c])'
    BY <1>1, <1>2, <2>1, Grown DEF HistoryInv, Sound
  <2>3. Named(tags)' /\ Named(rtags)'
    BY <1>1, <1>2, Grown DEF HistoryInv, Named, TypeOK, NoTag
  <2> QED
    BY <2>2, <2>3
<1>3. CASE CommitRelease
  <2>1. index = Bumped /\ Tree(head).cli < run.next
    BY <1>3 DEF ScriptInv, CommitRelease, At
  <2>2. /\ index \in Files /\ Sound(index) /\ objects' = Append(objects, index)
        /\ head' = Len(objects) + 1 /\ UNCHANGED <<main, upstream>>
    BY <1>3, <2>1 DEF TypeOK, CommitRelease, Commit, Bumped, Sound, remote
  <2>3. index.cli = run.next
    BY <2>1 DEF Bumped
  <2>4. objects[upstream].cli \in Nat /\ objects[head].cli \in Nat /\ run.next \in Nat
    BY CommitVersions DEF TypeOK, Version
  <2> QED
    BY <1>2, <2>1, <2>2, <2>3, <2>4, Grown DEF HistoryInv, TypeOK, Tree
<1>4. CASE CommitFormula
  <2>1. index = Finished /\ Tree(head).cli = run.next /\ run.sha = rtags[run.next]
    BY <1>4 DEF ScriptInv, CommitFormula, At, FormulaSteps
  <2>2. /\ index \in Files /\ Sound(index) /\ objects' = Append(objects, index)
        /\ head' = Len(objects) + 1 /\ UNCHANGED <<main, upstream>>
    BY <1>4, <2>1 DEF TypeOK, CommitFormula, Commit, Finished, Sound, remote
  <2>3. index.cli = objects[head].cli
    BY <2>1 DEF Finished, Tree
  <2> QED
    BY <1>2, <2>2, <2>3, Grown DEF HistoryInv, TypeOK
<1>5. CASE Work \/ Pull
  <2>1. /\ Tree(head) \in Files /\ Sound(Tree(head)) /\ objects' = Append(objects, Tree(head))
        /\ head' = Len(objects) + 1 /\ main' = main /\ upstream' \in {upstream, main}
    BY <1>5, TreeType DEF TypeOK, HistoryInv, Work, Pull, Commit, remote, Tree
  <2> QED
    BY <1>2, <2>1, Grown DEF HistoryInv, TypeOK, Tree
<1>6. CASE Others
  <2>1. /\ Tree(main) \in Files /\ Sound(Tree(main)) /\ objects' = Append(objects, Tree(main))
        /\ main' = Len(objects) + 1 /\ UNCHANGED <<head, upstream>>
    BY <1>6, TreeType DEF TypeOK, HistoryInv, Others, clone, Tree
  <2> QED
    BY <1>2, <2>1, Grown DEF HistoryInv, TypeOK, Tree
<1> QED
  BY <1>3, <1>4, <1>5, <1>6, Committing

\* A step that makes no commit keeps what the script relies on.
LEMMA QuietScript ==
  ASSUME IInv, Next, UNCHANGED objects
  PROVE  ScriptInv'
<1> USE DEF IInv
<1>a. /\ run.next \in Version /\ run.next \in Nat /\ Tree(head).cli \in Nat
      /\ Tree(head) \in Files /\ disk \in Files /\ index \in Files
  BY CommitVersions DEF TypeOK, Version, Tree
<1>b. /\ \A step : Goto(step) => run'.at = step /\ run'.next = run.next /\ run'.sha = run.sha
  BY DEF TypeOK, Goto
<1>1. CASE run'.at = "idle"
  BY <1>1 DEF ScriptInv, FormulaSteps
<1>2. CASE \E v \in Version, only \in BOOLEAN : Begin(v, only)
  BY <1>2 DEF ScriptInv, Begin, Preflight, Clean, Tree, clone, FormulaSteps
<1>3. CASE Gate
  BY <1>3, <1>b DEF ScriptInv, Gate, At, Passes, GateGreen, TagsAgree, Clean, Tree, clone, FormulaSteps
<1>4. CASE BumpCli
  <2>1. disk'.cli = run.next
    BY <1>4, <1>a DEF BumpCli, Files
  <2> QED
    BY <1>4, <1>b, <2>1 DEF ScriptInv, BumpCli, At, Clean, Tree, FormulaSteps
<1>5. CASE BumpUrl
  <2>1. disk' = Bumped
    BY <1>5, <1>a DEF ScriptInv, BumpUrl, At, Files, Bumped
  <2>2. Bumped' = Bumped
    BY <1>5, <1>b DEF BumpUrl, Bumped
  <2> QED
    BY <1>5, <1>b, <2>1, <2>2 DEF ScriptInv, BumpUrl, At, Clean, Tree, FormulaSteps
<1>6. CASE Prove
  <2>1. Tree(head).cli < run.next
    BY <1>6, CommitVersions DEF ScriptInv, Prove, At, Passes, Provable, TypeOK, Tree
  <2>2. Bumped' = Bumped
    BY <1>6, <1>b DEF Prove, Bumped
  <2> QED
    BY <1>6, <1>b, <2>1, <2>2 DEF ScriptInv, Prove, At, Tree, clone, FormulaSteps
<1>7. CASE Add
  <2>1. Bumped' = Bumped
    BY <1>7, <1>b DEF Add, Bumped
  <2> QED
    BY <1>7, <1>b, <2>1 DEF ScriptInv, Add, At, Tree, FormulaSteps
<1>8. CASE Tag
  BY <1>8, <1>b DEF ScriptInv, Tag, At, Clean, Tree, FormulaSteps
<1>9. CASE Push
  BY <1>9, <1>b DEF ScriptInv, Push, At, Clean, Tree, FormulaSteps
<1>10. CASE Fetch
  <2>1. run'.at = "rewrite" /\ run'.next = run.next /\ run'.sha = rtags[run.next]
    BY <1>10 DEF Fetch, TypeOK
  <2> QED
    BY <1>10, <2>1 DEF ScriptInv, Fetch, At, Clean, Tree, clone, remote, FormulaSteps
<1>11. CASE Rewrite
  <2>1. disk' = Finished
    BY <1>11, <1>a DEF ScriptInv, Rewrite, At, Clean, Files, Finished
  <2>2. Finished' = Finished
    BY <1>11, <1>b DEF Rewrite, Finished, Tree
  <2> QED
    BY <1>11, <1>b, <2>1, <2>2 DEF ScriptInv, Rewrite, At, Clean, Tree, remote, FormulaSteps
<1>12. CASE Stage
  <2>1. index' = Finished
    <3>1. index = Tree(head) /\ disk = Finished
      BY <1>12 DEF ScriptInv, Stage, At
    <3>2. disk.url = run.next /\ disk.sha = run.sha
      BY <3>1 DEF Finished
    <3>3. index' = [index EXCEPT !.url = run.next, !.sha = run.sha]
      BY <1>12, <3>2 DEF Stage, WithFormula
    <3> QED
      BY <1>a, <3>1, <3>3 DEF Files, Finished
  <2>2. Finished' = Finished
    BY <1>12, <1>b DEF Stage, Finished, Tree
  <2> QED
    BY <1>12, <1>b, <2>1, <2>2 DEF ScriptInv, Stage, At, Tree, remote, FormulaSteps
<1>13. CASE GateFormula
  <2>1. Tree(head).cli = run.next
    BY <1>13 DEF ScriptInv, GateFormula, At, Passes, GateGreen, Finished
  <2>2. Finished' = Finished
    BY <1>13, <1>b DEF GateFormula, Finished, Tree, clone
  <2>3. CASE index = Tree(head)
    BY <1>13, <1>b, <2>3 DEF ScriptInv, GateFormula, At, Clean, Tree, clone, FormulaSteps
  <2>4. CASE index # Tree(head)
    BY <1>13, <1>b, <2>1, <2>2, <2>4 DEF ScriptInv, GateFormula, At, Tree, clone, remote, FormulaSteps
  <2> QED
    BY <2>3, <2>4
<1>14. CASE Publish
  BY <1>14, <1>b DEF ScriptInv, Publish, At, Clean, Tree, FormulaSteps
<1>15. CASE Stash \/ Pull \/ PushByHand \/ TagByHand \/ Undo
  BY <1>1, <1>15 DEF Stash, Pull, PushByHand, TagByHand, Undo, Idle
<1>16. CASE PushRejected \/ Finish \/ Die \/ Kill
  BY <1>1, <1>16, <1>b DEF PushRejected, Finish, Die, Kill
<1>17. CASE CommitRelease \/ CommitFormula \/ Work \/ Others
  BY <1>17, Committed, TreeType DEF TypeOK, CommitRelease, CommitFormula, Work, Others, Commit
<1> QED
  BY <1>2, <1>3, <1>4, <1>5, <1>6, <1>7, <1>8, <1>9, <1>10, <1>11, <1>12, <1>13, <1>14, <1>15,
     <1>16, <1>17 DEF Next, Script

\* A step that makes a commit keeps what the script relies on.
LEMMA GrowingScript ==
  ASSUME IInv, Next, objects' # objects
  PROVE  ScriptInv'
<1> USE DEF IInv
<1>1. CASE CommitRelease
  <2>1. /\ index \in Files /\ objects' = Append(objects, index) /\ head' = Len(objects) + 1
        /\ UNCHANGED <<disk, index>>
    BY <1>1 DEF TypeOK, CommitRelease, Commit
  <2>2. index = Bumped /\ disk = Bumped
    BY <1>1 DEF ScriptInv, CommitRelease, At
  <2>3. run'.at = "tag" /\ run'.next = run.next
    BY <1>1 DEF CommitRelease, Goto, TypeOK
  <2>4. objects'[head'] = index
    BY <2>1, Grown
  <2> QED
    BY <2>1, <2>2, <2>3, <2>4 DEF ScriptInv, Clean, Tree, Bumped, FormulaSteps
<1>2. CASE CommitFormula
  <2>1. /\ index \in Files /\ objects' = Append(objects, index) /\ head' = Len(objects) + 1
        /\ UNCHANGED <<disk, index>>
    BY <1>2 DEF TypeOK, CommitFormula, Commit
  <2>2. index = disk
    BY <1>2 DEF ScriptInv, CommitFormula, At
  <2>3. run'.at = "publish"
    BY <1>2 DEF CommitFormula, Goto, TypeOK
  <2>4. objects'[head'] = index
    BY <2>1, Grown
  <2> QED
    BY <2>1, <2>2, <2>3, <2>4 DEF ScriptInv, Clean, Tree, FormulaSteps
<1>3. CASE Work \/ Pull
  BY <1>3 DEF ScriptInv, Work, Pull, Idle, FormulaSteps
<1>4. CASE Others
  <2>1. Tree(main) \in Files /\ objects' = Append(objects, Tree(main))
    BY <1>4, TreeType DEF TypeOK, Others
  <2>2. Tree(head)' = Tree(head)
    BY <1>4, <2>1, Grown DEF TypeOK, Tree, Others, clone
  <2>3. Clean' = Clean /\ Bumped' = Bumped /\ Finished' = Finished
    BY <1>4, <2>2 DEF Others, clone, Clean, Bumped, Finished
  <2> QED
    BY <1>4, <2>2, <2>3 DEF ScriptInv, Others, clone
<1> QED
  BY <1>1, <1>2, <1>3, <1>4, Committing

\* Every step keeps the invariant.
LEMMA NextInv == IInv /\ [Next]_vars => IInv'
<1>1. ASSUME IInv, Next
      PROVE  IInv'
  <2>1. TypeOK'
    BY <1>1, QuietType, GrowingType DEF IInv
  <2>2. HistoryInv'
    BY <1>1, QuietHistory, GrowingHistory
  <2>3. ScriptInv'
    BY <1>1, QuietScript, GrowingScript
  <2> QED
    BY <2>1, <2>2, <2>3 DEF IInv
<1>2. ASSUME IInv, UNCHANGED vars
      PROVE  IInv'
  <2>1. TypeOK'
    BY <1>2, QuietType DEF IInv, vars
  <2>2. HistoryInv'
    BY <1>2 DEF IInv, HistoryInv, Sound, Named, vars
  <2>3. ScriptInv'
    BY <1>2 DEF IInv, ScriptInv, Clean, Tree, Bumped, Finished, vars
  <2> QED
    BY <2>1, <2>2, <2>3 DEF IInv
<1> QED
  BY <1>1, <1>2

\* The repository, the tags and the script satisfy the invariant for good.
LEMMA Invariant == Spec => []IInv
  BY InitInv, NextInv, PTL DEF Spec

\* Whatever fails, is killed, pulled or pushed, the remote's Formula holds the placeholder
\* or the sha of the pushed tag its url names, whose CLI is of that version (InstallIsSound;
\* release-cli.sh steps 2 to 6, check-docs.py:234-370).
THEOREM InstallsAreSound == Spec => []InstallIsSound
<1>1. IInv => InstallIsSound
  <2> SUFFICES ASSUME IInv PROVE InstallIsSound
    OBVIOUS
  <2>1. Sound(objects[main]) /\ objects[main].url \in Version
    BY CommitVersions DEF IInv, HistoryInv, TypeOK
  <2>2. ASSUME objects[main].sha # Placeholder
        PROVE  objects[objects[main].sha].cli = objects[main].url
    BY <2>1, <2>2 DEF IInv, HistoryInv, Named, Sound, Placeholder, NoTag
  <2> QED
    BY <2>1, <2>2 DEF InstallIsSound, Published, Tree, Sound
<1> QED
  BY <1>1, Invariant, PTL

\* Neither an old tag given to --formula-only, nor an old number given to a release, nor a
\* push by hand takes the remote's Formula back to an older version (VersionNeverFalls;
\* release-cli.sh:272, check-docs.py:371-397).
THEOREM VersionsOnlyRise == Spec => VersionNeverFalls
<1>1. IInv /\ [Next]_vars => [Published'.url >= Published.url]_vars
  <2> SUFFICES ASSUME IInv, Next
               PROVE  Published'.url >= Published.url
    BY DEF vars
  <2> USE DEF IInv
  <2>1. /\ objects[main].url = objects[main].cli /\ objects[head].url = objects[head].cli
        /\ objects[main].cli \in Nat /\ objects[head].cli \in Nat
    BY CommitVersions DEF HistoryInv, Sound, TypeOK
  <2>2. CASE main' = main
    <3>1. objects'[main] = objects[main]
      <4>1. CASE CommitRelease \/ CommitFormula \/ Work \/ Pull
        <5>1. \E f \in Files : objects' = objects \/ objects' = Append(objects, f)
          BY <4>1, TreeType DEF TypeOK, CommitRelease, CommitFormula, Work, Pull, Commit
        <5> QED
          BY <5>1, Grown DEF TypeOK
      <4>2. CASE Others
        BY <4>2, TreeType, Grown DEF TypeOK, Others
      <4> QED
        BY <4>1, <4>2, Committing
    <3> QED
      BY <2>1, <2>2, <3>1 DEF Published, Tree
  <2>3. CASE main' = head /\ objects' = objects
    BY <2>1, <2>3 DEF HistoryInv, Published, Tree
  <2>4. CASE Others
    <3>1. objects'[main'] = objects[main]
      BY <2>4, TreeType, Grown DEF TypeOK, Others, Tree
    <3> QED
      BY <2>1, <3>1 DEF Published, Tree
  <2> QED
    BY <2>2, <2>3, <2>4
    DEF Next, Script, Begin, Gate, Prove, GateFormula, Finish, BumpCli, BumpUrl, Add, Tag, Push,
        PushRejected, PublishMain, Fetch, Rewrite, Stage, Publish, Die, Kill, Stash, PushByHand,
        TagByHand, Undo, Pull, Work, CommitRelease, CommitFormula, remote
<1> QED
  BY <1>1, Invariant, PTL DEF VersionNeverFalls, Spec

-----------------------------------------------------------------------------
\* A pushed tag is the clone's tag, a release cuts a tag there is not, and what it builds
\* on was finished if it was pushed.
OrderInv ==
  /\ \A v \in Version : rtags[v] # NoTag => tags[v] = rtags[v]
  /\ run.at \in {"gate"} \cup BumpSteps => tags[run.next] = NoTag
  /\ run.at = "gate" => \A v \in Version : tags[v] # head
  /\ run.at \in {"cli", "url", "prove", "add", "commit"} =>
       (rtags[Tree(head).cli] # NoTag => Tree(head).sha # Placeholder)

\* Every step keeps it.
LEMMA NextOrder == IInv /\ OrderInv /\ [Next]_vars => OrderInv'
<1> SUFFICES ASSUME IInv, OrderInv, [Next]_vars
             PROVE  OrderInv'
  OBVIOUS
<1> USE DEF IInv
<1>a. run.next \in Version /\ Tree(head).cli \in Version
  BY CommitVersions DEF TypeOK, Tree
<1>b. \A step : Goto(step) => run'.at = step /\ run'.next = run.next
  BY DEF TypeOK, Goto
<1>1. CASE UNCHANGED vars
  BY <1>1 DEF OrderInv, Tree, vars
<1>2. CASE \E v \in Version, only \in BOOLEAN : Begin(v, only)
  BY <1>2 DEF OrderInv, Begin, Preflight, clone, remote, BumpSteps
<1>3. CASE Gate
  <2>1. rtags[Tree(head).cli] # NoTag => Tree(head).sha # Placeholder
    <3>1. disk = Tree(head) /\ ShaAgrees /\ \A v \in Version : tags[v] # head
      BY <1>3 DEF ScriptInv, OrderInv, Clean, Gate, At, Passes, GateGreen
    <3>2. tags[Tree(head).cli] # head
      BY <1>a, <3>1
    <3>3. rtags[Tree(head).cli] # NoTag => tags[Tree(head).cli] = rtags[Tree(head).cli]
      BY <1>a DEF OrderInv
    <3> QED
      BY <3>1, <3>2, <3>3 DEF ShaAgrees
  <2> QED
    BY <1>3, <1>b, <2>1 DEF OrderInv, Gate, At, clone, remote, Tree, BumpSteps
<1>4. CASE BumpCli \/ BumpUrl \/ Prove \/ Add
  BY <1>4, <1>b DEF OrderInv, BumpCli, BumpUrl, Prove, Add, At, clone, remote, Tree, BumpSteps
<1>5. CASE CommitRelease
  BY <1>5, <1>b DEF OrderInv, CommitRelease, At, remote, BumpSteps
<1>6. CASE Tag
  <2>1. rtags[run.next] = NoTag
    BY <1>6, <1>a DEF OrderInv, Tag, At, BumpSteps
  <2> QED
    BY <1>6, <1>b, <2>1 DEF OrderInv, Tag, At, remote, BumpSteps, TypeOK
<1>7. CASE Push
  BY <1>7, <1>a, <1>b DEF OrderInv, Push, At, BumpSteps, TypeOK
<1>8. CASE PushRejected
  BY <1>8, <1>a, <1>b DEF OrderInv, PushRejected, BumpSteps, TypeOK
<1>9. CASE Fetch
  <2>1. run'.at = "rewrite"
    BY <1>9 DEF Fetch, TypeOK
  <2> QED
    BY <1>9, <2>1 DEF OrderInv, Fetch, clone, remote, BumpSteps
<1>10. CASE Rewrite \/ Stage \/ GateFormula \/ CommitFormula \/ Publish \/ Finish
  BY <1>10, <1>b DEF OrderInv, Rewrite, Stage, GateFormula, CommitFormula, Publish, Finish, At,
                     clone, remote, BumpSteps
<1>11. CASE Die \/ Kill
  BY <1>11, <1>b DEF OrderInv, Die, Kill, clone, remote, BumpSteps
<1>12. CASE Stash \/ Pull \/ Work
  BY <1>12 DEF OrderInv, Stash, Pull, Work, Idle, remote, BumpSteps
<1>13. CASE PushByHand
  BY <1>13, <1>a DEF OrderInv, PushByHand, Idle, BumpSteps, TypeOK
<1>14. CASE TagByHand
  BY <1>14, <1>a DEF OrderInv, TagByHand, Idle, remote, BumpSteps, TypeOK
<1>15. CASE Undo
  BY <1>15 DEF OrderInv, Undo, Idle, remote, BumpSteps
<1>16. CASE Others
  <2>1. Tree(head)' = Tree(head)
    BY <1>16, TreeType, Grown DEF TypeOK, Tree, Others, clone
  <2> QED
    BY <1>16, <2>1 DEF OrderInv, Others, clone
<1> QED
  BY <1>1, <1>2, <1>3, <1>4, <1>5, <1>6, <1>7, <1>8, <1>9, <1>10, <1>11, <1>12, <1>13, <1>14,
     <1>15, <1>16 DEF Next, Script

\* A release commit is never made on top of a version that was pushed and not finished: the
\* gate refuses the placeholder of a pushed tag except on the tagged commit, and there the
\* preflight refuses (NothingOverUnfinished; check-docs.py:297-312, release-cli.sh:127-131).
THEOREM UnfinishedFirst == Spec => NothingOverUnfinished
<1>1. Init => OrderInv
  BY DEF Init, OrderInv, BumpSteps
<1>2. IInv /\ OrderInv /\ [Next]_vars =>
        [run.at = "commit" /\ head' # head =>
           (rtags[Tree(head).cli] # NoTag => Tree(head).sha # Placeholder)]_vars
  BY DEF OrderInv
<1> QED
  BY <1>1, <1>2, Invariant, NextOrder, PTL DEF NothingOverUnfinished, Spec

-----------------------------------------------------------------------------
\* The remote is the channel of CliChannel.

\* A commit there was stays as it is.
LEMMA CommitsStay ==
  ASSUME IInv, [Next]_vars, NEW c \in 1 .. Len(objects)
  PROVE  objects'[c] = objects[c]
<1> USE DEF IInv
<1>1. CASE objects' = objects
  BY <1>1
<1>2. CASE CommitRelease \/ CommitFormula
  BY <1>2, Grown DEF CommitRelease, CommitFormula, Commit, TypeOK
<1>3. CASE objects' # objects /\ (Work \/ Pull)
  BY <1>3, TreeType, Grown DEF Work, Pull, Commit, TypeOK
<1>4. CASE Others
  BY <1>4, TreeType, Grown DEF Others, TypeOK
<1> QED
  BY <1>1, <1>2, <1>3, <1>4, Committing DEF vars

\* A tag that was pushed is never moved.
LEMMA TagsStay ==
  ASSUME IInv, [Next]_vars, NEW v \in Version
  PROVE  rtags[v] \in {NoTag, rtags'[v]}
<1> USE DEF IInv
<1>1. CASE Push
  BY <1>1 DEF Push, At, Passes, TypeOK
<1>2. CASE PushRejected
  BY <1>2 DEF PushRejected, TypeOK
<1>3. CASE PushByHand
  BY <1>3 DEF PushByHand, TypeOK
<1>4. CASE rtags' = rtags
  BY <1>4
<1> QED
  BY <1>1, <1>2, <1>3, <1>4
  DEF Next, Script, Begin, Gate, Prove, GateFormula, Finish, BumpCli, BumpUrl, Add, Tag, Fetch,
      Rewrite, Stage, Publish, Die, Kill, Stash, TagByHand, Undo, Pull, Work, Others,
      CommitRelease, CommitFormula, remote, vars

\* The remote's main keeps its files or goes to those of the clone, by a push.
LEMMA MainMoves ==
  ASSUME IInv, [Next]_vars
  PROVE  \/ objects'[main'] = objects[main]
         \/ /\ Push \/ PushRejected \/ Publish \/ PushByHand
            /\ main' = head /\ UNCHANGED <<objects, head>>
<1> USE DEF IInv
<1>1. main \in 1 .. Len(objects)
  BY DEF TypeOK
<1>2. CASE main' = main
  BY <1>1, <1>2, CommitsStay
<1>3. CASE Others
  BY <1>3, TreeType, Grown DEF TypeOK, Others, Tree
<1>4. CASE Push \/ PushRejected \/ Publish \/ PushByHand
  BY <1>2, <1>4 DEF Push, PushRejected, Publish, PushByHand, PublishMain
<1> QED
  BY <1>2, <1>3, <1>4
  DEF Next, Script, Begin, Gate, Prove, GateFormula, Finish, BumpCli, BumpUrl, Add, Tag, Fetch,
      Rewrite, Stage, Die, Kill, Stash, TagByHand, Undo, Pull, Work, CommitRelease,
      CommitFormula, remote, vars

\* What is published has its tag on the remote; the clone withdraws no digest it builds on;
\* the script pushes a tag it has set and finishes a Formula whose tag is pushed.
PublishInv ==
  /\ rtags[objects[main].cli] # NoTag
  /\ objects[head].cli = objects[main].cli /\ objects[head].sha = Placeholder
       => objects[main].sha = Placeholder
  /\ run.at = "push" => tags[run.next] # NoTag
  /\ run.at \in FormulaSteps \cup {"publish"} => rtags[run.next] # NoTag
  /\ run.at = "publish" => objects[head].cli = run.next

\* The tag of what is published is on the remote after every step.
LEMMA PublishedTag ==
  ASSUME IInv, PublishInv, [Next]_vars
  PROVE  rtags'[objects'[main'].cli] # NoTag
<1> USE DEF IInv
<1>1. objects[main].cli \in Version /\ objects[head].cli \in Version /\ run.next \in Version
  BY CommitVersions DEF TypeOK
<1>2. CASE objects'[main'] = objects[main]
  BY <1>1, <1>2, TagsStay DEF PublishInv
<1>3. CASE (Push \/ PushRejected) /\ main' = head /\ UNCHANGED <<objects, head>>
  <2>1. objects[head].cli = run.next /\ tags[run.next] # NoTag
    BY <1>3 DEF Push, PushRejected, At, ScriptInv, PublishInv, Tree
  <2>2. rtags'[run.next] # NoTag
    BY <1>1, <1>3, <2>1 DEF Push, PushRejected, TypeOK
  <2> QED
    BY <1>3, <2>1, <2>2
<1>4. CASE Publish /\ main' = head /\ UNCHANGED <<objects, head>>
  BY <1>4 DEF Publish, At, PublishInv
<1>5. CASE PushByHand /\ main' = head /\ UNCHANGED <<objects, head>>
  <2>1. rtags'[objects[head].cli] # NoTag
    BY <1>1, <1>5 DEF PushByHand, Tree, TypeOK
  <2> QED
    BY <1>5, <2>1
<1> QED
  BY <1>2, <1>3, <1>4, <1>5, MainMoves

\* The clone's files of the published version keep the digest that is published.
LEMMA DigestStays ==
  ASSUME IInv, PublishInv, [Next]_vars, objects'[head'].cli = objects'[main'].cli,
         objects'[head'].sha = Placeholder
  PROVE  objects'[main'].sha = Placeholder
<1> USE DEF IInv
<1>1. /\ {head, main, upstream} \subseteq 1 .. Len(objects)
      /\ objects[main] = objects[upstream] /\ objects[main].cli <= objects[head].cli
      /\ objects[main].cli \in Nat /\ objects[head].cli \in Nat
  BY CommitVersions DEF TypeOK, HistoryInv
<1>2. CASE objects'[head'] = objects[head] /\ objects'[main'] = objects[main]
  BY <1>2 DEF PublishInv
<1>3. CASE main' = head /\ UNCHANGED <<objects, head>>
  BY <1>3
<1>4. CASE CommitRelease
  <2>1. /\ index \in Files /\ objects' = Append(objects, index) /\ head' = Len(objects) + 1
        /\ main' = main
    BY <1>4 DEF TypeOK, CommitRelease, Commit, remote
  <2>2. objects'[head'] = index /\ objects'[main'] = objects[main]
    BY <1>1, <2>1, Grown
  <2>3. index.cli = run.next /\ objects[head].cli < run.next /\ run.next \in Nat
    BY <1>4 DEF CommitRelease, At, ScriptInv, Bumped, Tree, TypeOK, Version
  <2> QED
    BY <1>1, <2>2, <2>3
<1>5. CASE CommitFormula
  <2>1. /\ index \in Files /\ objects' = Append(objects, index) /\ head' = Len(objects) + 1
    BY <1>5 DEF TypeOK, CommitFormula, Commit
  <2>2. objects'[head'] = index
    BY <2>1, Grown
  <2>3. index.sha = rtags[run.next] /\ rtags[run.next] # NoTag
    BY <1>5 DEF CommitFormula, At, ScriptInv, Finished, FormulaSteps, PublishInv
  <2> QED
    BY <2>2, <2>3 DEF NoTag, Placeholder
<1>6. CASE Undo
  BY <1>1, <1>6 DEF Undo, remote
<1>7. CASE Work \/ Pull
  <2>1. main' = main /\ objects'[main'] = objects[main]
    BY <1>1, <1>7, CommitsStay DEF Work, Pull, remote
  <2>2. CASE objects' = objects
    <3>1. Pull /\ head' = main
      BY <1>7, <2>2, TreeType, Grown DEF Work, Pull, Commit, TypeOK
    <3> QED
      BY <2>1, <3>1
  <2>3. CASE objects' # objects
    <3>1. objects' = Append(objects, Tree(head)) /\ head' = Len(objects) + 1 /\ Tree(head) \in Files
      BY <1>7, <2>3, TreeType DEF Work, Pull, Commit, TypeOK
    <3>2. objects'[head'] = objects[head]
      BY <3>1, Grown DEF Tree
    <3> QED
      BY <1>2, <2>1, <3>2
  <2> QED
    BY <2>2, <2>3
<1>8. CASE head' = head /\ ~(main' = head /\ objects' = objects)
  <2>1. objects'[head'] = objects[head]
    BY <1>1, <1>8, CommitsStay
  <2>2. objects'[main'] = objects[main]
    BY <1>8, MainMoves
  <2> QED
    BY <1>2, <2>1, <2>2
<1> QED
  BY <1>3, <1>4, <1>5, <1>6, <1>7, <1>8
  DEF Next, Script, Begin, Gate, Prove, GateFormula, Finish, BumpCli, BumpUrl, Add, Tag, Fetch,
      Push, PushRejected, Publish, PushByHand, Rewrite, Stage, Die, Kill, Stash, TagByHand,
      Others, clone, vars

\* Every step keeps it.
LEMMA PublishStep == IInv /\ PublishInv /\ [Next]_vars => PublishInv'
<1> SUFFICES ASSUME IInv, PublishInv, [Next]_vars PROVE PublishInv'
  OBVIOUS
<1> USE DEF IInv
<1>a. run.next \in Version /\ head \in 1 .. Len(objects)
  BY DEF TypeOK
<1>b. \A step : Goto(step) => run'.at = step /\ run'.next = run.next
  BY DEF TypeOK, Goto
<1>c. run'.next = run.next /\ rtags[run.next] # NoTag => rtags'[run'.next] # NoTag
  BY <1>a, TagsStay
<1>d. CASE Idle /\ run' = run
  BY <1>d, PublishedTag, DigestStays DEF Idle, PublishInv, FormulaSteps
<1>e. CASE (\E v \in Version, only \in BOOLEAN : Begin(v, only)) \/ PushRejected \/ Die \/ Kill
  <2>1. run'.at \in {"idle", "gate", "fetch"}
    BY <1>b, <1>e DEF Begin, PushRejected, Die, Kill
  <2> QED
    BY <2>1, PublishedTag, DigestStays DEF PublishInv, FormulaSteps
<1>f. Stash \/ Pull \/ PushByHand \/ TagByHand \/ Undo \/ Work => Idle /\ run' = run
  BY DEF Stash, Pull, PushByHand, TagByHand, Undo, Work
<1>1. ASSUME Script \/ Others \/ UNCHANGED vars, ~ (PushRejected \/ Die), run'.at = "push"
      PROVE  tags'[run'.next] # NoTag
  <2>1. CASE Tag
    BY <1>a, <1>b, <2>1 DEF Tag, TypeOK, NoTag
  <2>2. CASE Others \/ UNCHANGED vars
    BY <1>1, <2>2 DEF PublishInv, Others, clone, vars
  <2>3. CASE Fetch
    BY <1>1, <2>3 DEF Fetch, TypeOK
  <2> QED
    BY <1>b, <1>1, <2>1, <2>2, <2>3
    DEF Script, Gate, Prove, GateFormula, Finish, BumpCli, BumpUrl, Add, Push, Publish, Rewrite,
        Stage, CommitRelease, CommitFormula
<1>2. ASSUME Script \/ Others \/ UNCHANGED vars, ~ (PushRejected \/ Die),
             run'.at \in FormulaSteps \cup {"publish"}
      PROVE  rtags'[run'.next] # NoTag
  <2>1. CASE Fetch
    BY <1>a, <2>1 DEF Fetch, At, Passes, TypeOK, remote
  <2>2. CASE Rewrite \/ Stage \/ GateFormula \/ CommitFormula
    <3>1. run.at \in FormulaSteps /\ run'.next = run.next
      BY <1>b, <2>2 DEF Rewrite, Stage, GateFormula, CommitFormula, At, FormulaSteps
    <3> QED
      BY <1>c, <3>1 DEF PublishInv
  <2>3. CASE Others \/ UNCHANGED vars
    BY <1>2, <1>c, <2>3 DEF PublishInv, Others, vars
  <2> QED
    BY <1>b, <1>2, <2>1, <2>2, <2>3
    DEF Script, Gate, Prove, Finish, BumpCli, BumpUrl, Add, Tag, Push, Publish, CommitRelease,
        FormulaSteps
<1>3. ASSUME Script \/ Others \/ UNCHANGED vars, ~ (PushRejected \/ Die), run'.at = "publish"
      PROVE  objects'[head'].cli = run'.next
  <2>1. CASE CommitFormula
    <3>1. index = Finished /\ Tree(head).cli = run.next /\ run'.next = run.next
      BY <1>b, <2>1 DEF CommitFormula, At, ScriptInv, FormulaSteps
    <3>2. index \in Files /\ objects' = Append(objects, index) /\ head' = Len(objects) + 1
      BY <2>1 DEF TypeOK, CommitFormula, Commit
    <3>3. objects'[head'] = index
      BY <3>2, Grown
    <3> QED
      BY <3>1, <3>3 DEF Finished
  <2>2. CASE Others \/ UNCHANGED vars
    BY <1>3, <1>a, <2>2, CommitsStay DEF PublishInv, Others, clone, vars
  <2>3. CASE Fetch
    BY <1>3, <2>3 DEF Fetch, TypeOK
  <2> QED
    BY <1>b, <1>3, <2>1, <2>2, <2>3
    DEF Script, Gate, Prove, GateFormula, Finish, BumpCli, BumpUrl, Add, Tag, Push, Publish,
        Rewrite, Stage, CommitRelease
<1>4. CASE (Script \/ Others \/ UNCHANGED vars) /\ ~ (PushRejected \/ Die)
  BY <1>1, <1>2, <1>3, <1>4, PublishedTag, DigestStays DEF PublishInv
<1> QED
  BY <1>d, <1>e, <1>f, <1>4 DEF Next

\* The remote satisfies it at the start.
LEMMA PublishInit == Init => PublishInv
<1> SUFFICES ASSUME Init PROVE PublishInv
  OBVIOUS
<1>1. 1 \in Version
  BY ReleaseAssumption DEF Version
<1>2. main = 2 /\ head = 2 /\ objects[2] = [cli |-> 1, url |-> 1, sha |-> 1] /\ rtags[1] = 1
  BY <1>1 DEF Init
<1> QED
  BY <1>2 DEF Init, PublishInv, NoTag, Placeholder, FormulaSteps

\* What is published can be installed.
LEMMA PublishedIsInstallable ==
  ASSUME IInv, PublishInv
  PROVE  /\ [version |-> Published.url, digest |-> Published.sha] \in Channel!Formula
         /\ rtags \in [Version -> Nat]
         /\ Channel!Installable([version |-> Published.url, digest |-> Published.sha], rtags)
<1> USE DEF IInv
<1>1. Published \in Files /\ Published = objects[main] /\ Sound(objects[main])
  BY TreeType DEF TypeOK, Published, Tree, HistoryInv
<1>2. [version |-> Published.url, digest |-> Published.sha] \in Channel!Formula
  BY <1>1 DEF Files, Channel!Formula
<1>3. rtags \in [Version -> Nat]
  BY DEF TypeOK
<1> QED
  BY <1>1, <1>2, <1>3 DEF Channel!Installable, Sound, PublishInv, Placeholder, NoTag

\* Every step is a push of the channel, or leaves it alone.
LEMMA NextReceives ==
  ASSUME IInv, IInv', PublishInv, PublishInv', [Next]_vars
  PROVE  Channel!Receive
<1> USE DEF IInv
<1>1. /\ [version |-> Published'.url, digest |-> Published'.sha] \in Channel!Formula
      /\ rtags' \in [Version -> Nat]
      /\ Channel!Installable([version |-> Published'.url, digest |-> Published'.sha], rtags')
  <2>1. Published' = objects'[main'] /\ Published' \in Files
    <3>1. objects' \in Seq(Files) /\ main' \in 1..Len(objects')
      BY DEF TypeOK
    <3>2. Published' = objects'[main']
      BY DEF Published, Tree
    <3> QED
      BY <3>1, <3>2
  <2>2. [version |-> Published'.url, digest |-> Published'.sha] \in Channel!Formula
    BY <2>1 DEF Files, Channel!Formula
  <2>3. rtags' \in [Version -> Nat]
    BY DEF TypeOK
  <2>4. Sound(objects[main])'
    <3>1. main' \in 1..Len(objects')
      BY DEF TypeOK
    <3> QED
      BY <3>1 DEF HistoryInv, Sound
  <2> QED
    BY <2>1, <2>2, <2>3, <2>4 DEF Channel!Installable, Sound, PublishInv, Placeholder, NoTag
<1>2. \A v \in Version : rtags[v] \in {NoTag, rtags'[v]}
  BY TagsStay
<1>3. Channel!Follows([version |-> Published'.url, digest |-> Published'.sha],
                      [version |-> Published.url, digest |-> Published.sha])
  <2>1. Published = objects[main] /\ Published' = objects'[main']
    BY DEF Published, Tree
  <2>2. CASE objects'[main'] = objects[main]
    <3>1. Published' = Published
      BY <2>1, <2>2
    <3> QED
      BY <3>1 DEF Channel!Follows
  <2>3. CASE main' = head /\ UNCHANGED <<objects, head>>
    <3>1. Published' = objects[head]
      BY <2>1, <2>3
    <3>2. /\ Sound(objects[main]) /\ Sound(objects[head])
          /\ objects[main].cli <= objects[head].cli
          /\ objects[main].cli \in Nat /\ objects[head].cli \in Nat
      BY CommitVersions DEF TypeOK, HistoryInv
    <3>3. CASE objects[head].cli = objects[main].cli
      BY <2>1, <3>1, <3>2, <3>3 DEF Channel!Follows, Sound, PublishInv, Placeholder, NoTag
    <3>4. CASE objects[head].cli > objects[main].cli
      BY <2>1, <3>1, <3>2, <3>4 DEF Channel!Follows, Sound
    <3> QED
      BY <3>2, <3>3, <3>4
  <2> QED
    BY <2>2, <2>3, MainMoves
<1> QED
  BY <1>1, <1>2, <1>3 DEF Channel!Receive

\* For those who install, every behaviour of the script, the maintainer and the others is
\* one of the channel: tags stay, versions rise, and a digest that was published is not
\* withdrawn (release-cli.sh, check-docs.py, the pre-push hook).
THEOREM RemoteIsTheChannel == Spec => ChannelKept
<1>1. Init => Channel!ChannelInit
  BY InitInv, PublishInit, PublishedIsInstallable DEF Channel!ChannelInit
<1>2. IInv /\ IInv' /\ PublishInv /\ PublishInv' /\ [Next]_vars
        => [Channel!Receive]_Channel!channelVars
  BY NextReceives
<1> QED
  BY <1>1, <1>2, Invariant, PublishInit, PublishStep, PTL DEF Spec, ChannelKept, Channel!ChannelSpec
=============================================================================
