----------------------- MODULE SpecLifecycle_proofs -----------------------
(***************************************************************************)
(* What holds of SpecLifecycle for every set of features, spikes and code  *)
(* files and every bound: type correctness, the invariant of the guard,    *)
(* and that the committed records implement FeatureRecord.                 *)
(***************************************************************************)
EXTENDS SpecLifecycle, TLAPS

----------------------------------------------------------------------------
(* What writing, committing and checking out leave behind is a file.       *)

\* A write (Edit, Write, an agent) leaves a file.
LEMMA WrittenType ==
  ASSUME NEW Content, NEW file \in GitFile(Content), NEW content \in Content,
         NEW t \in Nat
  PROVE  Written(file, content, t) \in GitFile(Content)
BY DEF Written, GitFile

\* So does a commit.
LEMMA CommittedType ==
  ASSUME NEW Content, NEW file \in GitFile(Content), NEW t \in Nat
  PROVE  Committed(file, t) \in GitFile(Content)
BY DEF Committed, GitFile

\* So does a checkout.
LEMMA CheckedOutType ==
  ASSUME NEW Content, NEW file \in GitFile(Content), NEW t \in Nat
  PROVE  CheckedOut(file, t) \in GitFile(Content)
BY DEF CheckedOut, GitFile

\* A file that was never written is a file too.
LEMMA NoFileType ==
  ASSUME NEW Content
  PROVE  NoFile \in GitFile(Content)
BY DEF NoFile, GitFile

\* One file of a family is rewritten.
LEMMA UpdatedFamilyType ==
  ASSUME NEW Content, NEW Name, NEW files \in [Name -> GitFile(Content)],
         NEW x \in Name, NEW file \in GitFile(Content)
  PROVE  [files EXCEPT ![x] = file] \in [Name -> GitFile(Content)]
OBVIOUS

\* A commit of some files of a family: every file keeps its type.
LEMMA CommittedInType ==
  ASSUME NEW Content, NEW Name, NEW files \in [Name -> GitFile(Content)],
         NEW picked, NEW t \in Nat
  PROVE  CommittedIn(files, picked, t) \in [Name -> GitFile(Content)]
BY CommittedType DEF CommittedIn

\* A clone: every file of a family is checked out.
LEMMA TreeType ==
  ASSUME NEW Content, NEW Name, NEW files \in [Name -> GitFile(Content)],
         now \in Nat
  PROVE  Tree(files) \in [Name -> GitFile(Content)]
BY CheckedOutType DEF Tree

----------------------------------------------------------------------------
(* Type correctness.                                                       *)

\* The stamp of the next write is a number.
LEMMA NowType ==
  ASSUME TypeOK
  PROVE  now \in Nat
BY DEF TypeOK, now

\* A spec on disk is a spec (ForgeState).
LEMMA SpecNowType ==
  ASSUME TypeOK, NEW f \in Feature, Exists(spec[f])
  PROVE  spec[f].now \in SpecContent
BY DEF TypeOK, ArtifactsTypeOK, GitFile, Exists

\* A plan on disk is a plan.
LEMMA PlanNowType ==
  ASSUME TypeOK, NEW f \in Feature, Exists(plan[f])
  PROVE  plan[f].now \in PlanContent
BY DEF TypeOK, ArtifactsTypeOK, GitFile, Exists

\* A task list on disk is a task list.
LEMMA TasksNowType ==
  ASSUME TypeOK, NEW f \in Feature, Exists(tasks[f])
  PROVE  tasks[f].now \in TasksContent
BY DEF TypeOK, ArtifactsTypeOK, GitFile, Exists

\* An edit of a spec keeps the types when what it writes is a spec.
LEMMA EditSpecType ==
  ASSUME TypeOK, NEW f \in Feature, NEW content \in SpecContent,
         EditSpec(f, content), closing' \subseteq Feature
  PROVE  TypeOK'
<1>1. now \in Nat
  BY NowType
<1>2. spec' \in [Feature -> GitFile(SpecContent)]
  BY <1>1, WrittenType, UpdatedFamilyType DEF EditSpec, TypeOK, ArtifactsTypeOK
<1>3. /\ clock' \in Nat
      /\ hook' \in [Feature -> {"idle", "pending", "blocked"}]
  BY <1>1 DEF EditSpec, Tick, TypeOK
<1> QED
  BY <1>2, <1>3 DEF EditSpec, TypeOK, ArtifactsTypeOK

\* The actions of a session keep the types.
LEMMA SessionStepType ==
  ASSUME TypeOK, NEW f \in Feature, SessionStep(f)
  PROVE  TypeOK'
<1>1. now \in Nat
  BY NowType
<1>2. ASSUME NEW status \in Status, NEW rigor \in Rigor, CreateSpec(f, status, rigor)
      PROVE  TypeOK'
  <2>1. [body |-> now, status |-> status, rigor |-> rigor] \in SpecContent
    BY <1>1, <1>2 DEF SpecContent
  <2> QED BY <1>2, <2>1, EditSpecType DEF CreateSpec, TypeOK
<1>3. ASSUME NEW status \in Status, NEW rigor \in Rigor, FreeEdit(f, status, rigor)
      PROVE  TypeOK'
  <2>1. [spec[f].now EXCEPT !.status = status, !.rigor = rigor] \in SpecContent
    BY <1>3, SpecNowType DEF FreeEdit, SpecContent
  <2> QED BY <1>3, <2>1, EditSpecType DEF FreeEdit, TypeOK
<1>4. ASSUME NEW tier \in Tier, Promote(f, tier)
      PROVE  TypeOK'
  <2>1. [spec[f].now EXCEPT !.rigor = tier] \in SpecContent
    BY <1>4, SpecNowType DEF Promote, SpecContent, Rigor
  <2> QED BY <1>4, <2>1, EditSpecType DEF Promote, TypeOK
<1>5. CASE EditBody(f)
  <2>1. [spec[f].now EXCEPT !.body = now] \in SpecContent
    BY <1>1, <1>5, SpecNowType DEF EditBody, SpecContent
  <2> QED BY <1>5, <2>1, EditSpecType DEF EditBody, TypeOK
<1>6. ASSUME NEW status \in Status,
             Exists(spec[f]),
             EditSpec(f, [spec[f].now EXCEPT !.status = status]),
             closing' \subseteq Feature
      PROVE  TypeOK'
  <2>1. [spec[f].now EXCEPT !.status = status] \in SpecContent
    BY <1>6, SpecNowType DEF SpecContent
  <2> QED BY <1>6, <2>1, EditSpecType
<1>7. CASE Approve(f) \/ StartWork(f)
  BY <1>6, <1>7 DEF Approve, StartWork, TypeOK, Status, OpenStatus
<1>8. CASE CheckClose(f)
  BY <1>8 DEF CheckClose, artifacts, TypeOK, ArtifactsTypeOK
<1>9. CASE Close(f)
  BY <1>6, <1>9 DEF Close, TypeOK, Status, Terminal
<1>10. CASE Archive(f) \/ Supersede(f)
  <2>1. PICK status \in {"archived", "superseded"} : Retire(f, status)
    BY <1>10 DEF Archive, Supersede
  <2>2. [spec[f].now EXCEPT !.status = status, !.body = now] \in SpecContent
    BY <1>1, <2>1, SpecNowType DEF Retire, SpecContent, Status, Terminal
  <2> QED BY <2>1, <2>2, EditSpecType DEF Retire, TypeOK
<1>11. CASE Revert(f)
  <2>1. spec' \in [Feature -> GitFile(SpecContent)]
    BY <1>1, <1>11, CheckedOutType, UpdatedFamilyType
    DEF Revert, TypeOK, ArtifactsTypeOK
  <2> QED BY <1>1, <1>11, <2>1 DEF Revert, Tick, TypeOK, ArtifactsTypeOK
<1> QED
  BY <1>2, <1>3, <1>4, <1>5, <1>7, <1>8, <1>9, <1>10, <1>11 DEF SessionStep

\* The writers of the other artifacts keep the types.
LEMMA AgentStepType ==
  ASSUME TypeOK, NEW f \in Feature, AgentStep(f)
  PROVE  TypeOK'
<1>1. now \in Nat /\ MaxTasks \in Nat
  BY NowType, ForgeAssumption
<1>2. CASE WritePlan(f)
  <2> DEFINE status == IF Exists(plan[f]) THEN plan[f].now.status ELSE "draft"
  <2>1. [body |-> now, status |-> status] \in PlanContent
    BY <1>1, PlanNowType DEF PlanContent
  <2>2. plan' \in [Feature -> GitFile(PlanContent)]
    BY <1>1, <1>2, <2>1, WrittenType, UpdatedFamilyType
    DEF WritePlan, TypeOK, ArtifactsTypeOK
  <2> QED BY <1>1, <1>2, <2>2 DEF WritePlan, Tick, TypeOK, ArtifactsTypeOK
<1>7. CASE ApprovePlan(f)
  <2>1. [plan[f].now EXCEPT !.status = "approved"] \in PlanContent
    BY <1>7, PlanNowType DEF ApprovePlan, PlanContent
  <2>2. plan' \in [Feature -> GitFile(PlanContent)]
    BY <1>1, <1>7, <2>1, WrittenType, UpdatedFamilyType
    DEF ApprovePlan, TypeOK, ArtifactsTypeOK
  <2> QED BY <1>1, <1>7, <2>2 DEF ApprovePlan, Tick, TypeOK, ArtifactsTypeOK
<1>3. ASSUME NEW total \in 0..MaxTasks, Resync(f, total)
      PROVE  TypeOK'
  <2>1. Checked(f) \in 0..MaxTasks
    BY <1>1, TasksNowType DEF Checked, TasksContent, TaskList
  <2>2. Day(now) \in Nat
    BY <1>1, LifecycleAssumption DEF Day
  <2>3. [body |-> [synced |-> Day(now), total |-> total, checked |-> Checked(f)]]
          \in TasksContent
    BY <2>1, <2>2 DEF TasksContent, TaskList
  <2>4. tasks' \in [Feature -> GitFile(TasksContent)]
    BY <1>1, <1>3, <2>3, WrittenType, UpdatedFamilyType
    DEF Resync, TypeOK, ArtifactsTypeOK
  <2> QED BY <1>1, <1>3, <2>4 DEF Resync, Tick, TypeOK, ArtifactsTypeOK
<1>4. CASE CheckTask(f)
  <2> DEFINE list == tasks[f].now.body
  <2>1. list \in TaskList
    BY <1>4, TasksNowType DEF CheckTask, TasksContent
  <2>2. list.checked + 1 \in 0..MaxTasks
    BY <1>1, <1>4, <2>1 DEF CheckTask, TaskList
  <2>3. [body |-> [list EXCEPT !.checked = list.checked + 1]] \in TasksContent
    BY <2>1, <2>2 DEF TasksContent, TaskList
  <2>4. tasks' \in [Feature -> GitFile(TasksContent)]
    BY <1>1, <1>4, <2>3, WrittenType, UpdatedFamilyType
    DEF CheckTask, TypeOK, ArtifactsTypeOK
  <2> QED BY <1>1, <1>4, <2>4 DEF CheckTask, Tick, TypeOK, ArtifactsTypeOK
<1>5. ASSUME NEW v \in {"PASS", "FAIL"}, Evaluate(f, v)
      PROVE  TypeOK'
  <2>1. [body |-> [written |-> now, verdict |-> v]] \in ReportContent
    BY <1>1, <1>5 DEF ReportContent
  <2>2. report' \in [Feature -> GitFile(ReportContent)]
    BY <1>1, <1>5, <2>1, WrittenType, UpdatedFamilyType
    DEF Evaluate, TypeOK, ArtifactsTypeOK
  <2> QED BY <1>1, <1>5, <2>2 DEF Evaluate, Tick, TypeOK, ArtifactsTypeOK
<1>6. ASSUME NEW qe \in Verdict, NEW security \in Verdict, RecordRun(f, qe, security)
      PROVE  TypeOK'
  BY <1>6 DEF RecordRun, TypeOK, ArtifactsTypeOK
<1> QED
  BY <1>2, <1>3, <1>4, <1>5, <1>6, <1>7 DEF AgentStep

\* Commits and clones keep the types.
LEMMA GitStepType ==
  ASSUME TypeOK, GitStep
  PROVE  TypeOK'
<1>1. now \in Nat
  BY NowType
<1>2. ASSUME NEW docs, NEW C, Commit(docs, C)
      PROVE  TypeOK'
  BY <1>1, <1>2, CommittedInType DEF Commit, Tick, TypeOK, ArtifactsTypeOK
<1>3. CASE Clone
  BY <1>1, <1>3, TreeType DEF Clone, Tick, TypeOK, ArtifactsTypeOK
<1> QED
  BY <1>2, <1>3 DEF GitStep

\* The empty project has the types.
LEMMA InitType == Init => TypeOK
<1> SUFFICES ASSUME Init
             PROVE  TypeOK
  OBVIOUS
<1>1. ArtifactsTypeOK
  BY NoFileType DEF Init, ArtifactsTypeOK, Verdict
<1> QED
  BY <1>1 DEF Init, TypeOK

\* Every step keeps the types.
LEMMA NextType == TypeOK /\ [Next]_vars => TypeOK'
<1> SUFFICES ASSUME TypeOK, [Next]_vars
             PROVE  TypeOK'
  OBVIOUS
<1>1. CASE UNCHANGED vars
  BY <1>1 DEF vars, artifacts, TypeOK, ArtifactsTypeOK
<1>2. ASSUME NEW f \in Feature, GuardRefuses(f) \/ GuardAllows(f)
      PROVE  TypeOK'
  BY <1>2 DEF GuardRefuses, GuardAllows, artifacts, TypeOK, ArtifactsTypeOK
<1>3. ASSUME NEW c \in Code, EditCode(c)
      PROVE  TypeOK'
  <2>1. now \in Nat
    BY NowType
  <2>2. [body |-> now] \in CodeContent
    BY <2>1 DEF CodeContent
  <2>3. code' \in [Code -> GitFile(CodeContent)]
    BY <1>3, <2>1, <2>2, WrittenType, UpdatedFamilyType
    DEF EditCode, TypeOK, ArtifactsTypeOK
  <2> QED BY <1>3, <2>1, <2>3 DEF EditCode, Tick, TypeOK, ArtifactsTypeOK
<1>4. CASE SpoilTraces
  BY <1>4 DEF SpoilTraces, TypeOK, ArtifactsTypeOK
<1> QED
  BY <1>1, <1>2, <1>3, <1>4, SessionStepType, AgentStepType, GitStepType DEF Next

\* Every artifact, hook state and piece of history keeps its type, whatever
\* the commands, the agents and git do (forge-state.py and its writers).
THEOREM TypeCorrect == Spec => []TypeOK
BY InitType, NextType, PTL DEF Spec

----------------------------------------------------------------------------
(* What a session does to a spec.                                          *)

\* An edit of a spec whose body is new or what it was.
Edits(f, content) ==
  /\ EditSpec(f, content)
  /\ content.body = now \/ (Exists(spec[f]) /\ content.body = spec[f].now.body)

\* What a session does edits one spec, puts it back or leaves it alone.
LEMMA SessionWrites ==
  ASSUME TypeOK, NEW f \in Feature, SessionStep(f)
  PROVE  \/ \E content \in SpecContent : Edits(f, content)
         \/ Revert(f)
         \/ UNCHANGED <<artifacts, clock>>
<1>1. now \in Nat
  BY NowType
<1>2. Exists(spec[f]) => spec[f].now \in SpecContent
  BY SpecNowType
<1>3. ASSUME NEW status \in Status, NEW rigor \in Rigor, CreateSpec(f, status, rigor)
      PROVE  \E content \in SpecContent : Edits(f, content)
  BY <1>1, <1>3 DEF Edits, CreateSpec, SpecContent
<1>4. ASSUME NEW status \in Status, NEW rigor \in Rigor, FreeEdit(f, status, rigor)
      PROVE  \E content \in SpecContent : Edits(f, content)
  <2>1. LET content == [spec[f].now EXCEPT !.status = status, !.rigor = rigor] IN
        content \in SpecContent /\ content.body = spec[f].now.body
    BY <1>2, <1>4 DEF FreeEdit, SpecContent
  <2> QED BY <1>4, <2>1 DEF Edits, FreeEdit
<1>5. ASSUME NEW tier \in Tier, Promote(f, tier)
      PROVE  \E content \in SpecContent : Edits(f, content)
  BY <1>2, <1>5 DEF Edits, Promote, SpecContent, Rigor
<1>6. CASE EditBody(f)
  BY <1>1, <1>2, <1>6 DEF Edits, EditBody, SpecContent
<1>7. CASE Approve(f) \/ StartWork(f) \/ Close(f)
  BY <1>2, <1>7 DEF Edits, Approve, StartWork, Close, SpecContent, Status, OpenStatus, Terminal
<1>8. CASE Archive(f) \/ Supersede(f)
  <2>1. PICK status \in {"archived", "superseded"} : Retire(f, status)
    BY <1>8 DEF Archive, Supersede
  <2>2. LET content == [spec[f].now EXCEPT !.status = status, !.body = now] IN
        content \in SpecContent /\ content.body = now
    BY <1>1, <1>2, <2>1 DEF Retire, SpecContent, Status, Terminal
  <2> QED BY <2>1, <2>2 DEF Edits, Retire
<1>9. CASE CheckClose(f)
  BY <1>9 DEF CheckClose
<1> QED BY <1>3, <1>4, <1>5, <1>6, <1>7, <1>8, <1>9 DEF SessionStep

----------------------------------------------------------------------------
(* The invariant of the guard.  GuardHolds is not inductive: the hook says *)
(* nothing of a tracked spec that is not on disk, so that no such spec     *)
(* exists has to be kept along.                                            *)

Guarded(f) ==
  /\ Tracked(spec[f]) => Exists(spec[f])
  /\ hook[f] = "idle" => Standing(f)

IInv == \A f \in Feature : Guarded(f)

\* In the empty project there is nothing to guard.
LEMMA InitGuard == Init => IInv
BY DEF Init, IInv, Guarded, Standing, Tracked, NoFile

\* A spec that says what HEAD says stands.
LEMMA SameStands ==
  ASSUME TypeOK, NEW f \in Feature, Exists(spec[f]), Tracked(spec[f]),
         Frontmatter(spec[f].now) = Frontmatter(spec[f].head)
  PROVE  Standing(f)
<1>1. spec[f].now \in SpecContent /\ spec[f].head \in SpecContent
  BY DEF TypeOK, ArtifactsTypeOK, GitFile, Exists, Tracked
<1>2. /\ spec[f].now.status = spec[f].head.status
      /\ spec[f].now.rigor = spec[f].head.rigor
  BY DEF Frontmatter
<1>3. Rank(spec[f].now.rigor) \in Nat
  BY <1>1 DEF SpecContent, Rigor, Tier, Rank
<1> QED
  BY <1>2, <1>3 DEF Standing, LowersRigor, LeavesTerminal, ArrivesDone

\* A spec with nothing uncommitted is guarded, whatever the hook is doing.
LEMMA CleanGuarded ==
  ASSUME TypeOK, NEW f \in Feature, spec[f].now = spec[f].head
  PROVE  Guarded(f)
<1>1. CASE Tracked(spec[f])
  BY <1>1, SameStands DEF Guarded, Exists, Tracked
<1>2. CASE ~Tracked(spec[f])
  BY <1>2 DEF Guarded, Standing
<1> QED
  BY <1>1, <1>2

\* The same of the state after a step.
LEMMA CleanGuardedNext ==
  ASSUME TypeOK', NEW f \in Feature, spec'[f].now = spec'[f].head
  PROVE  Guarded(f)'
<1>1. (TypeOK /\ spec[f].now = spec[f].head => Guarded(f))'
  BY CleanGuarded, PTL
<1> QED
  BY <1>1

\* What the hook does not refuse is lawful after HEAD's version, and a close
\* it does not refuse meets the gate, provided that the gate can be evaluated.
LEMMA AllowedIsLawful ==
  ASSUME TypeOK, Evaluable, NEW f \in Feature, ~Refuses(f),
         Exists(spec[f]), Tracked(spec[f])
  PROVE  /\ ~LowersRigor(spec[f].head, spec[f].now)
         /\ ~LeavesTerminal(spec[f].head, spec[f].now)
         /\ ArrivesDone(spec[f].head, spec[f].now) => MeetsGate(f)
<1>1. CASE Frontmatter(spec[f].head) = Frontmatter(spec[f].now)
  <2>1. spec[f].now.status = spec[f].head.status
    BY <1>1 DEF Frontmatter
  <2> QED BY <1>1, <2>1, SameStands DEF Standing, ArrivesDone
<1>2. CASE Frontmatter(spec[f].head) # Frontmatter(spec[f].now)
  BY <1>2 DEF Refuses, MeetsGate
<1> QED
  BY <1>1, <1>2

\* A feature a step does not touch stays guarded.
LEMMA GuardedFrame ==
  ASSUME NEW f \in Feature, Guarded(f), spec'[f] = spec[f], hook'[f] = hook[f],
         f \in attested => f \in attested'
  PROVE  Guarded(f)'
BY DEF Guarded, Standing, Tracked, Exists

\* An edit leaves the feature to the hook, its spec on disk.
LEMMA EditSpecGuard ==
  ASSUME TypeOK, IInv, NEW f \in Feature, NEW content \in SpecContent,
         EditSpec(f, content)
  PROVE  IInv'
<1> SUFFICES ASSUME NEW g \in Feature
             PROVE  Guarded(g)'
  BY DEF IInv
<1>1. CASE g = f
  <2>1. spec'[f].now = content /\ content # Absent
    BY AbsentAssumption DEF EditSpec, Written, TypeOK, ArtifactsTypeOK, GitFile
  <2>2. hook'[f] = "pending"
    BY DEF EditSpec, TypeOK
  <2> QED BY <1>1, <2>1, <2>2 DEF Guarded, Exists
<1>2. CASE g # f
  <2>1. spec'[g] = spec[g] /\ hook'[g] = hook[g] /\ attested' = attested
    BY <1>2 DEF EditSpec, TypeOK, ArtifactsTypeOK
  <2> QED BY <2>1, GuardedFrame DEF IInv
<1> QED
  BY <1>1, <1>2

\* The edits and reverts of a session keep the invariant: an edit leaves the spec
\* to the hook, a revert goes back to HEAD.
LEMMA SessionStepGuard ==
  ASSUME TypeOK, IInv, NEW f \in Feature, SessionStep(f)
  PROVE  IInv'
<1>1. now \in Nat
  BY NowType
<1>2. ASSUME NEW status \in Status, NEW rigor \in Rigor, CreateSpec(f, status, rigor)
      PROVE  IInv'
  <2>1. [body |-> now, status |-> status, rigor |-> rigor] \in SpecContent
    BY <1>1, <1>2 DEF SpecContent
  <2> QED BY <1>2, <2>1, EditSpecGuard DEF CreateSpec
<1>3. ASSUME NEW status \in Status, NEW rigor \in Rigor, FreeEdit(f, status, rigor)
      PROVE  IInv'
  <2>1. [spec[f].now EXCEPT !.status = status, !.rigor = rigor] \in SpecContent
    BY <1>3, SpecNowType DEF FreeEdit, SpecContent
  <2> QED BY <1>3, <2>1, EditSpecGuard DEF FreeEdit
<1>4. ASSUME NEW tier \in Tier, Promote(f, tier)
      PROVE  IInv'
  <2>1. [spec[f].now EXCEPT !.rigor = tier] \in SpecContent
    BY <1>4, SpecNowType DEF Promote, SpecContent, Rigor
  <2> QED BY <1>4, <2>1, EditSpecGuard DEF Promote
<1>5. CASE EditBody(f)
  <2>1. [spec[f].now EXCEPT !.body = now] \in SpecContent
    BY <1>1, <1>5, SpecNowType DEF EditBody, SpecContent
  <2> QED BY <1>5, <2>1, EditSpecGuard DEF EditBody
<1>6. ASSUME NEW status \in Status,
             Exists(spec[f]),
             EditSpec(f, [spec[f].now EXCEPT !.status = status])
      PROVE  IInv'
  <2>1. [spec[f].now EXCEPT !.status = status] \in SpecContent
    BY <1>6, SpecNowType DEF SpecContent
  <2> QED BY <1>6, <2>1, EditSpecGuard
<1>7. CASE Approve(f) \/ StartWork(f)
  BY <1>6, <1>7 DEF Approve, StartWork, Status, OpenStatus
<1>8. CASE CheckClose(f)
  BY <1>8, GuardedFrame DEF CheckClose, artifacts, IInv
<1>9. CASE Close(f)
  BY <1>6, <1>9 DEF Close, Status, Terminal
<1>10. CASE Archive(f) \/ Supersede(f)
  <2>1. PICK status \in {"archived", "superseded"} : Retire(f, status)
    BY <1>10 DEF Archive, Supersede
  <2>2. [spec[f].now EXCEPT !.status = status, !.body = now] \in SpecContent
    BY <1>1, <2>1, SpecNowType DEF Retire, SpecContent, Status, Terminal
  <2> QED BY <2>1, <2>2, EditSpecGuard DEF Retire
<1>11. CASE Revert(f)
  <2> SUFFICES ASSUME NEW g \in Feature
               PROVE  Guarded(g)'
    BY DEF IInv
  <2>1. CASE g = f
    <3>1. spec'[f].now = spec[f].head /\ spec'[f].head = spec[f].head
      BY <1>11 DEF Revert, CheckedOut, TypeOK, ArtifactsTypeOK, GitFile
    <3>2. TypeOK'
      BY SessionStepType
    <3> QED BY <2>1, <3>1, <3>2, CleanGuardedNext
  <2>2. CASE g # f
    <3>1. spec'[g] = spec[g] /\ hook'[g] = hook[g]
      BY <1>11, <2>2 DEF Revert, TypeOK, ArtifactsTypeOK
    <3>2. g \in attested => g \in attested'
      BY <1>11, <2>2 DEF Revert
    <3> QED BY <3>1, <3>2, GuardedFrame DEF IInv
  <2> QED BY <2>1, <2>2
<1> QED
  BY <1>2, <1>3, <1>4, <1>5, <1>7, <1>8, <1>9, <1>10, <1>11 DEF SessionStep

\* A commit and a clone bring disk and HEAD together.  The commit is where
\* the invariant needs the session to obey: no refused edit is on disk then.
LEMMA GitStepGuard ==
  ASSUME ObeysGuard, TypeOK, IInv, GitStep
  PROVE  IInv'
<1> SUFFICES ASSUME NEW f \in Feature
             PROVE  Guarded(f)'
  BY DEF IInv
<1>1. TypeOK'
  BY GitStepType
<1>2. ASSUME NEW docs, NEW C, Commit(docs, C)
      PROVE  Guarded(f)'
  <2>1. spec'[f] = IF f \in docs["spec"] THEN Committed(spec[f], now) ELSE spec[f]
    BY <1>2 DEF Commit, CommittedIn, TypeOK, ArtifactsTypeOK
  <2>2. hook' = hook /\ attested' = attested
    BY <1>2 DEF Commit
  <2>3. CASE f \in docs["spec"] /\ IsDirty(spec[f])
    <3>1. spec'[f].now = spec[f].now /\ spec'[f].head = spec[f].now
      BY <2>1, <2>3 DEF Committed, TypeOK, ArtifactsTypeOK, GitFile
    <3> QED BY <1>1, <3>1, CleanGuardedNext
  <2>4. CASE ~(f \in docs["spec"] /\ IsDirty(spec[f]))
    <3>1. spec'[f] = spec[f]
      BY <2>1, <2>4 DEF Committed
    <3> QED BY <2>2, <3>1, GuardedFrame DEF IInv
  <2> QED BY <2>3, <2>4
<1>3. CASE Clone
  <2>1. spec'[f].now = spec[f].head /\ spec'[f].head = spec[f].head
    BY <1>3 DEF Clone, Tree, CheckedOut, TypeOK, ArtifactsTypeOK, GitFile
  <2> QED BY <1>1, <2>1, CleanGuardedNext
<1> QED
  BY <1>2, <1>3 DEF GitStep

\* The answers of the hook keep the invariant.
LEMMA HookStepGuard ==
  ASSUME Evaluable, TypeOK, IInv, NEW f \in Feature, GuardRefuses(f) \/ GuardAllows(f)
  PROVE  IInv'
<1> SUFFICES ASSUME NEW g \in Feature
             PROVE  Guarded(g)'
  BY DEF IInv
<1>1. spec' = spec
  BY DEF GuardRefuses, GuardAllows, artifacts
<1>2. CASE g # f
  <2>1. hook'[g] = hook[g] /\ (g \in attested => g \in attested')
    BY <1>2 DEF GuardRefuses, GuardAllows, TypeOK
  <2> QED BY <1>1, <2>1, GuardedFrame DEF IInv
<1>3. CASE g = f /\ GuardRefuses(f)
  <2>1. hook'[f] = "blocked"
    BY <1>3 DEF GuardRefuses, TypeOK
  <2> QED BY <1>1, <1>3, <2>1 DEF IInv, Guarded, Tracked, Exists
<1>4. CASE g = f /\ GuardAllows(f)
  <2>1. MeetsGate(f) => f \in attested'
    BY <1>4 DEF GuardAllows
  <2>2. Tracked(spec[f]) => Exists(spec[f])
    BY DEF IInv, Guarded
  <2>3. Tracked(spec[f]) =>
          /\ ~LowersRigor(spec[f].head, spec[f].now)
          /\ ~LeavesTerminal(spec[f].head, spec[f].now)
          /\ ArrivesDone(spec[f].head, spec[f].now) => f \in attested'
    BY <1>4, <2>1, <2>2, AllowedIsLawful DEF GuardAllows
  <2> QED BY <1>1, <1>4, <2>2, <2>3 DEF Guarded, Standing, Tracked, Exists
<1> QED
  BY <1>2, <1>3, <1>4

\* Every step keeps the invariant.
LEMMA NextGuard ==
  ASSUME ObeysGuard, Evaluable
  PROVE  TypeOK /\ IInv /\ [Next]_vars => IInv'
<1> SUFFICES ASSUME TypeOK, IInv, [Next]_vars
             PROVE  IInv'
  OBVIOUS
<1>1. ASSUME spec' = spec, hook' = hook, attested' = attested
      PROVE  IInv'
  BY <1>1, GuardedFrame DEF IInv
<1>2. CASE UNCHANGED vars
  BY <1>1, <1>2 DEF vars, artifacts
<1>3. ASSUME NEW f \in Feature, AgentStep(f)
      PROVE  IInv'
  BY <1>1, <1>3 DEF AgentStep, WritePlan, ApprovePlan, Resync, CheckTask, Evaluate, RecordRun
<1>4. ASSUME NEW c \in Code, EditCode(c)
      PROVE  IInv'
  BY <1>1, <1>4 DEF EditCode
<1>5. CASE SpoilTraces
  BY <1>1, <1>5 DEF SpoilTraces
<1> QED
  BY <1>2, <1>3, <1>4, <1>5, SessionStepGuard, HookStepGuard, GitStepGuard DEF Next

\* Whatever edits, commits and clones came before, a spec the hook has let
\* through is a lawful successor of the one at HEAD (post-spec-guard.sh, which
\* compares each edit with HEAD alone), when the session puts back what is
\* refused and the hook can evaluate the gate.
THEOREM GuardCorrect ==
  ASSUME ObeysGuard, Evaluable
  PROVE  Spec => []GuardHolds
<1>1. Init /\ TypeOK => IInv
  BY InitGuard
<1>2. TypeOK /\ IInv /\ [Next]_vars => IInv'
  BY NextGuard
<1>3. IInv => GuardHolds
  BY DEF IInv, Guarded, GuardHolds
<1> QED
  BY <1>1, <1>2, <1>3, TypeCorrect, InitType, PTL DEF Spec

----------------------------------------------------------------------------
(* The committed records implement FeatureRecord.                          *)

\* The committed records are records of FeatureRecord.
LEMMA RecordType ==
  ASSUME TypeOK
  PROVE  CommittedRecord \in [Feature -> Promise!Record \cup {NoRecord}]
<1> SUFFICES ASSUME NEW f \in Feature, Tracked(spec[f])
             PROVE  Frontmatter(spec[f].head) \in Promise!Record
  BY DEF CommittedRecord
<1>1. spec[f].head \in SpecContent
  BY DEF TypeOK, ArtifactsTypeOK, GitFile, Tracked
<1> QED
  BY <1>1 DEF Frontmatter, SpecContent, Promise!Record

\* No record of a feature is taken for a missing one.
LEMMA RecordIsNotNone ==
  ASSUME NEW content \in SpecContent
  PROVE  Frontmatter(content) # NoRecord
BY DEF Frontmatter, NoRecord, SpecContent, Status, OpenStatus, Terminal

\* A step that leaves every HEAD version alone changes what is attested only.
LEMMA HeadFrame ==
  ASSUME TypeOK', \A f \in Feature : spec'[f].head = spec[f].head
  PROVE  Promise!Attest
<1>1. CommittedRecord' = CommittedRecord
  BY DEF CommittedRecord, Tracked
<1>2. attested' \in SUBSET Feature
  BY DEF TypeOK
<1> QED
  BY <1>1, <1>2 DEF Promise!Attest

\* What a commit of guarded specs makes of the record of a feature is lawful.
LEMMA CommitIsLawful ==
  ASSUME ObeysGuard, TypeOK, IInv, NEW docs, NEW C, Commit(docs, C),
         NEW f \in Feature
  PROVE  Promise!Lawful(CommittedRecord[f], CommittedRecord'[f], f \in attested)
<1>1. hook[f] = "idle"
  BY DEF Commit, MayCommit, TypeOK
<1>2. spec'[f].head = spec[f].head \/ spec'[f].head = spec[f].now
  BY DEF Commit, CommittedIn, Committed, TypeOK, ArtifactsTypeOK, GitFile
<1>3. CASE spec'[f].head = spec[f].head
  BY <1>3 DEF CommittedRecord, Tracked, Promise!Lawful
<1>4. CASE ~Tracked(spec[f])
  BY <1>4 DEF CommittedRecord, Promise!Lawful
<1>5. CASE Tracked(spec[f]) /\ spec'[f].head = spec[f].now
  <2> DEFINE old == Frontmatter(spec[f].head)
             new == Frontmatter(spec[f].now)
  <2>1. Exists(spec[f]) /\ Standing(f)
    BY <1>1, <1>5 DEF IInv, Guarded
  <2>2. spec[f].head \in SpecContent /\ spec[f].now \in SpecContent
    BY <1>5, <2>1 DEF TypeOK, ArtifactsTypeOK, GitFile, Tracked, Exists
  <2>3. CommittedRecord[f] = old /\ CommittedRecord'[f] = new
    BY <1>5, <2>1 DEF CommittedRecord, Tracked, Exists
  <2>4. old # NoRecord /\ new # NoRecord
    BY <2>2, RecordIsNotNone
  <2>5. Rank(new.rigor) >= Rank(old.rigor)
    <3>1. \A r \in Rigor : Rank(r) \in Nat
      BY DEF Rank, Rigor, Tier
    <3> QED BY <1>5, <2>1, <2>2, <3>1
            DEF Standing, LowersRigor, Frontmatter, SpecContent
  <2>6. /\ old.status \in {"archived", "superseded"} => new.status = old.status
        /\ old.status = "done" => new.status \in {"done", "archived", "superseded"}
        /\ new.status = "done" /\ old.status # "done" => f \in attested
    BY <1>5, <2>1 DEF Standing, LeavesTerminal, ArrivesDone, Frontmatter
  <2> QED BY <2>3, <2>4, <2>5, <2>6 DEF Promise!Lawful
<1> QED
  BY <1>2, <1>3, <1>4, <1>5

\* Every step is a step of FeatureRecord or leaves it alone.
LEMMA NextRefines ==
  ASSUME ObeysGuard
  PROVE  TypeOK /\ TypeOK' /\ IInv /\ [Next]_vars
           => [Promise!RecordNext]_Promise!recordVars
<1> SUFFICES ASSUME TypeOK, TypeOK', IInv, [Next]_vars
             PROVE  [Promise!RecordNext]_Promise!recordVars
  OBVIOUS
<1>1. ASSUME \A f \in Feature : spec'[f].head = spec[f].head
      PROVE  Promise!RecordNext
  BY <1>1, HeadFrame DEF Promise!RecordNext
<1>2. ASSUME spec' = spec
      PROVE  Promise!RecordNext
  BY <1>1, <1>2
<1>3. ASSUME NEW f \in Feature, NEW content, EditSpec(f, content)
      PROVE  Promise!RecordNext
  <2>1. \A g \in Feature : spec'[g].head = spec[g].head
    BY <1>3 DEF EditSpec, Written, TypeOK, ArtifactsTypeOK, GitFile
  <2> QED BY <1>1, <2>1
<1>4. ASSUME NEW f \in Feature, SessionStep(f)
      PROVE  Promise!RecordNext
  <2>1. CASE CheckClose(f)
    BY <1>2, <2>1 DEF CheckClose, artifacts
  <2>2. CASE Revert(f)
    <3>1. \A g \in Feature : spec'[g].head = spec[g].head
      BY <2>2 DEF Revert, CheckedOut, TypeOK, ArtifactsTypeOK, GitFile
    <3> QED BY <1>1, <3>1
  <2>3. CASE \E content : EditSpec(f, content)
    BY <1>3, <2>3
  <2> QED BY <1>4, <2>1, <2>2, <2>3
          DEF SessionStep, CreateSpec, FreeEdit, Promote, EditBody, Approve,
              StartWork, Close, Archive, Supersede, Retire
<1>5. ASSUME NEW f \in Feature, AgentStep(f) \/ GuardRefuses(f) \/ GuardAllows(f)
      PROVE  Promise!RecordNext
  BY <1>2, <1>5 DEF AgentStep, WritePlan, ApprovePlan, Resync, CheckTask, Evaluate, RecordRun,
                    GuardRefuses, GuardAllows, artifacts
<1>6. CASE (\E c \in Code : EditCode(c)) \/ SpoilTraces \/ UNCHANGED vars
  BY <1>2, <1>6 DEF EditCode, SpoilTraces, vars, artifacts
<1>7. ASSUME NEW docs, NEW C, Commit(docs, C)
      PROVE  Promise!RecordNext
  <2>1. (CommittedRecord \in [Feature -> Promise!Record \cup {NoRecord}])'
    BY RecordType, PTL
  <2>2. \A f \in Feature :
          Promise!Lawful(CommittedRecord[f], CommittedRecord'[f], f \in attested)
    BY <1>7, CommitIsLawful
  <2>3. attested' = attested
    BY <1>7 DEF Commit
  <2> QED BY <2>1, <2>2, <2>3 DEF Promise!RecordNext, Promise!Publish
<1>8. CASE Clone
  <2>1. ASSUME NEW f \in Feature
        PROVE  spec'[f].head = spec[f].head
    <3>1. spec'[f] = CheckedOut(spec[f], now)
      BY <1>8 DEF Clone, Tree, TypeOK, ArtifactsTypeOK
    <3> QED BY <3>1 DEF CheckedOut, TypeOK, ArtifactsTypeOK, GitFile
  <2> QED BY <1>1, <2>1
<1> QED
  BY <1>4, <1>5, <1>6, <1>7, <1>8 DEF Next, GitStep

\* The committed record of every feature follows the abstract lifecycle: no
\* commit lowers a tier, reopens a closed feature or closes one whose gate was
\* not met when the hook let the close through (post-spec-guard.sh, done.md).
THEOREM RecordRefined ==
  ASSUME ObeysGuard, Evaluable
  PROVE  Spec => RecordImplemented
<1>1. Init => Promise!RecordInit
  <2>1. Init => attested = {}
    BY DEF Init
  <2> QED BY <2>1, InitType, RecordType DEF Promise!RecordInit
<1>2. Init => IInv
  BY InitGuard
<1>3. TypeOK /\ IInv /\ [Next]_vars => IInv'
  BY NextGuard
<1>4. TypeOK /\ TypeOK' /\ IInv /\ [Next]_vars
        => [Promise!RecordNext]_Promise!recordVars
  BY NextRefines
<1> QED
  BY <1>1, <1>2, <1>3, <1>4, TypeCorrect, PTL
  DEF Spec, RecordImplemented, Promise!RecordSpec
=============================================================================
