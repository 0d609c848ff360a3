------------------------- MODULE StopVerify_proofs -------------------------
(***************************************************************************)
(* What holds of the stop hook for every set of features and every number  *)
(* of edits, commits and pushes.                                           *)
(***************************************************************************)
EXTENDS StopVerify, SpecLifecycle_proofs

----------------------------------------------------------------------------
(* The composition with the session is a lifecycle.                        *)

\* A step of the session, its hooks or the remote is a step of the lifecycle or
\* leaves it alone.
LEMMA StopNextIsNext == [StopNext]_allVars => [Next]_vars
<1> SUFFICES ASSUME [StopNext]_allVars PROVE [Next]_vars
  OBVIOUS
<1>1. ASSUME NEW f \in Feature, Work(f) PROVE Next
  BY <1>1 DEF Work, Next, AgentStep
<1>2. ASSUME NEW f \in Feature, Guard(f) PROVE Next
  BY <1>2 DEF Guard, Next
<1>3. CASE CommitDocs
  <2>1. PICK S \in SUBSET DirtyIn(spec), P \in SUBSET DirtyIn(plan),
             T \in SUBSET DirtyIn(tasks) :
          /\ S \cup P \cup T # {}
          /\ Commit([spec |-> S, plan |-> P, tasks |-> T, report |-> {}], {})
    BY <1>3 DEF CommitDocs
  <2>2. {} \in SUBSET DirtyIn(report) /\ {} \in SUBSET DirtyIn(code)
    OBVIOUS
  <2> QED BY <2>1, <2>2 DEF GitStep, Next
<1>4. CASE Push \/ Stop \/ Prompt \/ UNCHANGED allVars
  BY <1>4 DEF Push, Stop, Prompt, allVars
<1> QED BY <1>1, <1>2, <1>3, <1>4 DEF StopNext

\* stop-verify.sh beside post-spec-guard.sh: what is proved of the lifecycle holds
\* of every session that is sent back.
THEOREM SessionsAreLifecycles == StopSpec => Spec
BY StopNextIsNext, PTL DEF StopSpec, Spec

----------------------------------------------------------------------------
(* What a step leaves of the documents, and of the baseline.               *)

\* A document on disk, tracked or at the merge base does not vanish.
Kept(file, at) ==
  /\ Tracked(file) => Exists(file)
  /\ at # Absent => Tracked(file)

\* The merge base names what HEAD held when the branch left it.
BaseInv ==
  /\ TypeOK
  /\ ahead \in BOOLEAN
  /\ base \in [spec: [Feature -> SpecContent \cup {Absent}],
               plan: [Feature -> PlanContent \cup {Absent}],
               tasks: [Feature -> TasksContent \cup {Absent}]]
  /\ ~ahead => base = HeadTree
  /\ \A f \in Feature : /\ Kept(spec[f], base.spec[f]) /\ Kept(plan[f], base.plan[f])
                        /\ Kept(tasks[f], base.tasks[f])

\* One document across a step that is no push: it is written, put back, committed
\* or left alone.
Touched(file, new) ==
  \/ new = file
  \/ Exists(new) /\ new.head = file.head /\ new.commit = file.commit
  \/ new.now = file.head /\ new.head = file.head /\ new.commit = file.commit
  \/ new.now = file.now /\ new.head = file.now /\ new.commit = now

\* A write touches a document and moves no head.
LEMMA WriteTouches ==
  ASSUME NEW Content, NEW file \in GitFile(Content), NEW content, content # Absent, NEW t
  PROVE  /\ Touched(file, Written(file, content, t))
         /\ Written(file, content, t).head = file.head
BY DEF Written, Touched, Exists, GitFile

\* A commit touches what it commits.
LEMMA CommitTouches ==
  ASSUME NEW Content, NEW Name, NEW files \in [Name -> GitFile(Content)], NEW picked,
         NEW new, new = CommittedIn(files, picked, now), NEW g \in Name
  PROVE  Touched(files[g], new[g])
<1>1. new[g] = IF g \in picked THEN Committed(files[g], now) ELSE files[g]
  BY DEF CommittedIn
<1> QED BY <1>1 DEF Committed, Touched, GitFile

\* It writes nothing to disk, and moves the heads of what is dirty alone.
LEMMA CommitKeeps ==
  ASSUME NEW Content, NEW Name, NEW files \in [Name -> GitFile(Content)], NEW picked, NEW t,
         NEW new, new = CommittedIn(files, picked, t), NEW g \in Name
  PROVE  /\ new[g].now = files[g].now
         /\ files[g].now = files[g].head => new[g].head = files[g].head
<1>1. new[g] = IF g \in picked THEN Committed(files[g], t) ELSE files[g]
  BY DEF CommittedIn
<1> QED BY <1>1 DEF Committed, IsDirty, GitFile

\* How old a task list is: every write makes it older.
Age(content) ==
  IF content = Absent THEN -1 ELSE content.body.synced + content.body.checked

\* A re-sync and a tick write a task list; on a day of its own each makes it older.
LEMMA TaskWrites ==
  ASSUME TypeOK, NEW f \in Feature,
         CheckTask(f) \/ \E total \in 0..MaxTasks : Resync(f, total)
  PROVE  \E content \in TasksContent :
           /\ tasks' = [tasks EXCEPT ![f] = Written(tasks[f], content, now)]
           /\ /\ DayLength = 1
              /\ Exists(tasks[f]) => tasks[f].now.body.synced <= clock
              => Age(tasks[f].now) < Age(content) /\ content.body.synced <= now
<1>1. now \in Nat /\ clock \in Nat /\ now = clock + 1 /\ MaxTasks \in Nat /\ Day(now) \in Nat
  BY NowType, ForgeAssumption, LifecycleAssumption DEF Day, TypeOK, now
<1>2. DayLength = 1 => Day(now) = now
  BY <1>1 DEF Day
<1>3. Exists(tasks[f]) => tasks[f].now \in TasksContent
  BY TasksNowType
<1>4. Age(Absent) = -1 /\ \A c \in TasksContent : Age(c) = c.body.synced + c.body.checked
  BY AbsentAssumption DEF Age
<1>5. ~Exists(tasks[f]) => tasks[f].now = Absent
  BY DEF Exists
<1>6. CASE CheckTask(f)
  <2> DEFINE list == tasks[f].now.body
             content == [body |-> [list EXCEPT !.checked = list.checked + 1]]
  <2>1. list \in TaskList /\ list.checked < list.total
    BY <1>3, <1>6 DEF CheckTask, TasksContent
  <2>2. content \in TasksContent
    BY <1>1, <2>1 DEF TaskList, TasksContent
  <2>3. content.body.synced = list.synced /\ content.body.checked = list.checked + 1
    BY <2>1 DEF TaskList
  <2>4. Exists(tasks[f]) /\ tasks' = [tasks EXCEPT ![f] = Written(tasks[f], content, now)]
    BY <1>6 DEF CheckTask
  <2>5. Age(tasks[f].now) < Age(content)
    BY <1>3, <1>4, <2>1, <2>2, <2>3, <2>4 DEF TaskList
  <2>6. (Exists(tasks[f]) /\ list.synced <= clock) => content.body.synced <= now
    BY <1>1, <2>1, <2>3 DEF TaskList
  <2> HIDE DEF content
  <2> QED BY <2>2, <2>4, <2>5, <2>6
<1>7. ASSUME NEW total \in 0..MaxTasks, Resync(f, total)
      PROVE  \E content \in TasksContent :
               /\ tasks' = [tasks EXCEPT ![f] = Written(tasks[f], content, now)]
               /\ /\ DayLength = 1
                  /\ Exists(tasks[f]) => tasks[f].now.body.synced <= clock
                  => Age(tasks[f].now) < Age(content) /\ content.body.synced <= now
  <2> DEFINE content ==
               [body |-> [synced |-> Day(now), total |-> total, checked |-> Checked(f)]]
  <2>1. Checked(f) \in 0..MaxTasks /\ (Exists(tasks[f]) => Checked(f) = tasks[f].now.body.checked)
    BY <1>1, <1>3 DEF Checked, TasksContent, TaskList
  <2>2. content \in TasksContent /\ content.body.synced = Day(now) /\ content.body.checked = Checked(f)
    BY <1>1, <2>1 DEF TaskList, TasksContent
  <2>3. tasks' = [tasks EXCEPT ![f] = Written(tasks[f], content, now)]
    BY <1>7 DEF Resync
  <2>4. Exists(tasks[f]) => tasks[f].now.body.synced \in Nat /\ tasks[f].now.body.checked \in Nat
    BY <1>3, <1>1 DEF TasksContent, TaskList
  <2> HIDE DEF content
  <2>5. ASSUME DayLength = 1, Exists(tasks[f]) => tasks[f].now.body.synced <= clock
        PROVE  Age(tasks[f].now) < Age(content) /\ content.body.synced <= now
    <3>1. Age(content) = now + Checked(f)
      BY <1>2, <1>4, <2>2, <2>5
    <3>2. Exists(tasks[f]) => Age(tasks[f].now) = tasks[f].now.body.synced + Checked(f)
      BY <1>3, <1>4, <2>1
    <3> QED BY <1>1, <1>2, <1>4, <1>5, <2>1, <2>2, <2>4, <2>5, <3>1, <3>2
  <2> QED BY <2>2, <2>3, <2>5
<1> QED BY <1>6, <1>7

\* Work and a commit touch documents; the merge base moves with a push alone, and
\* HEAD with a commit alone.
LEMMA StepTouches ==
  ASSUME BaseInv, [StopNext]_allVars, ~Push
  PROVE  /\ base' = base /\ ahead' \in BOOLEAN /\ (ahead => ahead')
         /\ clock' \in {clock, now}
         /\ ~ahead' => HeadTree' = HeadTree
         /\ ~CommitDocs => ahead' = ahead
         /\ \A g \in Feature : /\ Touched(spec[g], spec'[g])
                               /\ Touched(plan[g], plan'[g])
                               /\ Touched(tasks[g], tasks'[g])
<1> USE DEF BaseInv
<1> DEFINE AllTouched ==
             \A g \in Feature : /\ Touched(spec[g], spec'[g])
                                /\ Touched(plan[g], plan'[g])
                                /\ Touched(tasks[g], tasks'[g])
           SameHeads ==
             \A g \in Feature : /\ spec'[g].head = spec[g].head
                                /\ plan'[g].head = plan[g].head
                                /\ tasks'[g].head = tasks[g].head
<1>0. now \in Nat /\ MaxTasks \in Nat
  BY NowType, ForgeAssumption
<1>h. SameHeads => HeadTree' = HeadTree
  BY DEF HeadTree
<1>1. ASSUME NEW f \in Feature, Work(f)
      PROVE  AllTouched /\ SameHeads /\ clock' \in {clock, now}
  <2>1. CASE SessionStep(f)
    <3>1. ASSUME NEW content \in SpecContent, EditSpec(f, content)
          PROVE  AllTouched /\ SameHeads /\ clock' \in {clock, now}
      <4>1. content # Absent
        BY AbsentAssumption
      <4>2. \A g \in Feature : Touched(spec[g], spec'[g]) /\ spec'[g].head = spec[g].head
        <5>1. spec' = [spec EXCEPT ![f] = Written(spec[f], content, now)]
          BY <3>1 DEF EditSpec
        <5>2. spec \in [Feature -> GitFile(SpecContent)]
          BY DEF TypeOK, ArtifactsTypeOK
        <5>3. \A g \in Feature :
                spec'[g] = IF g = f THEN Written(spec[f], content, now) ELSE spec[g]
          BY <5>1, <5>2
        <5> QED BY <4>1, <5>2, <5>3, WriteTouches DEF Touched
      <4> QED BY <3>1, <4>2 DEF EditSpec, Tick, Touched
    <3>2. CASE Revert(f)
      BY <3>2 DEF Revert, CheckedOut, Touched, Tick, TypeOK, ArtifactsTypeOK, GitFile
    <3>3. CASE UNCHANGED <<artifacts, clock>>
      BY <3>3 DEF artifacts, Touched
    <3> QED BY <2>1, <3>1, <3>2, <3>3, SessionWrites DEF Edits
  <2>2. CASE WritePlan(f)
    <3> DEFINE status == IF Exists(plan[f]) THEN plan[f].now.status ELSE "draft"
    <3>1. [body |-> now, status |-> status] \in PlanContent
      BY <1>0, PlanNowType DEF PlanContent
    <3>2. [body |-> now, status |-> status] # Absent
      BY <3>1, AbsentAssumption
    <3>3. \A g \in Feature : Touched(plan[g], plan'[g]) /\ plan'[g].head = plan[g].head
      <4>1. plan' = [plan EXCEPT ![f] =
                       Written(plan[f], [body |-> now, status |-> status], now)]
        BY <2>2 DEF WritePlan
      <4>2. plan \in [Feature -> GitFile(PlanContent)]
        BY DEF TypeOK, ArtifactsTypeOK
      <4>3. \A g \in Feature :
              plan'[g] = IF g = f
                         THEN Written(plan[f], [body |-> now, status |-> status], now)
                         ELSE plan[g]
        BY <4>1, <4>2
      <4> QED BY <3>2, <4>2, <4>3, WriteTouches DEF Touched
    <3> QED BY <2>2, <3>3 DEF WritePlan, Tick, Touched
  <2>3. CASE ApprovePlan(f)
    <3>1. [plan[f].now EXCEPT !.status = "approved"] \in PlanContent
      BY <2>3, PlanNowType DEF ApprovePlan, PlanContent
    <3>2. [plan[f].now EXCEPT !.status = "approved"] # Absent
      BY <3>1, AbsentAssumption
    <3>3. \A g \in Feature : Touched(plan[g], plan'[g]) /\ plan'[g].head = plan[g].head
      <4>1. plan' = [plan EXCEPT ![f] =
                       Written(plan[f], [plan[f].now EXCEPT !.status = "approved"], now)]
        BY <2>3 DEF ApprovePlan
      <4>2. plan \in [Feature -> GitFile(PlanContent)]
        BY DEF TypeOK, ArtifactsTypeOK
      <4>3. \A g \in Feature :
              plan'[g] = IF g = f
                         THEN Written(plan[f], [plan[f].now EXCEPT !.status = "approved"], now)
                         ELSE plan[g]
        BY <4>1, <4>2
      <4> QED BY <3>2, <4>2, <4>3, WriteTouches DEF Touched
    <3> QED BY <2>3, <3>3 DEF ApprovePlan, Tick, Touched
  <2>4. CASE CheckTask(f) \/ \E total \in 0..MaxTasks : Resync(f, total)
    <3>1. PICK content \in TasksContent : tasks' = [tasks EXCEPT ![f] = Written(tasks[f], content, now)]
      BY <2>4, TaskWrites
    <3>2. \A g \in Feature : Touched(tasks[g], tasks'[g]) /\ tasks'[g].head = tasks[g].head
      <4>1. content # Absent /\ tasks \in [Feature -> GitFile(TasksContent)]
        BY AbsentAssumption DEF TypeOK, ArtifactsTypeOK
      <4>2. \A g \in Feature :
              tasks'[g] = IF g = f THEN Written(tasks[f], content, now) ELSE tasks[g]
        BY <3>1, <4>1
      <4> QED BY <4>1, <4>2, WriteTouches DEF Touched
    <3> QED BY <2>4, <3>2 DEF CheckTask, Resync, Tick, Touched
  <2> QED BY <1>1, <2>1, <2>2, <2>3, <2>4 DEF Work
<1>2. CASE CommitDocs
  <2>1. PICK S, P, T : Commit([spec |-> S, plan |-> P, tasks |-> T, report |-> {}], {})
    BY <1>2 DEF CommitDocs
  <2>2. AllTouched /\ clock' = now
    BY <2>1, CommitTouches DEF Commit, Tick, TypeOK, ArtifactsTypeOK
  <2> QED BY <1>2, <2>2 DEF CommitDocs
<1>3. CASE \E f \in Feature : Guard(f)
  BY <1>3, <1>h DEF Guard, GuardRefuses, GuardAllows, artifacts, stopVars, Touched
<1>4. CASE Stop \/ Prompt \/ UNCHANGED allVars
  BY <1>4, <1>h DEF Stop, Prompt, allVars, vars, artifacts, stopVars, Touched
<1>5. CASE \E f \in Feature : Work(f)
  BY <1>1, <1>5, <1>h DEF Work, stopVars
<1> QED BY <1>2, <1>3, <1>4, <1>5 DEF StopNext

\* What a push does.
LEMMA PushMoves ==
  ASSUME Push
  PROVE  /\ UNCHANGED <<spec, plan, tasks, clock>> /\ HeadTree' = HeadTree
         /\ base' = HeadTree /\ ahead' = FALSE
BY DEF Push, vars, artifacts, HeadTree

\* HEAD's tree is a tree of documents.
LEMMA HeadTreeType ==
  ASSUME TypeOK
  PROVE  /\ HeadTree \in [spec: [Feature -> SpecContent \cup {Absent}],
                          plan: [Feature -> PlanContent \cup {Absent}],
                          tasks: [Feature -> TasksContent \cup {Absent}]]
         /\ \A f \in Feature : /\ HeadTree.spec[f] = spec[f].head
                               /\ HeadTree.plan[f] = plan[f].head
                               /\ HeadTree.tasks[f] = tasks[f].head
BY DEF TypeOK, ArtifactsTypeOK, GitFile, HeadTree

\* A document that is touched does not vanish.
LEMMA TouchKeeps ==
  ASSUME NEW file, NEW new, NEW at, Kept(file, at), Touched(file, new)
  PROVE  Kept(new, at)
BY DEF Kept, Touched, Exists, Tracked

\* Every step keeps the merge base what it is.
LEMMA BaseStep == BaseInv /\ [StopNext]_allVars => BaseInv'
<1> SUFFICES ASSUME BaseInv, [StopNext]_allVars PROVE BaseInv'
  OBVIOUS
<1>1. TypeOK'
  BY StopNextIsNext, NextType DEF BaseInv
<1>2. CASE Push
  <2>1. \A f \in Feature : /\ Kept(spec[f], HeadTree.spec[f]) /\ Kept(plan[f], HeadTree.plan[f])
                           /\ Kept(tasks[f], HeadTree.tasks[f])
    BY HeadTreeType DEF BaseInv, Kept, Tracked
  <2> QED BY <1>1, <1>2, <2>1, PushMoves, HeadTreeType DEF BaseInv
<1>3. CASE ~Push
  <2>1. base' = base /\ ahead' \in BOOLEAN /\ (ahead => ahead') /\ (~ahead' => HeadTree' = HeadTree)
    BY <1>3, StepTouches
  <2>2. \A f \in Feature : /\ Kept(spec'[f], base.spec[f]) /\ Kept(plan'[f], base.plan[f])
                           /\ Kept(tasks'[f], base.tasks[f])
    BY <1>3, StepTouches, TouchKeeps DEF BaseInv
  <2> QED BY <1>1, <2>1, <2>2 DEF BaseInv
<1> QED BY <1>2, <1>3

\* At the start nothing is committed and nothing is ahead.
LEMMA BaseInit == Init /\ StopInit => BaseInv
<1> SUFFICES ASSUME Init, StopInit PROVE BaseInv
  OBVIOUS
<1>1. TypeOK
  BY InitType
<1>2. \A f \in Feature : /\ Kept(spec[f], HeadTree.spec[f]) /\ Kept(plan[f], HeadTree.plan[f])
                         /\ Kept(tasks[f], HeadTree.tasks[f])
  BY <1>1, HeadTreeType DEF Init, NoFile, Kept, Tracked
<1> QED BY <1>1, <1>2, HeadTreeType DEF StopInit, BaseInv

\* It holds in every behaviour.
LEMMA BaseInvariant == StopSpec => []BaseInv
BY BaseInit, BaseStep, PTL DEF StopSpec

----------------------------------------------------------------------------
(* A block survives commits, bookkeeping brings none.                      *)

\* While no branch is ahead the merge base holds HEAD's documents.
LEMMA NotAhead ==
  ASSUME BaseInv, ~ahead, NEW f \in Feature
  PROVE  /\ base.spec[f] = spec[f].head /\ base.plan[f] = plan[f].head
         /\ base.tasks[f] = tasks[f].head
         /\ base["spec"][f] = spec[f].head /\ base["plan"][f] = plan[f].head
         /\ base["tasks"][f] = tasks[f].head
BY HeadTreeType DEF BaseInv

\* A change that is no bookkeeping differs from the merge base.
LEMMA ChangedFromBase ==
  ASSUME BaseInv, NEW f \in Feature, NEW kind \in {"spec", "plan"},
         Changed(kind, f), ~LifecycleOnly(kind, f)
  PROVE  /\ File(kind, f).now # base[kind][f]
         /\ Exists(File(kind, f)) /\ base[kind][f] # Absent =>
              base[kind][f].body # File(kind, f).now.body
<1>1. Kept(File(kind, f), base[kind][f])
  BY DEF BaseInv, File
<1>2. CASE ahead
  BY <1>1, <1>2 DEF Changed, LifecycleOnly, IsDirty, Kept, Exists, Tracked
<1>3. CASE ~ahead
  BY <1>3, NotAhead DEF Changed, LifecycleOnly, IsDirty, File
<1> QED BY <1>2, <1>3 DEF BaseInv

\* Of the next state, for a spec.
ApartFromBase(f) ==
  /\ File("spec", f).now # base["spec"][f]
  /\ Exists(File("spec", f)) /\ base["spec"][f] # Absent =>
       base["spec"][f].body # File("spec", f).now.body

\* A spec that changes in a step, by more than bookkeeping, then differs too.
LEMMA ChangedFromBaseNext ==
  ASSUME NEW f \in Feature
  PROVE  (BaseInv /\ Changed("spec", f) /\ ~LifecycleOnly("spec", f) => ApartFromBase(f))'
<1>1. BaseInv /\ Changed("spec", f) /\ ~LifecycleOnly("spec", f) => ApartFromBase(f)
  BY ChangedFromBase DEF ApartFromBase
<1> QED BY <1>1, PTL

\* Unless a task list changed, every task list is that of the merge base.
LEMMA TasksAtBase ==
  ASSUME BaseInv, ~TasksChanged, NEW f \in Feature
  PROVE  tasks[f].now = base["tasks"][f] /\ tasks[f].now = tasks[f].head
<1>1. ~IsDirty(tasks[f]) /\ (ahead => tasks[f].now = base["tasks"][f])
  BY DEF TasksChanged, Changed, File
<1> QED BY <1>1, NotAhead DEF IsDirty

\* stop-verify.sh: what the hook blocks on it still blocks on when the agents have
\* committed, in any mixture.
THEOREM BlocksSurviveCommits == StopSpec => BlockSurvivesCommit
<1> DEFINE Survives == \A f \in Feature : CommitDocs /\ Blocks(f) => Blocks(f)'
<1>1. BaseInv /\ [StopNext]_allVars => [Survives]_allVars
  <2> SUFFICES ASSUME BaseInv, CommitDocs, NEW f \in Feature, Blocks(f)
               PROVE  Blocks(f)'
    OBVIOUS
  <2>1. PICK S, P, T : Commit([spec |-> S, plan |-> P, tasks |-> T, report |-> {}], {})
    BY DEF CommitDocs
  <2>2. ahead' = TRUE /\ base' = base
    BY DEF CommitDocs
  <2>3. \A g \in Feature : /\ spec'[g].now = spec[g].now /\ plan'[g].now = plan[g].now
                           /\ tasks'[g].now = tasks[g].now
                           /\ tasks[g].now = tasks[g].head => tasks'[g].head = tasks[g].head
    BY <2>1, CommitKeeps DEF Commit, BaseInv, TypeOK, ArtifactsTypeOK
  <2>4. PICK kind \in {"spec", "plan"} : Changed(kind, f) /\ ~LifecycleOnly(kind, f)
    BY DEF Blocks, SpecsChanged
  <2>5. /\ File(kind, f).now # base[kind][f]
        /\ Exists(File(kind, f)) /\ base[kind][f] # Absent =>
             base[kind][f].body # File(kind, f).now.body
    BY <2>4, ChangedFromBase
  <2>6. (File(kind, f)').now = File(kind, f).now
    <3>1. /\ File("spec", f) = spec[f] /\ File("spec", f)' = spec'[f]
          /\ File("plan", f) = plan[f] /\ File("plan", f)' = plan'[f]
      BY DEF File
    <3>2. CASE kind = "spec"
      BY <2>3, <3>1, <3>2, Zenon
    <3>3. CASE kind = "plan"
      BY <2>3, <3>1, <3>3, Zenon
    <3> QED BY <3>2, <3>3
  <2>7. SpecsChanged(f)'
    <3>1. Changed(kind, f)' /\ ~LifecycleOnly(kind, f)'
      BY <2>2, <2>5, <2>6 DEF Changed, LifecycleOnly, Exists
    <3> QED BY <3>1 DEF Blocks, SpecsChanged
  <2>8. ~TasksChanged'
    <3>1. ASSUME NEW g \in Feature PROVE ~Changed("tasks", g)'
      <4>1. tasks[g].now = base["tasks"][g] /\ tasks[g].now = tasks[g].head
        BY TasksAtBase DEF Blocks
      <4>2. tasks'[g].now = base'["tasks"][g] /\ tasks'[g].now = tasks'[g].head
        BY <2>2, <2>3, <4>1, Zenon
      <4>3. File("tasks", g)' = tasks'[g]
        BY DEF File
      <4> QED BY <4>2, <4>3, Zenon DEF Changed, IsDirty
    <3> QED BY <3>1, Zenon DEF TasksChanged
  <2>9. Exists(tasks[f])'
    BY <2>3, Zenon DEF Blocks, Exists
  <2> QED BY <2>7, <2>8, <2>9 DEF Blocks
<1> QED BY <1>1, BaseInvariant, PTL DEF StopSpec, BlockSurvivesCommit

\* stop-verify.sh: an edit that leaves the body of the spec and the plan alone, a
\* status or a tier of the spec, its approval included, brings no block.
THEOREM BookkeepingBlocksNothing == StopSpec => BookkeepingNeverBlocks
<1> DEFINE Silent == \A f \in Feature :
             Exists(spec[f]) /\ SameBodies(f) /\ ~Push => (Blocks(f)' => Blocks(f))
<1>1. BaseInv /\ [StopNext]_allVars => [Silent]_allVars
  <2> SUFFICES ASSUME BaseInv, [StopNext]_allVars, NEW f \in Feature,
                      Exists(spec[f]), SameBodies(f), ~Push, Blocks(f)'
               PROVE  Blocks(f)
    OBVIOUS
  <2>1. base' = base /\ (ahead' = ahead \/ ~ahead)
    BY StepTouches DEF BaseInv
  <2>2. ~TasksChanged
    <3>1. ASSUME NEW g \in Feature PROVE ~Changed("tasks", g)
      <4>1. ~Changed("tasks", g)'
        BY DEF Blocks, TasksChanged
      <4> QED BY <2>1, <4>1, NotAhead DEF Changed, IsDirty, File, SameBodies
    <3> QED BY <3>1 DEF TasksChanged
  <2>3. PICK kind \in {"spec", "plan"} : Changed(kind, f)' /\ ~LifecycleOnly(kind, f)'
    BY DEF Blocks, SpecsChanged
  <2>4. f \notin Spike /\ Exists(tasks[f])
    BY DEF Blocks, SpecsChanged, SameBodies
  <2>5. CASE kind = "plan"
    <3>1. Changed("plan", f) /\ ~LifecycleOnly("plan", f)
      BY <2>1, <2>3, <2>5, NotAhead DEF Changed, LifecycleOnly, IsDirty, File, SameBodies
    <3> QED BY <2>2, <2>4, <3>1 DEF Blocks, SpecsChanged
  <2>6. CASE kind = "spec"
    <3> DEFINE at == base["spec"][f]
    <3>1. (BaseInv /\ Changed("spec", f) /\ ~LifecycleOnly("spec", f) => ApartFromBase(f))'
      BY ChangedFromBaseNext
    <3>2. File("spec", f) = spec[f] /\ File("spec", f)' = spec'[f]
      BY DEF File
    <3>3. /\ spec'[f].now # at
          /\ Exists(spec'[f]) /\ at # Absent => at.body # spec'[f].now.body
      BY <2>1, <2>3, <2>6, <3>1, <3>2, BaseStep DEF ApartFromBase, Exists
    <3>4. Exists(spec'[f])
      <4>1. Kept(spec'[f], at)
        BY <2>1, BaseStep DEF BaseInv
      <4> QED BY <3>3, <4>1 DEF Kept, Exists
    <3>5. at = Absent \/ at.body # spec[f].now.body
      BY <3>3, <3>4 DEF SameBodies
    <3>6. ahead \/ at = spec[f].head
      BY NotAhead
    <3>7. ~LifecycleOnly("spec", f)
      BY <3>2, <3>5, <3>6 DEF LifecycleOnly
    <3>8. Changed("spec", f)
      BY <3>2, <3>5, <3>6 DEF Changed, IsDirty, Exists
    <3> QED BY <2>2, <2>4, <3>7, <3>8 DEF Blocks, SpecsChanged
  <2> QED BY <2>5, <2>6
<1> QED BY <1>1, BaseInvariant, PTL DEF StopSpec, BookkeepingNeverBlocks

----------------------------------------------------------------------------
(* A block over a clean tree is drift to forge-state.py.  The hook compares *)
(* trees, the script commits; between them is the time of the merge base,   *)
(* which neither keeps.                                                     *)

\* Task lists grow older from the merge base to HEAD and from HEAD to the disk, and
\* none was synced on a day that is still to come.
Aged(file, at) ==
  /\ Exists(file) => file.now.body.synced <= clock
  /\ Age(at) <= Age(file.head) /\ Age(file.head) <= Age(file.now)
  /\ Age(file.head) = Age(file.now) => file.head = file.now

AgeInv == \A f \in Feature : Aged(tasks[f], base.tasks[f])

\* The ages of contents are numbers.
LEMMA AgeType ==
  ASSUME NEW content \in TasksContent \cup {Absent}
  PROVE  Age(content) \in Int
BY ForgeAssumption DEF Age, TasksContent, TaskList

\* A task list across a step that is no push: written on a new day, committed, or
\* left alone.
LEMMA TasksStep ==
  ASSUME DayLength = 1, BaseInv, AgeInv, [StopNext]_allVars, ~Push, NEW g \in Feature
  PROVE  \/ tasks'[g] = tasks[g]
         \/ /\ tasks'[g].head = tasks[g].head /\ tasks'[g].commit = tasks[g].commit
            /\ Age(tasks[g].now) < Age(tasks'[g].now) /\ tasks'[g].now.body.synced <= clock'
         \/ /\ tasks'[g].now = tasks[g].now /\ tasks'[g].head = tasks[g].now
            /\ tasks[g].head # tasks[g].now /\ tasks'[g].commit = clock' /\ clock' = now
<1>1. tasks \in [Feature -> GitFile(TasksContent)]
  BY DEF BaseInv, TypeOK, ArtifactsTypeOK
<1>2. ASSUME NEW f \in Feature, CheckTask(f) \/ \E total \in 0..MaxTasks : Resync(f, total)
      PROVE  \/ tasks'[g] = tasks[g]
             \/ /\ tasks'[g].head = tasks[g].head /\ tasks'[g].commit = tasks[g].commit
                /\ Age(tasks[g].now) < Age(tasks'[g].now) /\ tasks'[g].now.body.synced <= clock'
  <2>1. PICK content \in TasksContent :
          /\ tasks' = [tasks EXCEPT ![f] = Written(tasks[f], content, now)]
          /\ /\ DayLength = 1
             /\ Exists(tasks[f]) => tasks[f].now.body.synced <= clock
             => Age(tasks[f].now) < Age(content) /\ content.body.synced <= now
    BY <1>2, TaskWrites DEF BaseInv
  <2>2. Age(tasks[f].now) < Age(content) /\ content.body.synced <= now
    BY <2>1 DEF AgeInv, Aged
  <2>3. clock' = now
    BY <1>2 DEF CheckTask, Resync, Tick
  <2>4. tasks'[f].now = content /\ tasks'[f].head = tasks[f].head /\ tasks'[f].commit = tasks[f].commit
    BY <1>1, <2>1 DEF Written, GitFile
  <2>5. g # f => tasks'[g] = tasks[g]
    BY <1>1, <2>1
  <2> QED BY <2>2, <2>3, <2>4, <2>5
<1>3. CASE CommitDocs
  <2>1. PICK S, P, T : Commit([spec |-> S, plan |-> P, tasks |-> T, report |-> {}], {})
    BY <1>3 DEF CommitDocs
  <2>2. tasks'[g] = IF g \in T THEN Committed(tasks[g], now) ELSE tasks[g]
    BY <1>1, <2>1 DEF Commit, CommittedIn
  <2>3. clock' = now
    BY <2>1 DEF Commit, Tick
  <2> QED BY <1>1, <2>2, <2>3 DEF Committed, IsDirty, GitFile
<1>4. ASSUME NEW f \in Feature, Work(f), ~CheckTask(f), \A total \in 0..MaxTasks : ~Resync(f, total)
      PROVE  tasks' = tasks
  <2>1. CASE SessionStep(f)
    BY <2>1, SessionWrites DEF BaseInv, Edits, EditSpec, Revert, artifacts
  <2> QED BY <1>4, <2>1 DEF Work, WritePlan, ApprovePlan
<1>5. CASE UNCHANGED tasks
  BY <1>5
<1>6. CASE \E f \in Feature : Guard(f)
  BY <1>6 DEF Guard, GuardRefuses, GuardAllows, artifacts
<1>7. CASE Stop \/ Prompt \/ UNCHANGED allVars
  BY <1>7 DEF Stop, Prompt, allVars, vars, artifacts
<1> QED BY <1>2, <1>3, <1>4, <1>5, <1>6, <1>7 DEF StopNext

\* Every step keeps the ages in order.
LEMMA AgeStep ==
  ASSUME DayLength = 1
  PROVE  BaseInv /\ AgeInv /\ [StopNext]_allVars => AgeInv'
<1> SUFFICES ASSUME BaseInv, AgeInv, [StopNext]_allVars, NEW f \in Feature
             PROVE  Aged(tasks[f], base.tasks[f])'
  BY DEF AgeInv
<1>1. /\ Age(base.tasks[f]) \in Int /\ Age(tasks[f].head) \in Int /\ Age(tasks[f].now) \in Int
      /\ clock \in Nat /\ now = clock + 1
      /\ Exists(tasks[f]) => tasks[f].now.body.synced \in Nat
  BY AgeType DEF BaseInv, TypeOK, ArtifactsTypeOK, GitFile, Exists, TasksContent, TaskList, now
<1>2. Aged(tasks[f], base.tasks[f])
  BY DEF AgeInv
<1>3. CASE Push
  <2>1. /\ tasks'[f] = tasks[f] /\ clock' = clock /\ base'.tasks[f] = tasks[f].head
    BY <1>3, PushMoves, HeadTreeType DEF BaseInv
  <2> QED BY <1>1, <1>2, <2>1 DEF Aged, Exists
<1>4. CASE ~Push
  <2>1. base' = base /\ clock' \in {clock, now}
    BY <1>4, StepTouches
  <2>2. Age(tasks'[f].now) \in Int
    <3>1. TypeOK'
      BY BaseStep DEF BaseInv
    <3> QED BY <3>1, AgeType DEF TypeOK, ArtifactsTypeOK, GitFile
  <2>3. CASE tasks'[f] = tasks[f]
    BY <1>1, <1>2, <2>1, <2>3 DEF Aged, Exists
  <2>4. CASE /\ tasks'[f].head = tasks[f].head
             /\ Age(tasks[f].now) < Age(tasks'[f].now) /\ tasks'[f].now.body.synced <= clock'
    BY <1>1, <1>2, <2>1, <2>2, <2>4 DEF Aged
  <2>5. CASE tasks'[f].now = tasks[f].now /\ tasks'[f].head = tasks[f].now
    BY <1>1, <1>2, <2>1, <2>5 DEF Aged, Exists
  <2> QED BY <1>4, <2>3, <2>4, <2>5, TasksStep
<1> QED BY <1>3, <1>4

\* Some stamp is that of the merge base: specs and plans that differ from it were
\* committed later, task lists committed later differ from it.
After(b, f) ==
  /\ spec[f].head # base.spec[f] => spec[f].commit > b
  /\ plan[f].head # base.plan[f] => plan[f].commit > b
  /\ tasks[f].commit > b => Age(base.tasks[f]) < Age(tasks[f].head)

StampInv ==
  /\ \A f \in Feature : tasks[f].commit <= clock
  /\ \E b \in Nat : b <= clock /\ \A f \in Feature : After(b, f)

\* Every step keeps it; a push takes the clock for the new stamp.
LEMMA StampStep ==
  ASSUME DayLength = 1
  PROVE  BaseInv /\ AgeInv /\ StampInv /\ [StopNext]_allVars => StampInv'
<1> SUFFICES ASSUME BaseInv, AgeInv, StampInv, [StopNext]_allVars PROVE StampInv'
  OBVIOUS
<1>1. /\ clock \in Nat /\ now = clock + 1
      /\ \A f \in Feature : /\ tasks[f].commit \in Nat /\ spec[f].commit \in Nat
                            /\ plan[f].commit \in Nat
  BY DEF BaseInv, TypeOK, ArtifactsTypeOK, GitFile, now
<1>2. CASE Push
  <2>1. /\ spec' = spec /\ plan' = plan /\ tasks' = tasks /\ clock' = clock
        /\ \A f \in Feature : base'.spec[f] = spec[f].head /\ base'.plan[f] = plan[f].head
    BY <1>2, PushMoves, HeadTreeType DEF BaseInv
  <2>2. \A f \in Feature : After(clock, f)'
    BY <1>1, <2>1 DEF After, StampInv
  <2> QED BY <1>1, <2>1, <2>2 DEF StampInv
<1>3. CASE ~Push
  <2>1. base' = base /\ clock' \in {clock, now}
    BY <1>3, StepTouches
  <2>2. PICK b \in Nat : b <= clock /\ \A f \in Feature : After(b, f)
    BY DEF StampInv
  <2>3. ASSUME NEW f \in Feature
        PROVE  tasks'[f].commit <= clock' /\ After(b, f)'
    <3>1. tasks[f].commit <= clock /\ After(b, f) /\ Aged(tasks[f], base.tasks[f])
      BY <2>2 DEF StampInv, AgeInv
    <3>2. spec'[f].head # base.spec[f] => spec'[f].commit > b
      <4>1. Touched(spec[f], spec'[f])
        BY <1>3, StepTouches
      <4> QED BY <1>1, <2>2, <3>1, <4>1 DEF Touched, After
    <3>3. plan'[f].head # base.plan[f] => plan'[f].commit > b
      <4>1. Touched(plan[f], plan'[f])
        BY <1>3, StepTouches
      <4> QED BY <1>1, <2>2, <3>1, <4>1 DEF Touched, After
    <3>4. /\ Age(base.tasks[f]) \in Int /\ Age(tasks[f].head) \in Int
          /\ Age(tasks[f].now) \in Int
      BY AgeType DEF BaseInv, TypeOK, ArtifactsTypeOK, GitFile
    <3>5. /\ tasks'[f].commit <= clock'
          /\ tasks'[f].commit > b => Age(base.tasks[f]) < Age(tasks'[f].head)
      BY <1>1, <1>3, <2>1, <2>2, <3>1, <3>4, TasksStep DEF After, Aged
    <3> QED BY <2>1, <3>2, <3>3, <3>5 DEF After
  <2> QED BY <1>1, <2>1, <2>2, <2>3 DEF StampInv
<1> QED BY <1>2, <1>3

\* A feature the hook blocks on in a clean tree has drifted.
LEMMA BlockIsDrift ==
  ASSUME BaseInv, AgeInv, StampInv, NEW f \in Feature, Blocks(f),
         \A kind \in {"spec", "plan", "tasks"}, g \in Feature : ~IsDirty(File(kind, g))
  PROVE  Drifted(f)
<1>1. PICK b \in Nat : b <= clock /\ After(b, f)
  BY DEF StampInv
<1>2. /\ File("spec", f) = spec[f] /\ File("plan", f) = plan[f] /\ File("tasks", f) = tasks[f]
      /\ ~IsDirty(spec[f]) /\ ~IsDirty(plan[f]) /\ ~IsDirty(tasks[f])
  <2>1. File("spec", f) = spec[f] /\ File("plan", f) = plan[f] /\ File("tasks", f) = tasks[f]
    BY DEF File
  <2> QED BY <2>1
<1>3. tasks[f].commit <= b
  <2>1. tasks[f].now = base["tasks"][f] /\ tasks[f].now = tasks[f].head
    BY TasksAtBase DEF Blocks
  <2>2. Age(tasks[f].head) \in Int /\ tasks[f].commit \in Nat
    BY AgeType DEF BaseInv, TypeOK, ArtifactsTypeOK, GitFile
  <2>3. Age(base.tasks[f]) = Age(tasks[f].head)
    BY <2>1
  <2>4. ~ (Age(base.tasks[f]) < Age(tasks[f].head))
    BY <2>2, <2>3
  <2> QED BY <1>1, <2>2, <2>4 DEF After
<1>4. PICK kind \in {"spec", "plan"} : Changed(kind, f) /\ ~LifecycleOnly(kind, f)
  BY DEF Blocks, SpecsChanged
<1>5. File(kind, f).now # base[kind][f] /\ Kept(File(kind, f), base[kind][f])
  BY <1>4, ChangedFromBase DEF BaseInv, File
<1>6. Exists(File(kind, f)) /\ File(kind, f).head # base[kind][f]
  BY <1>2, <1>4, <1>5 DEF Kept, Exists, Tracked, IsDirty
<1>7. /\ spec[f].commit \in Nat /\ plan[f].commit \in Nat /\ tasks[f].commit \in Nat
  BY DEF BaseInv, TypeOK, ArtifactsTypeOK, GitFile
<1>8. f \notin Spike /\ Exists(tasks[f])
  BY DEF Blocks, SpecsChanged
<1>9. CASE kind = "spec"
  <2>1. Exists(spec[f]) /\ spec[f].commit > b
    BY <1>1, <1>2, <1>6, <1>9 DEF After
  <2>2. Newer(spec[f], tasks[f])
    BY <1>2, <1>3, <1>7, <2>1 DEF Newer, Moved, ChangeClass
  <2> QED BY <1>8, <2>1, <2>2 DEF Drifted, SpecDrifted
<1>10. CASE kind = "plan"
  <2>1. Exists(plan[f]) /\ plan[f].commit > b
    BY <1>1, <1>2, <1>6, <1>10 DEF After
  <2>2. Newer(plan[f], tasks[f])
    BY <1>2, <1>3, <1>7, <2>1 DEF Newer, Moved, ChangeClass
  <2> QED BY <1>8, <2>1, <2>2 DEF Drifted, PlanDrifted
<1> QED BY <1>9, <1>10

\* stop-verify.sh against forge-state.py: with nothing uncommitted, whatever the hook
\* blocks on is drift to the script, provided re-syncs fall on different days.
THEOREM CleanBlocksAreDrift ==
  ASSUME DayLength = 1
  PROVE  StopSpec => []CleanBlockIsDrift
<1>1. Init /\ StopInit => AgeInv /\ StampInv
  <2> SUFFICES ASSUME Init, StopInit PROVE AgeInv /\ StampInv
    OBVIOUS
  <2>1. /\ clock = 0
        /\ \A f \in Feature : /\ spec[f] = NoFile /\ plan[f] = NoFile /\ tasks[f] = NoFile
                              /\ base.spec[f] = Absent /\ base.plan[f] = Absent
                              /\ base.tasks[f] = Absent
    BY InitType, HeadTreeType DEF Init, StopInit, NoFile
  <2>2. NoFile.now = Absent /\ NoFile.head = Absent /\ NoFile.commit = 0 /\ Age(Absent) = -1
    BY DEF NoFile, Age
  <2>3. AgeInv
    BY <2>1, <2>2 DEF AgeInv, Aged, Exists
  <2>4. \A f \in Feature : After(0, f) /\ tasks[f].commit <= clock
    BY <2>1, <2>2 DEF After
  <2> QED BY <2>1, <2>3, <2>4 DEF StampInv
<1>2. BaseInv /\ AgeInv /\ StampInv /\ [StopNext]_allVars => AgeInv' /\ StampInv'
  BY AgeStep, StampStep
<1>3. BaseInv /\ AgeInv /\ StampInv => CleanBlockIsDrift
  BY BlockIsDrift DEF CleanBlockIsDrift
<1> QED BY <1>1, <1>2, <1>3, BaseInvariant, PTL DEF StopSpec
=============================================================================
