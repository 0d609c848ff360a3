---------------------------- MODULE Gate_proofs ----------------------------
(***************************************************************************)
(* What holds of the done gate (forge-state.py) for every set of features  *)
(* and code files: what clears drift, what the close and a clone leave of  *)
(* the answer, and what stales an evaluation.                              *)
(***************************************************************************)
EXTENDS SpecLifecycle_proofs, FiniteSetLemmas

----------------------------------------------------------------------------
(* A clone answers as the original did.                                    *)

\* A file with nothing uncommitted is checked out as it was, but for its mtime.
LEMMA CleanCheckout ==
  ASSUME NEW Content, NEW file \in GitFile(Content), NEW t \in Nat, ~IsDirty(file)
  PROVE  LET new == CheckedOut(file, t) IN
         /\ new.now = file.now /\ new.head = file.head /\ new.commit = file.commit
         /\ ~IsDirty(new) /\ ~Moved(file) /\ ~Moved(new)
BY DEF CheckedOut, IsDirty, GitFile, Moved, ChangeClass

\* The same, of a family of files.
LEMMA CleanTree ==
  ASSUME NEW Content, NEW Name, NEW files \in [Name -> GitFile(Content)], now \in Nat,
         \A x \in Name : ~IsDirty(files[x]), NEW x \in Name
  PROVE  LET new == Tree(files)[x] IN
         /\ new.now = files[x].now /\ new.head = files[x].head /\ new.commit = files[x].commit
         /\ ~IsDirty(new) /\ ~Moved(files[x]) /\ ~Moved(new)
<1>1. Tree(files)[x] = CheckedOut(files[x], now)
  BY DEF Tree
<1> QED BY <1>1, CleanCheckout

\* forge-state.py: in a tree with nothing uncommitted the gate reads commits alone, so
\* a clone, where every mtime is new, finds the same failures.
THEOREM ClonesAgree == Spec => CloneKeepsGate
<1> DEFINE Agrees == TreeClean /\ Clone =>
             \A f \in Feature : Exists(spec[f]) => Failing(f)' = Failing(f)
<1>1. TypeOK /\ [Next]_vars => [Agrees]_vars
  <2> SUFFICES ASSUME TypeOK, TreeClean, Clone, NEW f \in Feature, Exists(spec[f])
               PROVE  Failing(f)' = Failing(f)
    OBVIOUS
  <2>0. now \in Nat
    BY NowType
  <2> DEFINE Same(file, new) ==
               /\ new.now = file.now /\ new.commit = file.commit
               /\ ~IsDirty(file) /\ ~IsDirty(new) /\ ~Moved(file) /\ ~Moved(new)
  <2>1. Same(spec[f], spec'[f]) /\ Same(plan[f], plan'[f])
    BY <2>0, CleanTree DEF TreeClean, Clone, TypeOK, ArtifactsTypeOK
  <2>2. Same(tasks[f], tasks'[f]) /\ Same(report[f], report'[f])
    BY <2>0, CleanTree DEF TreeClean, Clone, TypeOK, ArtifactsTypeOK
  <2>3. \A c \in Code : Same(code[c], code'[c])
    BY <2>0, CleanTree DEF TreeClean, Clone, TypeOK, ArtifactsTypeOK
  <2>4. TierOf(f)' = TierOf(f)
    BY <2>1 DEF TierOf
  <2>5. TaskFailures(f)' = TaskFailures(f)
    BY <2>2 DEF TaskFailures, Exists
  <2>6. VerdictFailures(f)' = VerdictFailures(f)
    BY <2>4 DEF Clone, VerdictFailures
  <2>7. Drifted(f)' = Drifted(f)
    BY <2>1, <2>2 DEF Drifted, SpecDrifted, PlanDrifted, Newer, Exists
  <2>8. EvalFailures(f)' = EvalFailures(f)
    <3>1. DirtyCode = {} /\ DirtyCode' = {}
      BY <2>3 DEF DirtyCode
    <3>2. {code'[c].commit : c \in Code} = {code[c].commit : c \in Code}
      BY <2>3
    <3>3. LastCodeChange' = LastCodeChange
      BY <3>1, <3>2 DEF LastCodeChange
    <3>4. LastChange(report[f])' = LastChange(report[f])
      BY <2>2 DEF LastChange
    <3> QED BY <2>2, <3>3, <3>4 DEF EvalFailures, EvalStale, Exists
  <2> QED BY <2>4, <2>5, <2>6, <2>7, <2>8 DEF Failing
<1> QED BY <1>1, TypeCorrect, PTL DEF Spec, CloneKeepsGate

----------------------------------------------------------------------------
(* The close.                                                              *)

\* forge-state.py change_class: over committed requirements the close itself, an edit
\* of the status, takes nothing from a gate that passed.
THEOREM CloseKeepsGate == Spec => CloseKeepsGateWhenCommitted
<1> DEFINE Keeps == \A f \in Feature :
             /\ GatePasses(f) /\ Close(f)
             /\ ~Moved(spec[f]) /\ ~Moved(tasks[f])
             => GatePasses(f)'
<1>1. TypeOK /\ [Next]_vars => [Keeps]_vars
  <2> SUFFICES ASSUME TypeOK, NEW f \in Feature, GatePasses(f), Close(f), ~Moved(spec[f]),
                      ~Moved(tasks[f])
               PROVE  GatePasses(f)'
    OBVIOUS
  <2>1. /\ spec[f].now \in SpecContent
        /\ spec' = [spec EXCEPT ![f] = Written(spec[f], [spec[f].now EXCEPT !.status = "done"], now)]
        /\ UNCHANGED <<plan, tasks, report, code, verdict>>
    BY SpecNowType DEF Close, EditSpec
  <2>2. /\ spec'[f].now = [spec[f].now EXCEPT !.status = "done"]
        /\ spec'[f].head = spec[f].head /\ spec'[f].commit = spec[f].commit
        /\ spec'[f].now \in SpecContent /\ spec'[f].now.body = spec[f].now.body
        /\ spec'[f].now.rigor = spec[f].now.rigor
    <3> DEFINE content == [spec[f].now EXCEPT !.status = "done"]
    <3>1. /\ content \in SpecContent /\ content.body = spec[f].now.body
          /\ content.rigor = spec[f].now.rigor
      BY <2>1 DEF SpecContent, Status, Terminal
    <3> HIDE DEF content
    <3>2. spec'[f] = Written(spec[f], content, now)
      BY <2>1 DEF content, TypeOK, ArtifactsTypeOK
    <3>3. spec[f] \in GitFile(SpecContent)
      BY DEF TypeOK, ArtifactsTypeOK
    <3>4. /\ spec'[f].now = content
          /\ spec'[f].head = spec[f].head /\ spec'[f].commit = spec[f].commit
      BY <3>2, <3>3 DEF Written, GitFile
    <3> QED BY <3>1, <3>4 DEF content
  <2>3. ~Moved(spec'[f])
    BY <2>1, <2>2, AbsentAssumption DEF Moved, ChangeClass, IsDirty, Tracked, Exists
  <2>4. Exists(spec[f]) /\ (SpecDrifted(f)' => SpecDrifted(f))
    BY <2>1, <2>2, <2>3 DEF SpecDrifted, Newer, Close
  <2>5. PlanDrifted(f)' = PlanDrifted(f) /\ TaskFailures(f)' = TaskFailures(f)
    BY <2>1 DEF PlanDrifted, TaskFailures
  <2>6. TierOf(f)' = TierOf(f)
    BY <2>2 DEF TierOf
  <2>7. EvalFailures(f)' = EvalFailures(f)
    BY <2>1 DEF EvalFailures, EvalStale, LastCodeChange, DirtyCode
  <2>8. VerdictFailures(f)' = VerdictFailures(f)
    BY <2>1, <2>6 DEF VerdictFailures
  <2>9. Drifted(f)' => Drifted(f)
    BY <2>1, <2>4, <2>5 DEF Drifted
  <2> QED BY <2>5, <2>6, <2>7, <2>8, <2>9 DEF GatePasses, Failing
<1> QED BY <1>1, TypeCorrect, PTL DEF Spec, CloseKeepsGateWhenCommitted

----------------------------------------------------------------------------
(* Stamps.  Drift and staleness compare the stamps of different files; that *)
(* no stamp is ahead of the clock is what makes the newest write the newest. *)

\* No stamp of a file is later than t.
Dated(file, t) == file.mtime <= t /\ file.commit <= t

\* No body of a file is one that is still to be written after t.
Bodied(file, t) ==
  /\ Exists(file) => file.now.body <= t
  /\ Tracked(file) => file.head.body <= t

DatedInv ==
  /\ \A f \in Feature : /\ Dated(spec[f], clock) /\ Bodied(spec[f], clock)
                        /\ Dated(plan[f], clock) /\ Bodied(plan[f], clock)
                        /\ Dated(tasks[f], clock) /\ Dated(report[f], clock)
  /\ \A c \in Code : Dated(code[c], clock) /\ Bodied(code[c], clock)

\* What a step makes of a file: nothing, a commit, a checkout, a write.
Moves(file, new) ==
  \/ new = file
  \/ /\ clock' = now /\ file.now # file.head
     /\ new.now = file.now /\ new.head = file.now
     /\ new.mtime = file.mtime /\ new.commit = now
  \/ /\ clock' = now
     /\ new.now = file.head /\ new.head = file.head
     /\ new.mtime = now /\ new.commit = file.commit
  \/ /\ clock' = now /\ Exists(new) /\ new.head = file.head
     /\ new.mtime = now /\ new.commit = file.commit

\* What is on disk then has a new body or an old one.
KeepsBody(file, new) ==
  \/ new.now \in {file.now, file.head}
  \/ new.now.body = now
  \/ Exists(file) /\ new.now.body = file.now.body

\* A write is such a step.
LEMMA WriteMoves ==
  ASSUME NEW Content, NEW file \in GitFile(Content), NEW content, content # Absent,
         clock' = now
  PROVE  /\ Moves(file, Written(file, content, now))
         /\ Written(file, content, now).now = content
BY DEF Written, Moves, Exists, GitFile

\* So is a commit of a family.
LEMMA CommitMoves ==
  ASSUME NEW Content, NEW Name, NEW files \in [Name -> GitFile(Content)], NEW picked,
         NEW new, new = CommittedIn(files, picked, now), NEW x \in Name, clock' = now
  PROVE  Moves(files[x], new[x]) /\ new[x].now = files[x].now
<1>1. new[x] = IF x \in picked THEN Committed(files[x], now) ELSE files[x]
  BY DEF CommittedIn
<1> QED BY <1>1 DEF Committed, IsDirty, Moves, GitFile

\* So is a checkout.
LEMMA CheckoutMoves ==
  ASSUME NEW Content, NEW file \in GitFile(Content), clock' = now
  PROVE  /\ Moves(file, CheckedOut(file, now))
         /\ CheckedOut(file, now).now = file.head
BY DEF CheckedOut, Moves, GitFile

\* A step of that kind leaves no stamp ahead of the clock.
LEMMA MoveDated ==
  ASSUME clock \in Nat, clock' \in {clock, now}, NEW Content, NEW file \in GitFile(Content),
         NEW new, Moves(file, new), Dated(file, clock)
  PROVE  Dated(new, clock')
BY DEF Moves, Dated, GitFile, now

\* Nor a body.
LEMMA MoveBodied ==
  ASSUME clock \in Nat, clock' \in {clock, now}, NEW Content, Absent \notin Content,
         \A content \in Content : content.body \in Nat,
         NEW file \in GitFile(Content), NEW new \in GitFile(Content),
         Moves(file, new), KeepsBody(file, new), Bodied(file, clock)
  PROVE  Bodied(new, clock')
<1>1. /\ Exists(file) => file.now.body \in Nat /\ file.now.body <= clock
      /\ Tracked(file) => file.head.body \in Nat /\ file.head.body <= clock
  BY DEF GitFile, Exists, Tracked, Bodied
<1>2. Exists(new) => new.now.body <= clock'
  BY <1>1 DEF Moves, KeepsBody, Exists, Tracked, now
<1>3. Tracked(new) => new.head.body <= clock'
  BY <1>1 DEF Moves, Exists, Tracked, now
<1> QED BY <1>2, <1>3 DEF Bodied

\* One write to a family of files: a move of each of them.
LEMMA FamilyWrite ==
  ASSUME NEW Content, Absent \notin Content, NEW Name, NEW files \in [Name -> GitFile(Content)],
         NEW x \in Name, NEW content \in Content, NEW new,
         new = [files EXCEPT ![x] = Written(files[x], content, now)],
         clock' = now, NEW y \in Name
  PROVE  /\ Moves(files[y], new[y])
         /\ new[y].now = IF y = x THEN content ELSE files[y].now
<1>1. new[y] = IF y = x THEN Written(files[x], content, now) ELSE files[y]
  OBVIOUS
<1>2. CASE y = x
  BY <1>1, <1>2, WriteMoves
<1>3. CASE y # x
  BY <1>1, <1>3 DEF Moves
<1> QED BY <1>2, <1>3

\* Every step of the lifecycle moves files and no stamp runs ahead.
LEMMA NextMoves ==
  ASSUME TypeOK, [Next]_vars
  PROVE  /\ clock' \in {clock, now}
         /\ \A f \in Feature : /\ Moves(spec[f], spec'[f]) /\ KeepsBody(spec[f], spec'[f])
                               /\ Moves(plan[f], plan'[f]) /\ KeepsBody(plan[f], plan'[f])
                               /\ Moves(tasks[f], tasks'[f]) /\ Moves(report[f], report'[f])
         /\ \A c \in Code : Moves(code[c], code'[c]) /\ KeepsBody(code[c], code'[c])
<1> DEFINE AllMove(files, new) == \A x \in DOMAIN files : Moves(files[x], new[x])
           AllKeep(files, new) == \A x \in DOMAIN files : KeepsBody(files[x], new[x])
           Stepped == /\ clock' \in {clock, now}
                   /\ AllMove(spec, spec') /\ AllKeep(spec, spec')
                   /\ AllMove(plan, plan') /\ AllKeep(plan, plan')
                   /\ AllMove(tasks, tasks') /\ AllMove(report, report')
                   /\ AllMove(code, code') /\ AllKeep(code, code')
<1>0. now \in Nat /\ MaxTasks \in Nat
  BY NowType, ForgeAssumption
<1>t. /\ spec \in [Feature -> GitFile(SpecContent)] /\ plan \in [Feature -> GitFile(PlanContent)]
      /\ tasks \in [Feature -> GitFile(TasksContent)]
      /\ report \in [Feature -> GitFile(ReportContent)]
      /\ code \in [Code -> GitFile(CodeContent)]
      /\ DOMAIN spec = Feature /\ DOMAIN plan = Feature /\ DOMAIN tasks = Feature
      /\ DOMAIN report = Feature /\ DOMAIN code = Code
  BY DEF TypeOK, ArtifactsTypeOK
<1>s. \A files : AllMove(files, files) /\ AllKeep(files, files)
  BY DEF Moves, KeepsBody
<1> HIDE DEF AllMove, AllKeep
<1>1. ASSUME NEW f \in Feature, SessionStep(f) PROVE Stepped
  <2>1. ASSUME NEW content \in SpecContent, Edits(f, content) PROVE Stepped
    <3>1. /\ spec' = [spec EXCEPT ![f] = Written(spec[f], content, now)] /\ clock' = now
          /\ UNCHANGED <<plan, tasks, report, code>>
          /\ content.body = now \/ (Exists(spec[f]) /\ content.body = spec[f].now.body)
      BY <2>1 DEF Edits, EditSpec, Tick
    <3>2. \A g \in Feature : /\ Moves(spec[g], spec'[g])
                             /\ spec'[g].now = IF g = f THEN content ELSE spec[g].now
      BY <1>t, <3>1, FamilyWrite, AbsentAssumption
    <3>3. AllMove(spec, spec') /\ AllKeep(spec, spec')
      BY <1>t, <3>1, <3>2 DEF AllMove, AllKeep, KeepsBody
    <3> QED BY <1>s, <3>1, <3>3
  <2>2. CASE Revert(f)
    <3>1. /\ spec' = [spec EXCEPT ![f] = CheckedOut(spec[f], now)] /\ clock' = now
          /\ UNCHANGED <<plan, tasks, report, code>>
      BY <2>2 DEF Revert, Tick
    <3>2. \A g \in Feature : Moves(spec[g], spec'[g]) /\ spec'[g].now \in {spec[g].now, spec[g].head}
      <4> SUFFICES ASSUME NEW g \in Feature
                   PROVE  Moves(spec[g], spec'[g]) /\ spec'[g].now \in {spec[g].now, spec[g].head}
        OBVIOUS
      <4>1. spec'[g] = IF g = f THEN CheckedOut(spec[f], now) ELSE spec[g]
        BY <1>t, <3>1
      <4>2. spec[g] \in GitFile(SpecContent)
        BY <1>t
      <4> QED BY <3>1, <4>1, <4>2, CheckoutMoves DEF Moves
    <3>3. AllMove(spec, spec') /\ AllKeep(spec, spec')
      BY <1>t, <3>2 DEF AllMove, AllKeep, KeepsBody
    <3> QED BY <1>s, <3>1, <3>3
  <2>3. CASE UNCHANGED <<artifacts, clock>>
    BY <1>s, <2>3 DEF artifacts
  <2> QED BY <1>1, <2>1, <2>2, <2>3, SessionWrites
<1>2. ASSUME NEW f \in Feature, AgentStep(f) PROVE Stepped
  <2>1. ASSUME NEW content \in PlanContent,
               plan' = [plan EXCEPT ![f] = Written(plan[f], content, now)],
               content.body = now \/ (Exists(plan[f]) /\ content.body = plan[f].now.body),
               clock' = now, UNCHANGED <<spec, tasks, report, code>>
        PROVE  Stepped
    <3>1. \A g \in Feature : /\ Moves(plan[g], plan'[g])
                             /\ plan'[g].now = IF g = f THEN content ELSE plan[g].now
      BY <1>t, <2>1, FamilyWrite, AbsentAssumption
    <3>2. AllMove(plan, plan') /\ AllKeep(plan, plan')
      BY <1>t, <2>1, <3>1 DEF AllMove, AllKeep, KeepsBody
    <3> QED BY <1>s, <2>1, <3>2
  <2>2. ASSUME NEW content \in TasksContent,
               tasks' = [tasks EXCEPT ![f] = Written(tasks[f], content, now)],
               clock' = now, UNCHANGED <<spec, plan, report, code>>
        PROVE  Stepped
    <3>1. \A g \in Feature : Moves(tasks[g], tasks'[g])
      BY <1>t, <2>2, FamilyWrite, AbsentAssumption
    <3>2. AllMove(tasks, tasks')
      BY <1>t, <3>1 DEF AllMove
    <3> QED BY <1>s, <2>2, <3>2
  <2>3. CASE WritePlan(f)
    <3> DEFINE status == IF Exists(plan[f]) THEN plan[f].now.status ELSE "draft"
               content == [body |-> now, status |-> status]
    <3>1. content \in PlanContent /\ content.body = now
      BY <1>0, PlanNowType DEF PlanContent
    <3>2. /\ plan' = [plan EXCEPT ![f] = Written(plan[f], content, now)]
          /\ clock' = now /\ UNCHANGED <<spec, tasks, report, code>>
      BY <2>3 DEF WritePlan, Tick
    <3> QED BY <2>1, <3>1, <3>2
  <2>4. CASE ApprovePlan(f)
    <3> DEFINE content == [plan[f].now EXCEPT !.status = "approved"]
    <3>1. Exists(plan[f]) /\ content \in PlanContent /\ content.body = plan[f].now.body
      BY <2>4, PlanNowType DEF ApprovePlan, PlanContent
    <3>2. /\ plan' = [plan EXCEPT ![f] = Written(plan[f], content, now)]
          /\ clock' = now /\ UNCHANGED <<spec, tasks, report, code>>
      BY <2>4 DEF ApprovePlan, Tick
    <3> QED BY <2>1, <3>1, <3>2
  <2>5. ASSUME NEW total \in 0..MaxTasks, Resync(f, total) PROVE Stepped
    <3> DEFINE content == [body |-> [synced |-> Day(now), total |-> total, checked |-> Checked(f)]]
    <3>1. Day(now) \in Nat /\ Checked(f) \in 0..MaxTasks
      BY <1>0, TasksNowType, LifecycleAssumption DEF Day, Checked, TasksContent, TaskList
    <3>2. content \in TasksContent
      BY <3>1 DEF TasksContent, TaskList
    <3>3. /\ tasks' = [tasks EXCEPT ![f] = Written(tasks[f], content, now)]
          /\ clock' = now /\ UNCHANGED <<spec, plan, report, code>>
      BY <2>5 DEF Resync, Tick
    <3> QED BY <2>2, <3>2, <3>3
  <2>6. CASE CheckTask(f)
    <3> DEFINE content == [body |-> [tasks[f].now.body EXCEPT !.checked = @ + 1]]
    <3>1. tasks[f].now.body \in TaskList /\ tasks[f].now.body.checked < tasks[f].now.body.total
      BY <2>6, TasksNowType DEF CheckTask, TasksContent
    <3>2. content \in TasksContent
      BY <1>0, <3>1 DEF TasksContent, TaskList
    <3>3. /\ tasks' = [tasks EXCEPT ![f] = Written(tasks[f], content, now)]
          /\ clock' = now /\ UNCHANGED <<spec, plan, report, code>>
      BY <2>6 DEF CheckTask, Tick
    <3> QED BY <2>2, <3>2, <3>3
  <2>7. ASSUME NEW v \in {"PASS", "FAIL"}, Evaluate(f, v) PROVE Stepped
    <3> DEFINE content == [body |-> [written |-> now, verdict |-> v]]
    <3>1. content \in ReportContent
      BY <1>0 DEF ReportContent
    <3>2. /\ report' = [report EXCEPT ![f] = Written(report[f], content, now)]
          /\ clock' = now /\ UNCHANGED <<spec, plan, tasks, code>>
      BY <2>7 DEF Evaluate, Tick
    <3>3. \A g \in Feature : Moves(report[g], report'[g])
      BY <1>t, <3>1, <3>2, FamilyWrite, AbsentAssumption
    <3>4. AllMove(report, report')
      BY <1>t, <3>3 DEF AllMove
    <3> QED BY <1>s, <3>2, <3>4
  <2>8. ASSUME NEW qe \in Verdict, NEW security \in Verdict, RecordRun(f, qe, security) PROVE Stepped
    BY <1>s, <2>8 DEF RecordRun
  <2> QED BY <1>2, <2>3, <2>4, <2>5, <2>6, <2>7, <2>8 DEF AgentStep
<1>3. ASSUME NEW c \in Code, EditCode(c) PROVE Stepped
  <2> DEFINE content == [body |-> now]
  <2>1. /\ code' = [code EXCEPT ![c] = Written(code[c], content, now)]
        /\ clock' = now /\ UNCHANGED <<spec, plan, tasks, report>>
    BY <1>3 DEF EditCode, Tick
  <2>2. content \in CodeContent /\ content.body = now
    BY <1>0 DEF CodeContent
  <2>3. \A d \in Code : /\ Moves(code[d], code'[d])
                        /\ code'[d].now = IF d = c THEN content ELSE code[d].now
    BY <1>t, <2>1, <2>2, FamilyWrite, AbsentAssumption
  <2>4. AllMove(code, code') /\ AllKeep(code, code')
    BY <1>t, <2>2, <2>3 DEF AllMove, AllKeep, KeepsBody
  <2> QED BY <1>s, <2>1, <2>4
<1>4. ASSUME NEW docs, NEW C, Commit(docs, C) PROVE Stepped
  <2>1. /\ clock' = now
        /\ spec' = CommittedIn(spec, docs["spec"], now) /\ plan' = CommittedIn(plan, docs["plan"], now)
        /\ tasks' = CommittedIn(tasks, docs["tasks"], now)
        /\ report' = CommittedIn(report, docs["report"], now) /\ code' = CommittedIn(code, C, now)
    BY <1>4 DEF Commit, Tick
  <2>2. /\ AllMove(spec, spec') /\ AllKeep(spec, spec') /\ AllMove(plan, plan') /\ AllKeep(plan, plan')
        /\ AllMove(tasks, tasks') /\ AllMove(report, report')
        /\ AllMove(code, code') /\ AllKeep(code, code')
    BY <1>t, <2>1, CommitMoves DEF AllMove, AllKeep, KeepsBody
  <2> QED BY <2>1, <2>2
<1>5. ASSUME Clone PROVE Stepped
  <2>1. /\ clock' = now
        /\ spec' = Tree(spec) /\ plan' = Tree(plan) /\ tasks' = Tree(tasks)
        /\ report' = Tree(report) /\ code' = Tree(code)
    BY <1>5 DEF Clone, Tick
  <2>2. ASSUME NEW Content, NEW Name, NEW files \in [Name -> GitFile(Content)]
        PROVE  AllMove(files, Tree(files)) /\ AllKeep(files, Tree(files))
    <3>1. \A x \in Name : Tree(files)[x] = CheckedOut(files[x], now) /\ files[x] \in GitFile(Content)
      BY DEF Tree
    <3>2. \A x \in Name : /\ Moves(files[x], Tree(files)[x])
                          /\ Tree(files)[x].now = files[x].head
      BY <2>1, <3>1, CheckoutMoves
    <3> QED BY <3>2 DEF AllMove, AllKeep, KeepsBody
  <2>3. /\ AllMove(spec, Tree(spec)) /\ AllKeep(spec, Tree(spec))
        /\ AllMove(plan, Tree(plan)) /\ AllKeep(plan, Tree(plan))
    BY <1>t, <2>2
  <2>4. AllMove(tasks, Tree(tasks)) /\ AllMove(report, Tree(report))
    BY <1>t, <2>2
  <2>5. AllMove(code, Tree(code)) /\ AllKeep(code, Tree(code))
    BY <1>t, <2>2
  <2> QED BY <2>1, <2>3, <2>4, <2>5
<1>6. ASSUME SpoilTraces \/ UNCHANGED vars PROVE Stepped
  <2>1. UNCHANGED <<spec, plan, tasks, report, code, clock>>
    BY <1>6 DEF SpoilTraces, vars, artifacts
  <2> QED BY <1>s, <2>1
<1>7. ASSUME NEW f \in Feature, GuardRefuses(f) \/ GuardAllows(f) PROVE Stepped
  BY <1>7, <1>s DEF GuardRefuses, GuardAllows, artifacts
<1>8. Stepped
  <2>1. CASE GitStep
    BY <1>4, <1>5, <2>1 DEF GitStep
  <2> HIDE DEF Stepped
  <2> QED BY <1>1, <1>2, <1>3, <1>6, <1>7, <2>1 DEF Next
<1> QED BY <1>t, <1>8 DEF AllMove, AllKeep

\* No step puts a stamp ahead of the clock.
LEMMA DatedStep == TypeOK /\ DatedInv /\ [Next]_vars => DatedInv'
<1> SUFFICES ASSUME TypeOK, DatedInv, [Next]_vars PROVE DatedInv'
  OBVIOUS
<1>1. TypeOK' /\ clock \in Nat /\ clock' \in {clock, now}
  BY NextType, NextMoves DEF TypeOK
<1>2. /\ \A content \in SpecContent : content.body \in Nat
      /\ \A content \in PlanContent : content.body \in Nat
      /\ \A content \in CodeContent : content.body \in Nat
  BY DEF SpecContent, PlanContent, CodeContent
<1>3. ASSUME NEW f \in Feature
      PROVE  /\ Dated(spec'[f], clock') /\ Bodied(spec'[f], clock')
             /\ Dated(plan'[f], clock') /\ Bodied(plan'[f], clock')
             /\ Dated(tasks'[f], clock') /\ Dated(report'[f], clock')
  <2>1. /\ spec[f] \in GitFile(SpecContent) /\ spec'[f] \in GitFile(SpecContent)
        /\ plan[f] \in GitFile(PlanContent) /\ plan'[f] \in GitFile(PlanContent)
        /\ tasks[f] \in GitFile(TasksContent) /\ report[f] \in GitFile(ReportContent)
    BY <1>1 DEF TypeOK, ArtifactsTypeOK
  <2>2. /\ Dated(spec[f], clock) /\ Bodied(spec[f], clock)
        /\ Dated(plan[f], clock) /\ Bodied(plan[f], clock)
        /\ Dated(tasks[f], clock) /\ Dated(report[f], clock)
    BY DEF DatedInv
  <2>3. Dated(spec'[f], clock') /\ Dated(plan'[f], clock')
    BY <1>1, <2>1, <2>2, NextMoves, MoveDated
  <2>4. Dated(tasks'[f], clock') /\ Dated(report'[f], clock')
    BY <1>1, <2>1, <2>2, NextMoves, MoveDated
  <2>5. Bodied(spec'[f], clock') /\ Bodied(plan'[f], clock')
    BY <1>1, <1>2, <2>1, <2>2, NextMoves, MoveBodied, AbsentAssumption
  <2> QED BY <2>3, <2>4, <2>5
<1>4. ASSUME NEW c \in Code
      PROVE  Dated(code'[c], clock') /\ Bodied(code'[c], clock')
  <2>1. code[c] \in GitFile(CodeContent) /\ code'[c] \in GitFile(CodeContent)
    BY <1>1 DEF TypeOK, ArtifactsTypeOK
  <2>2. Dated(code[c], clock) /\ Bodied(code[c], clock)
    BY DEF DatedInv
  <2> QED BY <1>1, <1>2, <2>1, <2>2, NextMoves, MoveDated, MoveBodied, AbsentAssumption
<1> QED BY <1>3, <1>4 DEF DatedInv

\* It holds in every behaviour.
LEMMA DatedInvariant == Spec => []DatedInv
<1>1. Init => DatedInv
  BY DEF Init, DatedInv, Dated, Bodied, NoFile, Exists, Tracked
<1> QED BY <1>1, DatedStep, TypeCorrect, PTL DEF Spec

----------------------------------------------------------------------------
(* Drift is cleared by the task list alone.                                *)

\* What a step makes of a spec or a plan, short of putting it back.
Advances(file, new) ==
  \/ new = file
  \/ /\ file.now # file.head /\ new.now = file.now /\ new.head = file.now
     /\ new.mtime = file.mtime /\ new.commit = now
  \/ /\ Exists(new) /\ new.head = file.head
     /\ new.mtime = now /\ new.commit = file.commit
     /\ new.now.body = now \/ (Exists(file) /\ new.now.body = file.now.body)

\* A write of a spec or a plan, with a new body or the old one, is such a step.
LEMMA WriteAdvances ==
  ASSUME NEW Content, Absent \notin Content, NEW Name, NEW files \in [Name -> GitFile(Content)],
         NEW x \in Name, NEW content \in Content, NEW new,
         new = [files EXCEPT ![x] = Written(files[x], content, now)],
         content.body = now \/ (Exists(files[x]) /\ content.body = files[x].now.body),
         NEW y \in Name
  PROVE  Advances(files[y], new[y])
<1>1. new[y] = IF y = x THEN Written(files[x], content, now) ELSE files[y]
  OBVIOUS
<1>2. content # Absent /\ files[x] \in GitFile(Content)
  OBVIOUS
<1>3. Advances(files[x], Written(files[x], content, now))
  BY <1>2 DEF Written, Advances, Exists, GitFile
<1> QED BY <1>1, <1>3 DEF Advances

\* So is a commit.
LEMMA CommitAdvances ==
  ASSUME NEW Content, NEW Name, NEW files \in [Name -> GitFile(Content)], NEW picked,
         NEW new, new = CommittedIn(files, picked, now), NEW x \in Name
  PROVE  Advances(files[x], new[x])
<1>1. new[x] = IF x \in picked THEN Committed(files[x], now) ELSE files[x]
  BY DEF CommittedIn
<1> QED BY <1>1 DEF Committed, IsDirty, Advances, GitFile

\* Only a revert and a clone put a spec back, only a clone a plan.
LEMMA DocsAdvance ==
  ASSUME TypeOK, [Next]_vars, ~Clone, NEW f \in Feature
  PROVE  /\ Advances(plan[f], plan'[f])
         /\ Revert(f) \/ Advances(spec[f], spec'[f])
<1> DEFINE Done == /\ Advances(plan[f], plan'[f])
                   /\ Revert(f) \/ Advances(spec[f], spec'[f])
<1>0. now \in Nat
  BY NowType
<1>t. /\ spec \in [Feature -> GitFile(SpecContent)] /\ plan \in [Feature -> GitFile(PlanContent)]
  BY DEF TypeOK, ArtifactsTypeOK
<1>1. ASSUME NEW g \in Feature, SessionStep(g) PROVE Done
  <2>1. ASSUME NEW content \in SpecContent, Edits(g, content) PROVE Done
    <3>1. /\ spec' = [spec EXCEPT ![g] = Written(spec[g], content, now)] /\ plan' = plan
          /\ content.body = now \/ (Exists(spec[g]) /\ content.body = spec[g].now.body)
      BY <2>1 DEF Edits, EditSpec
    <3>2. Advances(spec[f], spec'[f])
      BY <1>t, <3>1, WriteAdvances, AbsentAssumption
    <3> QED BY <3>1, <3>2 DEF Advances
  <2>2. ASSUME Revert(g) PROVE Done
    <3>1. plan' = plan /\ (f = g \/ spec'[f] = spec[f])
      BY <1>t, <2>2 DEF Revert
    <3> QED BY <2>2, <3>1 DEF Advances
  <2>3. ASSUME UNCHANGED artifacts PROVE Done
    BY <2>3 DEF artifacts, Advances
  <2> HIDE DEF Done
  <2> QED BY <1>1, <2>1, <2>2, <2>3, SessionWrites
<1>2. ASSUME NEW g \in Feature, AgentStep(g) PROVE Done
  <2>1. ASSUME NEW content \in PlanContent, spec' = spec,
               plan' = [plan EXCEPT ![g] = Written(plan[g], content, now)],
               content.body = now \/ (Exists(plan[g]) /\ content.body = plan[g].now.body)
        PROVE  Done
    <3>1. Advances(plan[f], plan'[f])
      BY <1>t, <2>1, WriteAdvances, AbsentAssumption
    <3> QED BY <2>1, <3>1 DEF Advances
  <2>2. CASE WritePlan(g)
    <3> DEFINE status == IF Exists(plan[g]) THEN plan[g].now.status ELSE "draft"
               content == [body |-> now, status |-> status]
    <3>1. content \in PlanContent /\ content.body = now
      BY <1>0, PlanNowType DEF PlanContent
    <3>2. plan' = [plan EXCEPT ![g] = Written(plan[g], content, now)] /\ spec' = spec
      BY <2>2 DEF WritePlan
    <3> QED BY <2>1, <3>1, <3>2
  <2>3. CASE ApprovePlan(g)
    <3> DEFINE content == [plan[g].now EXCEPT !.status = "approved"]
    <3>1. Exists(plan[g]) /\ content \in PlanContent /\ content.body = plan[g].now.body
      BY <2>3, PlanNowType DEF ApprovePlan, PlanContent
    <3>2. plan' = [plan EXCEPT ![g] = Written(plan[g], content, now)] /\ spec' = spec
      BY <2>3 DEF ApprovePlan
    <3> QED BY <2>1, <3>1, <3>2
  <2>4. CASE UNCHANGED <<spec, plan>>
    BY <2>4 DEF Advances
  <2> QED BY <1>2, <2>2, <2>3, <2>4 DEF AgentStep, Resync, CheckTask, Evaluate, RecordRun
<1>3. ASSUME NEW docs, NEW C, Commit(docs, C) PROVE Done
  <2>1. /\ spec' = CommittedIn(spec, docs["spec"], now)
        /\ plan' = CommittedIn(plan, docs["plan"], now)
    BY <1>3 DEF Commit
  <2> QED BY <1>t, <2>1, CommitAdvances
<1>4. ASSUME UNCHANGED <<spec, plan>> PROVE Done
  BY <1>4 DEF Advances
<1>5. ASSUME GitStep PROVE Done
  BY <1>3, <1>5 DEF GitStep
<1>6. ASSUME NEW c \in Code, EditCode(c) PROVE Done
  BY <1>4, <1>6 DEF EditCode
<1>7. ASSUME NEW g \in Feature, GuardRefuses(g) \/ GuardAllows(g) PROVE Done
  BY <1>4, <1>7 DEF GuardRefuses, GuardAllows, artifacts
<1>8. ASSUME SpoilTraces \/ UNCHANGED vars PROVE Done
  BY <1>4, <1>8 DEF SpoilTraces, vars, artifacts
<1> HIDE DEF Done
<1>9. Done
  BY <1>1, <1>2, <1>5, <1>6, <1>7, <1>8 DEF Next
<1> QED BY <1>9 DEF Done

\* A document that is newer than the task list stays newer, whichever clock the
\* comparison is put on.
LEMMA NewerStays ==
  ASSUME TypeOK, NEW Content, Absent \notin Content,
         \A content \in Content : content.body \in Nat,
         NEW a \in GitFile(Content), NEW new \in GitFile(Content), Advances(a, new),
         Dated(a, clock), Bodied(a, clock), Exists(a),
         NEW b \in GitFile(TasksContent), Dated(b, clock), Newer(a, b)
  PROVE  Newer(new, b) /\ Exists(new)
<1>1. /\ clock \in Nat /\ now = clock + 1
      /\ b.mtime \in Nat /\ b.commit \in Nat /\ b.mtime <= clock /\ b.commit <= clock
      /\ a.mtime \in Nat /\ a.commit \in Nat
  BY DEF TypeOK, now, GitFile, Dated
<1>2. CASE new = a
  BY <1>2
<1>3. CASE /\ new.now = a.now /\ new.head = a.now
           /\ new.mtime = a.mtime /\ new.commit = now
  <2>1. ~Moved(new) /\ Exists(new)
    BY <1>3 DEF Moved, ChangeClass, IsDirty, Exists
  <2>2. CASE Moved(b)
    BY <1>1, <1>3, <2>1, <2>2 DEF Newer
  <2>3. CASE ~Moved(b)
    BY <1>1, <1>3, <2>1, <2>3 DEF Newer
  <2> QED BY <2>2, <2>3
<1>4. CASE /\ Exists(new) /\ new.head = a.head
           /\ new.mtime = now /\ new.commit = a.commit
           /\ new.now.body = now \/ new.now.body = a.now.body
  <2>1. Tracked(a) => a.head.body \in Nat /\ a.head.body <= clock
    BY DEF Bodied, Tracked, GitFile
  <2>2. new.now.body = now => Moved(new)
    BY <1>1, <1>4, <2>1 DEF Moved, ChangeClass, IsDirty, Tracked, Exists
  <2>3. new.now.body = a.now.body /\ Moved(a) => Moved(new)
    BY <1>4 DEF Moved, ChangeClass, IsDirty, Tracked, Exists
  <2>4. CASE Moved(new) \/ Moved(b)
    BY <1>1, <1>4, <2>4 DEF Newer
  <2>5. CASE ~Moved(new) /\ ~Moved(b)
    BY <1>1, <1>4, <2>2, <2>3, <2>5 DEF Newer
  <2> QED BY <1>4, <2>4, <2>5
<1> QED BY <1>2, <1>3, <1>4 DEF Advances

\* forge-state.py compute_drift: while the task list stays as it is, nothing but
\* putting the spec back clears drift.
THEOREM TasksClearDrift == Spec => DriftClearedByTasksOnly
<1> DEFINE Stays == \A f \in Feature :
             Drifted(f) /\ tasks'[f] = tasks[f] /\ ~Revert(f) => Drifted(f)'
<1>1. TypeOK /\ DatedInv /\ [Next]_vars => [Stays]_vars
  <2> SUFFICES ASSUME TypeOK, DatedInv, [Next]_vars, NEW f \in Feature,
                      Drifted(f), tasks'[f] = tasks[f], ~Revert(f)
               PROVE  Drifted(f)'
    OBVIOUS
  <2>1. /\ spec[f] \in GitFile(SpecContent) /\ spec'[f] \in GitFile(SpecContent)
        /\ plan[f] \in GitFile(PlanContent) /\ plan'[f] \in GitFile(PlanContent)
        /\ tasks[f] \in GitFile(TasksContent)
    BY NextType DEF TypeOK, ArtifactsTypeOK
  <2>2. /\ \A content \in SpecContent : content.body \in Nat
        /\ \A content \in PlanContent : content.body \in Nat
    BY DEF SpecContent, PlanContent
  <2>3. ~Clone
    <3>1. ASSUME Clone PROVE tasks'[f].mtime = now
      BY <3>1, <2>1 DEF Clone, Tree, CheckedOut, GitFile, TypeOK, ArtifactsTypeOK
    <3>2. tasks[f].mtime <= clock /\ tasks[f].mtime \in Nat /\ clock \in Nat
      BY <2>1 DEF DatedInv, Dated, GitFile, TypeOK
    <3> QED BY <3>1, <3>2 DEF now
  <2>4. Advances(spec[f], spec'[f]) /\ Advances(plan[f], plan'[f])
    BY <2>3, DocsAdvance
  <2>5. /\ Dated(spec[f], clock) /\ Bodied(spec[f], clock)
        /\ Dated(plan[f], clock) /\ Bodied(plan[f], clock) /\ Dated(tasks[f], clock)
    BY DEF DatedInv
  <2>6. CASE SpecDrifted(f)
    <3>1. Newer(spec'[f], tasks[f]) /\ Exists(spec'[f])
      BY <2>1, <2>2, <2>4, <2>5, <2>6, NewerStays, AbsentAssumption DEF SpecDrifted
    <3> QED BY <2>6, <3>1 DEF Drifted, SpecDrifted
  <2>7. CASE PlanDrifted(f)
    <3>1. Newer(plan'[f], tasks[f]) /\ Exists(plan'[f])
      BY <2>1, <2>2, <2>4, <2>5, <2>7, NewerStays, AbsentAssumption DEF PlanDrifted
    <3> QED BY <3>1 DEF Drifted, PlanDrifted
  <2> QED BY <2>6, <2>7 DEF Drifted
<1> QED BY <1>1, TypeCorrect, DatedInvariant, PTL DEF Spec, DriftClearedByTasksOnly

----------------------------------------------------------------------------
(* Staleness, with dates as fine as the stamps.                            *)

\* The newest of a set of stamps, by what characterises it.
LEMMA NewestIs ==
  ASSUME NEW T \in SUBSET Nat, NEW t \in T, \A u \in T : u <= t
  PROVE  Newest(T) = t
<1>1. \A s \in T : (\A u \in T : u <= s) => s = t
  OBVIOUS
<1> QED BY <1>1 DEF Newest

\* Where a second holds one stamp, seconds order as stamps do.
LEMMA SecondIsStamp ==
  ASSUME SecondLength = 1, NEW t \in Nat
  PROVE  Second(t) = t
BY DEF Second

\* The date of a report is behind the clock.
LEMMA ReportDated ==
  ASSUME TypeOK, DatedInv, NEW f \in Feature
  PROVE  LastChange(report[f]) \in Nat /\ LastChange(report[f]) < now
<1>1. /\ report[f].mtime \in Nat /\ report[f].commit \in Nat /\ clock \in Nat
      /\ report[f].mtime <= clock /\ report[f].commit <= clock
  BY DEF TypeOK, ArtifactsTypeOK, GitFile, DatedInv, Dated
<1> QED BY <1>1 DEF LastChange, now

\* A code file that an edit has just written has a body no commit holds.
LEMMA EditedIsDirty ==
  ASSUME TypeOK, DatedInv, NEW c \in Code, EditCode(c)
  PROVE  /\ code'[c].mtime = now /\ code'[c].now # code[c].now
         /\ c \in DirtyCode'
<1>1. now \in Nat /\ clock \in Nat /\ now = clock + 1 /\ code[c] \in GitFile(CodeContent)
  BY NowType DEF now, TypeOK, ArtifactsTypeOK
<1>2. [body |-> now] \in CodeContent /\ [body |-> now] # Absent
  BY <1>1, AbsentAssumption DEF CodeContent
<1>3. code'[c] = Written(code[c], [body |-> now], now)
  BY DEF EditCode, TypeOK, ArtifactsTypeOK
<1>4. /\ code'[c].now = [body |-> now] /\ code'[c].mtime = now
      /\ code'[c].head = code[c].head
  BY <1>1, <1>3 DEF Written, GitFile
<1>5. /\ Exists(code[c]) => code[c].now.body \in Nat /\ code[c].now.body <= clock
      /\ Tracked(code[c]) => code[c].head.body \in Nat /\ code[c].head.body <= clock
  BY <1>1 DEF DatedInv, Bodied, Exists, Tracked, GitFile, CodeContent
<1>6. code[c].now # [body |-> now] /\ code[c].head # [body |-> now]
  BY <1>1, <1>2, <1>5 DEF Exists, Tracked
<1> QED BY <1>2, <1>4, <1>6 DEF DirtyCode, IsDirty, Exists

\* forge-state.py last_code_change, _eval_staleness: an edit of the code stales every
\* evaluation on disk.
THEOREM EditsStale ==
  ASSUME SecondLength = 1
  PROVE  Spec => CodeEditStalesReports
<1> DEFINE Stales == \A c \in Code : EditCode(c) =>
             \A f \in Feature : Exists(report[f]) => EvalStale(f)'
<1>1. TypeOK /\ DatedInv /\ [Next]_vars => [Stales]_vars
  <2> SUFFICES ASSUME TypeOK, DatedInv, [Next]_vars, NEW c \in Code, EditCode(c),
                      NEW f \in Feature, Exists(report[f])
               PROVE  EvalStale(f)'
    OBVIOUS
  <2> DEFINE T == {code'[d].mtime : d \in DirtyCode'}
  <2>1. now \in Nat /\ report' = report
    BY NowType DEF EditCode
  <2>2. clock' = now /\ code' \in [Code -> GitFile(CodeContent)]
    BY NextType DEF EditCode, Tick, TypeOK, ArtifactsTypeOK
  <2>3. \A d \in Code : code'[d].mtime \in Nat /\ code'[d].mtime <= now
    BY <2>2, DatedStep DEF DatedInv, Dated, GitFile
  <2>4. T \in SUBSET Nat /\ now \in T /\ \A u \in T : u <= now
    BY <2>3, EditedIsDirty DEF DirtyCode
  <2>5. Newest(T) = now
    <3> HIDE DEF T
    <3> QED BY <2>4, NewestIs
  <2>6. DirtyCode' # {}
    BY EditedIsDirty
  <2>7. LastCodeChange' = now
    BY <2>5, <2>6 DEF LastCodeChange
  <2>8. LastChange(report[f])' = LastChange(report[f])
    BY <2>1
  <2>9. Second(now) = now /\ Second(LastChange(report[f])) = LastChange(report[f])
    BY <2>1, ReportDated, SecondIsStamp
  <2> QED BY <2>1, <2>7, <2>8, <2>9, ReportDated DEF EvalStale, Second
<1> QED BY <1>1, TypeCorrect, DatedInvariant, PTL DEF Spec, CodeEditStalesReports

\* The code is changed by an edit, a commit or a clone alone.
LEMMA CodeMovers ==
  ASSUME [Next]_vars
  PROVE  \/ code' = code
         \/ \E c \in Code : EditCode(c)
         \/ \E docs, C : Commit(docs, C)
         \/ Clone
<1> DEFINE Done == code' = code
<1>1. ASSUME NEW f \in Feature, SessionStep(f) PROVE Done
  BY <1>1 DEF SessionStep, CreateSpec, FreeEdit, Promote, EditBody, Approve, StartWork,
     CheckClose, Close, Archive, Supersede, Retire, Revert, EditSpec, artifacts
<1>2. ASSUME NEW f \in Feature, AgentStep(f) PROVE Done
  BY <1>2 DEF AgentStep, WritePlan, ApprovePlan, Resync, CheckTask, Evaluate, RecordRun
<1>3. ASSUME NEW f \in Feature, GuardRefuses(f) \/ GuardAllows(f) PROVE Done
  BY <1>3 DEF GuardRefuses, GuardAllows, artifacts
<1>4. ASSUME SpoilTraces \/ UNCHANGED vars PROVE Done
  BY <1>4 DEF SpoilTraces, vars, artifacts
<1>5. ASSUME GitStep PROVE (\E docs, C : Commit(docs, C)) \/ Clone
  BY <1>5 DEF GitStep
<1> HIDE DEF Done
<1>6. Done \/ (\E c \in Code : EditCode(c)) \/ GitStep
  BY <1>1, <1>2, <1>3, <1>4 DEF Next
<1> QED BY <1>5, <1>6 DEF Done

\* Of finitely many files one holds the newest stamp.
LEMMA NewestOfFiles ==
  ASSUME NEW S, IsFiniteSet(S), NEW stamp, \A c \in S : stamp[c] \in Nat
  PROVE  \/ Newest({stamp[c] : c \in S}) = 0
         \/ \E c \in S : Newest({stamp[d] : d \in S}) = stamp[c]
<1> DEFINE R == {p \in S \X S : stamp[p[1]] <= stamp[p[2]]}
           T == {stamp[c] : c \in S}
<1>1. CASE S = {}
  BY <1>1 DEF Newest
<1>2. CASE S # {}
  <2>1. \A x, y \in S : <<x, y>> \in R <=> stamp[x] <= stamp[y]
    OBVIOUS
  <2> HIDE DEF R
  <2>2. /\ \A x, y \in S : x # y => <<x, y>> \in R \/ <<y, x>> \in R
        /\ \A x, y, z \in S : <<x, y>> \in R /\ <<y, z>> \in R => <<x, z>> \in R
    BY <2>1
  <2>3. PICK c \in S : \A d \in S \ {c} : <<d, c>> \in R
    BY <1>2, <2>2, LastElement
  <2>4. T \in SUBSET Nat /\ stamp[c] \in T /\ \A u \in T : u <= stamp[c]
    <3>1. \A d \in S \ {c} : stamp[d] <= stamp[c]
      BY <2>1, <2>3
    <3>2. stamp[c] <= stamp[c]
      BY <2>3
    <3>3. \A d \in S : stamp[d] <= stamp[c]
      BY <3>1, <3>2
    <3> QED BY <3>3
  <2> HIDE DEF T
  <2>5. Newest(T) = stamp[c]
    BY <2>4, NewestIs
  <2> QED BY <2>5 DEF T
<1> QED BY <1>1, <1>2

\* The date of the code is behind the clock.
LEMMA LastCodeDated ==
  ASSUME TypeOK, DatedInv
  PROVE  LastCodeChange \in Nat /\ LastCodeChange < now
<1> DEFINE mtimes == [c \in Code |-> code[c].mtime]
           commits == [c \in Code |-> code[c].commit]
<1>1. \A c \in Code : /\ mtimes[c] \in Nat /\ commits[c] \in Nat
                      /\ mtimes[c] <= clock /\ commits[c] <= clock
  BY DEF TypeOK, ArtifactsTypeOK, GitFile, DatedInv, Dated
<1>2. IsFiniteSet(Code) /\ IsFiniteSet(DirtyCode) /\ DirtyCode \subseteq Code
  BY ForgeAssumption, FS_Subset DEF DirtyCode
<1>3. /\ {code[c].mtime : c \in DirtyCode} = {mtimes[c] : c \in DirtyCode}
      /\ {code[c].commit : c \in Code} = {commits[c] : c \in Code}
  BY <1>2
<1>4. LastCodeChange = IF DirtyCode # {} THEN Newest({mtimes[c] : c \in DirtyCode})
                       ELSE Newest({commits[c] : c \in Code})
  BY <1>3 DEF LastCodeChange
<1>5. clock \in Nat
  BY DEF TypeOK
<1> HIDE DEF mtimes, commits
<1>6. CASE DirtyCode # {}
  <2>1. LastCodeChange = Newest({mtimes[c] : c \in DirtyCode})
    BY <1>4, <1>6
  <2>2. LastCodeChange = 0 \/ \E c \in DirtyCode : LastCodeChange = mtimes[c]
    BY <1>1, <1>2, <2>1, NewestOfFiles
  <2> QED BY <1>1, <1>2, <1>5, <2>2 DEF now
<1>7. CASE DirtyCode = {}
  <2>1. LastCodeChange = Newest({commits[c] : c \in Code})
    BY <1>4, <1>7
  <2>2. LastCodeChange = 0 \/ \E c \in Code : LastCodeChange = commits[c]
    BY <1>1, <1>2, <2>1, NewestOfFiles
  <2> QED BY <1>1, <1>5, <2>2 DEF now
<1> QED BY <1>6, <1>7

\* A later stamp is in no earlier second.
LEMMA SecondsPass ==
  /\ \A t \in Nat : Second(t) \in Int
  /\ \A s, t \in Nat : s <= t => Second(s) <= Second(t)
<1>1. SecondLength \in Nat /\ SecondLength > 0
  BY ForgeAssumption
<1>2. ASSUME NEW t \in Nat
      PROVE  /\ Second(t) \in Int
             /\ SecondLength * Second(t) <= t /\ t < SecondLength * Second(t) + SecondLength
  BY <1>1 DEF Second
<1>3. ASSUME NEW s \in Nat, NEW t \in Nat, s <= t, ~(Second(s) <= Second(t))
      PROVE  FALSE
  <2>1. PICK p \in Int, q \in Int : p = Second(s) /\ q = Second(t)
    BY <1>2
  <2>2. p >= q + 1
    BY <1>3, <2>1
  <2>3. SecondLength * p >= SecondLength * (q + 1)
    BY <1>1, <2>2
  <2>4. SecondLength * (q + 1) = SecondLength * q + SecondLength
    BY <1>1
  <2>5. SecondLength * p <= s /\ t < SecondLength * q + SecondLength
    BY <1>2, <2>1
  <2>6. SecondLength * p \in Int /\ SecondLength * q \in Int
    BY <1>1
  <2> QED BY <1>1, <1>3, <2>3, <2>4, <2>5, <2>6
<1> QED BY <1>2, <1>3

\* forge-state.py last_code_change: what is committed last is the newest, and what
\* is uncommitted keeps its date, so a commit of all that is uncommitted, or of
\* any part without the newest, leaves a stale evaluation stale.
THEOREM CommitsKeepStale == Spec => StaleSurvivesCommits
<1> DEFINE Stays == \A f \in Feature :
             /\ EvalStale(f) /\ report'[f] = report[f]
             /\ \A c \in Code : code'[c].now = code[c].now
             /\ \/ DirtyCode' = {}
                \/ \E c \in DirtyCode \cap DirtyCode' :
                     \A d \in DirtyCode : code[d].mtime <= code[c].mtime
             => EvalStale(f)'
           NewestStays == \E c \in DirtyCode \cap DirtyCode' :
                            \A d \in DirtyCode : code[d].mtime <= code[c].mtime
<1>1. TypeOK /\ DatedInv /\ [Next]_vars => [Stays]_vars
  <2> SUFFICES ASSUME TypeOK, DatedInv, [Next]_vars, NEW f \in Feature, EvalStale(f),
                      report'[f] = report[f], \A c \in Code : code'[c].now = code[c].now,
                      DirtyCode' = {} \/ NewestStays
               PROVE  EvalStale(f)'
    OBVIOUS
  <2>1. /\ now \in Nat /\ code \in [Code -> GitFile(CodeContent)]
        /\ code' \in [Code -> GitFile(CodeContent)]
    BY NowType, NextType DEF TypeOK, ArtifactsTypeOK
  <2>2. CASE code' = code
    <3>1. LastCodeChange' = LastCodeChange
      BY <2>2 DEF LastCodeChange, DirtyCode
    <3> QED BY <3>1 DEF EvalStale, Second
  <2>3. ASSUME NEW c \in Code, EditCode(c) PROVE FALSE
    BY <2>3, EditedIsDirty
  <2>4. ASSUME Clone PROVE FALSE
    <3>1. report'[f].mtime = now
      BY <2>4 DEF Clone, Tree, CheckedOut, GitFile, TypeOK, ArtifactsTypeOK
    <3>2. report[f].mtime <= clock /\ report[f].mtime \in Nat /\ clock \in Nat
      BY DEF DatedInv, Dated, GitFile, TypeOK, ArtifactsTypeOK
    <3> QED BY <3>1, <3>2 DEF now
  <2>5. ASSUME NEW docs, NEW C, Commit(docs, C), code' # code
        PROVE  LastCodeChange' \in Nat /\ LastCodeChange <= LastCodeChange'
    <3>1. clock' = now /\ code' = CommittedIn(code, C, now)
      BY <2>5 DEF Commit, Tick
    <3>2. \A c \in Code : code'[c] = IF c \in C THEN Committed(code[c], now) ELSE code[c]
      BY <2>1, <3>1 DEF CommittedIn
    <3>3. LastCodeChange \in Nat /\ LastCodeChange < now
      BY LastCodeDated
    <3>4. CASE DirtyCode' = {}
      <4> DEFINE T == {code'[c].commit : c \in Code}
      <4>1. PICK c \in Code : code'[c] # code[c]
        BY <2>1, <2>5
      <4>2. code'[c].commit = now
        BY <2>1, <3>2, <4>1 DEF Committed, GitFile
      <4>3. \A d \in Code : code'[d].commit \in Nat /\ code'[d].commit <= now
        BY <2>1, <3>1, DatedStep DEF DatedInv, Dated, GitFile
      <4>4. T \in SUBSET Nat /\ now \in T /\ \A u \in T : u <= now
        BY <4>2, <4>3
      <4>5. Newest(T) = now
        <5> HIDE DEF T
        <5> QED BY <4>4, NewestIs
      <4>6. LastCodeChange' = now
        BY <3>4, <4>5 DEF LastCodeChange
      <4> QED BY <2>1, <3>3, <4>6
    <3>5. CASE NewestStays
      <4>1. PICK c \in DirtyCode \cap DirtyCode' :
              \A d \in DirtyCode : code[d].mtime <= code[c].mtime
        BY <3>5
      <4> DEFINE T == {code[d].mtime : d \in DirtyCode}
                 U == {code'[d].mtime : d \in DirtyCode'}
      <4>2. /\ \A d \in Code : code'[d].mtime = code[d].mtime /\ code[d].mtime \in Nat
            /\ DirtyCode' \subseteq DirtyCode
        BY <2>1, <3>2 DEF Committed, GitFile, DirtyCode, IsDirty, Exists
      <4>3. /\ T \in SUBSET Nat /\ code[c].mtime \in T /\ \A u \in T : u <= code[c].mtime
            /\ U \in SUBSET Nat /\ code[c].mtime \in U /\ \A u \in U : u <= code[c].mtime
        BY <4>1, <4>2 DEF DirtyCode
      <4>4. Newest(T) = code[c].mtime /\ Newest(U) = code[c].mtime
        <5> HIDE DEF T, U
        <5> QED BY <4>3, NewestIs
      <4>5. LastCodeChange = code[c].mtime /\ LastCodeChange' = code[c].mtime
        BY <4>1, <4>4 DEF LastCodeChange
      <4> QED BY <3>3, <4>5
    <3> QED BY <3>4, <3>5
  <2>6. ASSUME LastCodeChange' \in Nat, LastCodeChange <= LastCodeChange'
        PROVE  EvalStale(f)'
    <3>1. PICK s, t : s = LastCodeChange /\ t = LastCodeChange'
      OBVIOUS
    <3>2. s \in Nat /\ t \in Nat /\ s <= t
      BY <2>6, <3>1, LastCodeDated
    <3>3. Second(s) <= Second(t) /\ Second(s) \in Int /\ Second(t) \in Int
      BY <3>2, SecondsPass
    <3>4. Second(LastChange(report[f])) \in Int
      BY ReportDated, SecondsPass
    <3>5. Exists(report[f]) /\ Second(s) > Second(LastChange(report[f]))
      BY <3>1 DEF EvalStale
    <3>6. Second(t) > Second(LastChange(report[f]))
      BY <3>3, <3>4, <3>5
    <3> QED BY <3>1, <3>5, <3>6 DEF EvalStale, Second
  <2> QED BY <2>2, <2>3, <2>4, <2>5, <2>6, CodeMovers
<1> QED BY <1>1, TypeCorrect, DatedInvariant, PTL DEF Spec, StaleSurvivesCommits
=============================================================================
