-------------------------- MODULE SpecLifecycle --------------------------
(***************************************************************************)
(* The life of a feature: the commands and agents that write its           *)
(* artifacts, the user who commits them, and post-spec-guard.sh, the hook  *)
(* that judges every edit of a spec.  The hook is a process of its own: it *)
(* runs after the write and compares the file with HEAD, and other agents  *)
(* go on writing in between.  It cannot undo the edit; a refusal stops the *)
(* turn until the session puts the file back.                              *)
(***************************************************************************)
EXTENDS ForgeState

CONSTANTS
  MaxClock,     \* bound: the number of writes and commits
  DayLength,    \* how many stamps share one day, the precision of `synced:'
  ObeysGuard,   \* the session puts back what the hook refuses
  Evaluable,    \* the hook finds a Python with pyyaml, or uv
  FreeEdits     \* the session also edits frontmatter outside the commands

ASSUME LifecycleAssumption ==
  /\ MaxClock \in Nat
  /\ DayLength \in Nat \ {0}
  /\ {ObeysGuard, Evaluable, FreeEdits} \subseteq BOOLEAN

VARIABLES
  clock,     \* the stamp of the last write or commit
  hook,      \* hook[f]: "idle", "pending" after an edit of f's spec, "blocked"
  closing,   \* the features whose close /wellforge:done has checked, not written
  attested   \* the features whose last edit was to `done', the gate then passing

vars == <<artifacts, clock, hook, closing, attested>>

Doc == {"spec", "plan", "tasks", "report"}

TypeOK ==
  /\ ArtifactsTypeOK
  /\ clock \in Nat
  /\ hook \in [Feature -> {"idle", "pending", "blocked"}]
  /\ closing \subseteq Feature
  /\ attested \subseteq Feature

Init ==
  /\ spec = [f \in Feature |-> NoFile]
  /\ plan = [f \in Feature |-> NoFile]
  /\ tasks = [f \in Feature |-> NoFile]
  /\ report = [f \in Feature |-> NoFile]
  /\ code = [c \in Code |-> NoFile]
  /\ verdict = [f \in Feature |-> [qe |-> "absent", security |-> "absent"]]
  /\ badTrace = FALSE
  /\ clock = 0
  /\ hook = [f \in Feature |-> "idle"]
  /\ closing = {}
  /\ attested = {}

now == clock + 1

Tick == clock < MaxClock /\ clock' = now

----------------------------------------------------------------------------
(* post-spec-guard.sh                                                      *)

Rank(rigor) ==
  CASE rigor = "spike" -> 1
    [] rigor = "mvp" -> 2
    [] rigor \in {"production", "none"} -> 3

\* Rule 1.
LowersRigor(old, new) == Rank(new.rigor) < Rank(old.rigor)

\* Rule 2.
LeavesTerminal(old, new) ==
  \/ old.status = "done" /\ new.status \notin {"done", "superseded", "archived"}
  \/ old.status \in {"superseded", "archived"} /\ new.status # old.status

\* Rule 3: is `done' an arrival, and does the gate let it through?
ArrivesDone(old, new) == new.status = "done" /\ old.status # "done"
GateRefuses(f) == badTrace \/ (f \notin Spike /\ ~GatePasses(f))

\* Mutant: out of `done' only, as the hook once was.
RefusesOutOfDoneOnly(f) ==
  LET old == spec[f].head
      new == spec[f].now
  IN /\ Exists(spec[f]) /\ Tracked(spec[f])
     /\ \/ LowersRigor(old, new)
        \/ old.status = "done" /\ LeavesTerminal(old, new)
        \/ ArrivesDone(old, new) /\ Evaluable /\ GateRefuses(f)
        \/ new.status = "invalid"

\* Mutant: the gate is not evaluated on the way to `done'.
RefusesWithoutGate(f) ==
  LET old == spec[f].head
      new == spec[f].now
  IN /\ Exists(spec[f]) /\ Tracked(spec[f])
     /\ \/ LowersRigor(old, new)
        \/ LeavesTerminal(old, new)
        \/ new.status = "invalid"

\* A file with no version at HEAD is being created: only rule 4 applies.
Refuses(f) ==
  LET old == spec[f].head
      new == spec[f].now
  IN /\ Exists(spec[f])
     /\ \/ /\ Tracked(spec[f])
           /\ Frontmatter(old) # Frontmatter(new)
           /\ \/ LowersRigor(old, new)
              \/ LeavesTerminal(old, new)
              \/ ArrivesDone(old, new) /\ Evaluable /\ GateRefuses(f)
              \/ new.status = "invalid"
        \/ ~Tracked(spec[f]) /\ new.status = "invalid"

GuardRefuses(f) ==
  /\ hook[f] = "pending"
  /\ Refuses(f)
  /\ hook' = [hook EXCEPT ![f] = "blocked"]
  /\ UNCHANGED <<artifacts, clock, closing, attested>>

\* attested is history: the hook keeps nothing from one edit to the next.
MeetsGate(f) ==
  /\ Tracked(spec[f]) /\ ArrivesDone(spec[f].head, spec[f].now)
  /\ ~GateRefuses(f)

GuardAllows(f) ==
  /\ hook[f] = "pending"
  /\ ~Refuses(f)
  /\ hook' = [hook EXCEPT ![f] = "idle"]
  /\ attested' = IF MeetsGate(f) THEN attested \cup {f} ELSE attested \ {f}
  /\ UNCHANGED <<artifacts, clock, closing>>

----------------------------------------------------------------------------
(* Edits of a spec.  Each is a Write or Edit tool call, so the hook runs   *)
(* after it; the session makes no other while a hook has not answered.     *)

EditSpec(f, content) ==
  /\ hook[f] # "pending"
  /\ Tick
  /\ spec' = [spec EXCEPT ![f] = Written(spec[f], content, now)]
  /\ hook' = [hook EXCEPT ![f] = "pending"]
  /\ UNCHANGED <<plan, tasks, report, code, verdict, badTrace, attested>>

\* /wellforge:spec drafts, /wellforge:spike starts; a retro spec records work
\* that is already done.
CreateSpec(f, status, rigor) ==
  /\ ~Exists(spec[f])
  /\ \/ f \notin Spike /\ status \in {"draft", "done"}
     \/ f \in Spike /\ status = "in-progress" /\ rigor = "spike"
  /\ EditSpec(f, [body |-> now, status |-> status, rigor |-> rigor])
  /\ UNCHANGED closing

\* The requirements change.
EditBody(f) ==
  /\ Exists(spec[f])
  /\ EditSpec(f, [spec[f].now EXCEPT !.body = now])
  /\ UNCHANGED closing

\* The user approves the spec.
Approve(f) ==
  /\ Exists(spec[f])
  /\ spec[f].now.status = "draft"
  /\ EditSpec(f, [spec[f].now EXCEPT !.status = "approved"])
  /\ UNCHANGED closing

\* The spec has been approved, and is not given up.
Approved(f) == spec[f].now.status \in {"approved", "in-progress", "done"}

\* The gate of /wellforge:tasks and /wellforge:implement: what the tier asks for
\* upstream of a task list.
Ready(f) ==
  CASE TierOf(f) = "production" ->
         Exists(plan[f]) /\ plan[f].now.status = "approved"
    [] TierOf(f) = "mvp" -> Approved(f)
    [] TierOf(f) = "spike" -> FALSE

\* /wellforge:implement, before the first of the unchecked tasks is dispatched,
\* whatever the status was.
StartWork(f) ==
  /\ Exists(spec[f]) /\ Exists(tasks[f])
  /\ tasks[f].now.body.checked < tasks[f].now.body.total
  /\ Ready(f)
  /\ spec[f].now.status # "in-progress"
  /\ EditSpec(f, [spec[f].now EXCEPT !.status = "in-progress"])
  /\ UNCHANGED closing

\* One Edit outside the commands flips either field.
FreeEdit(f, status, rigor) ==
  /\ FreeEdits
  /\ Exists(spec[f])
  /\ Frontmatter(spec[f].now) # [status |-> status, rigor |-> rigor]
  /\ EditSpec(f, [spec[f].now EXCEPT !.status = status, !.rigor = rigor])
  /\ UNCHANGED closing

\* /wellforge:done, step 2: the gate, read once.  A person judges a spike.
CheckClose(f) ==
  /\ Exists(spec[f])
  /\ f \notin closing /\ hook[f] # "pending"
  /\ f \in Spike \/ GatePasses(f)
  /\ closing' = closing \cup {f}
  /\ UNCHANGED <<artifacts, clock, hook, attested>>

\* Step 3: the status, written on the answer step 2 got.
Close(f) ==
  /\ Exists(spec[f])
  /\ f \in closing
  /\ EditSpec(f, [spec[f].now EXCEPT !.status = "done"])
  /\ closing' = closing \ {f}

\* --archive and --superseded-by skip the gate and refuse shipped work.  The
\* date they write (`archived:', `superseded:') is no lifecycle field to
\* forge-state.py, so the edit counts as one of the body.
Retire(f, status) ==
  /\ Exists(spec[f])
  /\ spec[f].now.status # "done"
  /\ EditSpec(f, [spec[f].now EXCEPT !.status = status, !.body = now])
  /\ UNCHANGED closing

Archive(f) == Retire(f, "archived")

Supersede(f) ==
  /\ \E g \in Feature \ {f} : Exists(spec[g])
  /\ Retire(f, "superseded")

\* /wellforge:promote, one tier at a time: the tier rises and the status stays;
\* the close that follows is CheckClose and Close.  A spike's spec is a new file.
Promote(f, tier) ==
  /\ Exists(spec[f]) /\ f \notin Spike
  /\ Rank(tier) = Rank(TierOf(f)) + 1
  /\ EditSpec(f, [spec[f].now EXCEPT !.rigor = tier])
  /\ UNCHANGED closing

\* Mutant: the session goes on and leaves what was refused on disk.
LeaveRefused(f) ==
  /\ hook[f] = "blocked"
  /\ Tick
  /\ hook' = [hook EXCEPT ![f] = "idle"]
  /\ UNCHANGED <<artifacts, closing, attested>>

\* `git checkout -- spec.md'.  A Bash command: no hook follows.  A refused
\* creation has nothing to go back to, and the file goes.
Revert(f) ==
  /\ hook[f] = "blocked"
  /\ Tick
  /\ spec' = [spec EXCEPT ![f] = CheckedOut(spec[f], now)]
  /\ hook' = [hook EXCEPT ![f] = "idle"]
  /\ attested' = attested \ {f}
  /\ UNCHANGED <<plan, tasks, report, code, verdict, badTrace, closing>>

----------------------------------------------------------------------------
(* The other artifacts.  Their writers are agents of their own: they write *)
(* whatever the hook of a spec is doing.                                   *)

\* /wellforge:plan drafts; the drift rule revises it; a promotion adds it to work
\* that is done.
WritePlan(f) ==
  /\ Exists(spec[f]) /\ f \notin Spike
  /\ Approved(f)
  /\ Tick
  /\ LET status == IF Exists(plan[f]) THEN plan[f].now.status ELSE "draft" IN
     plan' = [plan EXCEPT ![f] =
       Written(plan[f], [body |-> now, status |-> status], now)]
  /\ UNCHANGED <<spec, tasks, report, code, verdict, badTrace, hook, closing, attested>>

\* The user approves the plan: a lifecycle field, and no hook.
ApprovePlan(f) ==
  /\ Exists(plan[f]) /\ plan[f].now.status = "draft"
  /\ Tick
  /\ plan' = [plan EXCEPT ![f] =
       Written(plan[f], [plan[f].now EXCEPT !.status = "approved"], now)]
  /\ UNCHANGED <<spec, tasks, report, code, verdict, badTrace, hook, closing, attested>>

Day(t) == t \div DayLength

Checked(f) == IF Exists(tasks[f]) THEN tasks[f].now.body.checked ELSE 0

\* /wellforge:tasks: checked tasks are kept and `synced: <today>' is stamped,
\* also when nothing else changes.
Resync(f, total) ==
  /\ Exists(spec[f]) /\ f \notin Spike
  /\ Ready(f)
  /\ Checked(f) <= total
  /\ Tick
  /\ tasks' = [tasks EXCEPT ![f] = Written(tasks[f],
       [body |-> [synced |-> Day(now), total |-> total, checked |-> Checked(f)]],
       now)]
  /\ UNCHANGED <<spec, plan, report, code, verdict, badTrace, hook, closing, attested>>

\* Mutant: a task that is already ticked is counted again.
CheckTaskAgain(f) ==
  /\ Exists(tasks[f])
  /\ Tick
  /\ tasks' = [tasks EXCEPT ![f] =
       Written(tasks[f], [body |-> [tasks[f].now.body EXCEPT !.checked = @ + 1]], now)]
  /\ UNCHANGED <<spec, plan, report, code, verdict, badTrace, hook, closing, attested>>

\* /wellforge:implement ticks a finished task.
CheckTask(f) ==
  /\ Exists(tasks[f])
  /\ LET list == tasks[f].now.body IN
     /\ list.checked < list.total
     /\ Tick
     /\ tasks' = [tasks EXCEPT ![f] =
          Written(tasks[f], [body |-> [list EXCEPT !.checked = @ + 1]], now)]
  /\ UNCHANGED <<spec, plan, report, code, verdict, badTrace, hook, closing, attested>>

EditCode(c) ==
  /\ Tick
  /\ code' = [code EXCEPT ![c] = Written(code[c], [body |-> now], now)]
  /\ UNCHANGED <<spec, plan, tasks, report, verdict, badTrace, hook, closing, attested>>

\* /wellforge:eval judges the tree it finds and writes its report; it stops when
\* most of the tasks are open.
Evaluate(f, v) ==
  /\ Exists(tasks[f])
  /\ 2 * tasks[f].now.body.checked >= tasks[f].now.body.total
  /\ Tick
  /\ report' = [report EXCEPT ![f] =
       Written(report[f], [body |-> [written |-> now, verdict |-> v]], now)]
  /\ UNCHANGED <<spec, plan, tasks, code, verdict, badTrace, hook, closing, attested>>

\* The trace of a run that implements tasks: a verdict it does not hold leaves
\* the older one in force.
RecordRun(f, qe, security) ==
  /\ Exists(tasks[f])
  /\ verdict' = [verdict EXCEPT ![f] =
       [qe |-> IF qe = "absent" THEN @.qe ELSE qe,
        security |-> IF security = "absent" THEN @.security ELSE security]]
  /\ UNCHANGED <<spec, plan, tasks, report, code, badTrace, clock, hook, closing, attested>>

\* A trace that does not load is left in .forge/runs/, or repaired.
SpoilTraces ==
  /\ badTrace' = ~badTrace
  /\ UNCHANGED <<spec, plan, tasks, report, code, verdict, clock, hook, closing, attested>>

----------------------------------------------------------------------------
(* git                                                                     *)

\* Mutant: only an edit the hook has not answered holds a commit back.
MayCommitAnswered == \A f \in Feature : hook[f] # "pending"

\* Nothing is committed while a hook has not answered, nor, by a session
\* that obeys, while what it refused is still there.
MayCommit ==
  \A f \in Feature : hook[f] = "idle" \/ (hook[f] = "blocked" /\ ~ObeysGuard)

CommittedIn(files, picked, t) ==
  [x \in DOMAIN files |-> IF x \in picked THEN Committed(files[x], t) ELSE files[x]]

\* One commit of the documents docs[kind] and of the code files C.
Commit(docs, C) ==
  /\ MayCommit
  /\ Tick
  /\ spec' = CommittedIn(spec, docs["spec"], now)
  /\ plan' = CommittedIn(plan, docs["plan"], now)
  /\ tasks' = CommittedIn(tasks, docs["tasks"], now)
  /\ report' = CommittedIn(report, docs["report"], now)
  /\ code' = CommittedIn(code, C, now)
  /\ UNCHANGED <<verdict, badTrace, hook, closing, attested>>

Tree(files) == [x \in DOMAIN files |-> CheckedOut(files[x], now)]

\* A fresh clone: what was not committed is gone, every file is written now.
Clone ==
  /\ Tick
  /\ \A f \in Feature : hook[f] # "pending"
  /\ spec' = Tree(spec) /\ plan' = Tree(plan) /\ tasks' = Tree(tasks)
  /\ report' = Tree(report) /\ code' = Tree(code)
  /\ hook' = [f \in Feature |-> "idle"]
  /\ closing' = {}
  /\ attested' = {}
  /\ UNCHANGED <<verdict, badTrace>>

----------------------------------------------------------------------------
SessionStep(f) ==
  \/ \E status \in Status, rigor \in Rigor : CreateSpec(f, status, rigor)
  \/ \E status \in Status, rigor \in Rigor : FreeEdit(f, status, rigor)
  \/ \E tier \in Tier : Promote(f, tier)
  \/ EditBody(f) \/ Approve(f) \/ StartWork(f)
  \/ CheckClose(f) \/ Close(f) \/ Archive(f) \/ Supersede(f)
  \/ Revert(f)

AgentStep(f) ==
  \/ WritePlan(f) \/ ApprovePlan(f)
  \/ \E total \in 0..MaxTasks : Resync(f, total)
  \/ CheckTask(f)
  \/ \E v \in {"PASS", "FAIL"} : Evaluate(f, v)
  \/ \E qe, security \in Verdict : RecordRun(f, qe, security)

DirtyIn(files) == {x \in DOMAIN files : IsDirty(files[x])}

GitStep ==
  \/ \E S \in SUBSET DirtyIn(spec), P \in SUBSET DirtyIn(plan),
        T \in SUBSET DirtyIn(tasks), R \in SUBSET DirtyIn(report),
        C \in SUBSET DirtyIn(code) :
       /\ S \cup P \cup T \cup R # {} \/ C # {}
       /\ Commit([spec |-> S, plan |-> P, tasks |-> T, report |-> R], C)
  \/ Clone

Next ==
  \/ \E f \in Feature :
       SessionStep(f) \/ AgentStep(f) \/ GuardRefuses(f) \/ GuardAllows(f)
  \/ \E c \in Code : EditCode(c)
  \/ SpoilTraces
  \/ GitStep

Spec == Init /\ [][Next]_vars

----------------------------------------------------------------------------
(* Properties of the guarded lifecycle.                                    *)

\* What the hook has answered stands: outside the time between an edit and
\* its verdict, every spec on disk may be committed over the one at HEAD.
Standing(f) ==
  LET old == spec[f].head
      new == spec[f].now
  IN Tracked(spec[f]) =>
       /\ Exists(spec[f])
       /\ ~LowersRigor(old, new)
       /\ ~LeavesTerminal(old, new)
       /\ ArrivesDone(old, new) => f \in attested

\* Every spec the hook has let through is a lawful successor of HEAD's, also
\* after any number of edits, commits and clones since (post-spec-guard.sh
\* compares each edit with HEAD alone).
GuardHolds == \A f \in Feature : hook[f] = "idle" => Standing(f)

\* A feature whose spec has no version at HEAD.
NoRecord == [status |-> "none", rigor |-> "none"]

CommittedRecord ==
  [f \in Feature |-> IF Tracked(spec[f]) THEN Frontmatter(spec[f].head) ELSE NoRecord]

Promise == INSTANCE FeatureRecord WITH record <- CommittedRecord

\* The committed record of every feature obeys the abstract lifecycle: tiers
\* only rise, closed features stay closed, and `done' is born or attested
\* (done.md: "the single guarded place the `done` transition lives").
RecordImplemented == Promise!RecordSpec

----------------------------------------------------------------------------
(* Properties of the gate.                                                 *)

\* Only the task list clears drift: no edit of spec, plan or code, no verdict
\* and no commit that leaves tasks.md out makes the list look synced
\* (forge-state.py compute_drift).  Putting back the spec is the exception.
DriftClearedByTasksOnly ==
  [][\A f \in Feature :
       Drifted(f) /\ tasks'[f] = tasks[f] /\ ~Revert(f) => Drifted(f)']_vars

\* While spec and task list hold no uncommitted requirement, the close does
\* not take from the gate what it had (forge-state.py change_class: the close
\* used to be refused on the drift it had itself caused).
CloseKeepsGateWhenCommitted ==
  [][\A f \in Feature :
       /\ GatePasses(f) /\ Close(f)
       /\ ~Moved(spec[f]) /\ ~Moved(tasks[f])
       => GatePasses(f)']_vars

\* Every edit of the code stales every evaluation on disk, whatever mixture
\* of committed and uncommitted files the tree holds (last_code_change).
CodeEditStalesReports ==
  [][\A c \in Code : EditCode(c) =>
       \A f \in Feature : Exists(report[f]) => EvalStale(f)']_vars

\* A commit that leaves the report as it is never makes a stale evaluation fresh,
\* when it takes all of the code that is uncommitted or leaves the newest of it
\* (last_code_change).  A commit of the newest part alone is excepted, and does
\* make it fresh: what is left uncommitted then dates the code, however much older
\* it is than what has just been committed.
StaleSurvivesCommits ==
  [][\A f \in Feature :
       /\ EvalStale(f) /\ report'[f] = report[f]
       /\ \A c \in Code : code'[c].now = code[c].now
       /\ \/ DirtyCode' = {}
          \/ \E c \in DirtyCode \cap DirtyCode' :
               \A d \in DirtyCode : code[d].mtime <= code[c].mtime
       => EvalStale(f)']_vars

\* In a tree with nothing uncommitted the gate reads commits alone: a fresh
\* clone, where every mtime is new, answers as the original did.
TreeClean ==
  /\ \A f \in Feature : /\ ~IsDirty(spec[f]) /\ ~IsDirty(plan[f])
                        /\ ~IsDirty(tasks[f]) /\ ~IsDirty(report[f])
  /\ \A c \in Code : ~IsDirty(code[c])

CloneKeepsGate ==
  [][TreeClean /\ Clone =>
       \A f \in Feature : Exists(spec[f]) => Failing(f)' = Failing(f)]_vars

----------------------------------------------------------------------------
(* What the documents say of the program and the code does not do.         *)

\* "closing a feature cannot report drift against its own task list"
\* (skills/spec-driven/SKILL.md): a step that changes lifecycle fields alone,
\* or commits such a change, reports no drift that was not there.
OnlyLifecycle(f) ==
  /\ ~Moved(spec[f]) /\ ~Moved(spec[f])'
  /\ Exists(spec[f]) /\ spec'[f].now.body = spec[f].now.body
  /\ plan'[f] = plan[f] /\ tasks'[f] = tasks[f]

LifecycleIsNeverDrift ==
  [][\A f \in Feature : OnlyLifecycle(f) /\ ~Clone /\ Drifted(f)' => Drifted(f)]_vars
=============================================================================
