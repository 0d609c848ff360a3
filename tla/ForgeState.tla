---------------------------- MODULE ForgeState ----------------------------
(***************************************************************************)
(* forge-state.py: the state of every feature, derived from the artifacts  *)
(* on disk, and the one definition of the gate a feature must pass to be   *)
(* closed.  The script writes nothing: this module declares the artifacts  *)
(* it reads and defines what it answers.                                   *)
(***************************************************************************)
EXTENDS GitFiles, FiniteSets

CONSTANTS
  Feature,        \* the directories of specs/
  Spike,          \* the features that are spikes: a brief.md and no spec.md
  Code,           \* the files outside specs/ and .forge/
  MaxTasks,       \* bound: the most lines a task list holds
  DefaultTier,    \* `rigor' of .forge/manifest.json, or "production"
  SecondLength    \* how many stamps share one second, the precision of
                  \* the two dates the staleness check compares

ASSUME ForgeAssumption ==
  /\ Spike \subseteq Feature
  /\ IsFiniteSet(Code)
  /\ MaxTasks \in Nat
  /\ DefaultTier \in {"spike", "mvp", "production"}
  /\ SecondLength \in Nat \ {0}

Tier == {"spike", "mvp", "production"}
OpenStatus == {"draft", "approved", "in-progress"}
Terminal == {"done", "superseded", "archived"}
\* "invalid": a frontmatter the schema rejects; rigor "none": no such field.
Status == OpenStatus \cup Terminal \cup {"invalid"}
Rigor == Tier \cup {"none"}
Verdict == {"absent", "PASS", "FAIL"}

SpecContent == [body: Nat, status: Status, rigor: Rigor]
PlanContent == [body: Nat, status: {"draft", "approved"}]
TaskList == [synced: Nat, total: 0..MaxTasks, checked: 0..MaxTasks]
TasksContent == [body: TaskList]
ReportContent == [body: [written: Nat, verdict: {"PASS", "FAIL"}]]
CodeContent == [body: Nat]

\* No artifact is mistaken for a missing one.
ASSUME AbsentAssumption ==
  /\ Absent \notin SpecContent /\ Absent \notin PlanContent /\ Absent \notin TasksContent
  /\ Absent \notin ReportContent /\ Absent \notin CodeContent

VARIABLES
  spec,      \* spec[f]: spec.md, brief.md when f is a spike
  plan,      \* plan[f]: plan.md
  tasks,     \* tasks[f]: tasks.md
  report,    \* report[f]: eval-report.md
  code,      \* code[c]: a file of the code
  verdict,   \* verdict[f]: the newest verdicts the run traces of f hold
  badTrace   \* a file of .forge/runs/ does not load

artifacts == <<spec, plan, tasks, report, code, verdict, badTrace>>

ArtifactsTypeOK ==
  /\ spec \in [Feature -> GitFile(SpecContent)]
  /\ plan \in [Feature -> GitFile(PlanContent)]
  /\ tasks \in [Feature -> GitFile(TasksContent)]
  /\ report \in [Feature -> GitFile(ReportContent)]
  /\ code \in [Code -> GitFile(CodeContent)]
  /\ verdict \in [Feature -> [qe: Verdict, security: Verdict]]
  /\ badTrace \in BOOLEAN

----------------------------------------------------------------------------
(* Drift: the spec or the plan moved after the task list did.              *)

\* A spike has no spec.md to drift from.
SpecDrifted(f) == f \notin Spike /\ Exists(spec[f]) /\ Newer(spec[f], tasks[f])
PlanDrifted(f) == Exists(plan[f]) /\ Newer(plan[f], tasks[f])

Drifted(f) == Exists(tasks[f]) /\ (SpecDrifted(f) \/ PlanDrifted(f))

----------------------------------------------------------------------------
(* Staleness: the code moved after the evaluation was written.             *)

Newest(stamps) ==
  IF stamps = {} THEN 0 ELSE CHOOSE t \in stamps : \A u \in stamps : u <= t

DirtyCode == {c \in Code : IsDirty(code[c]) /\ Exists(code[c])}

\* Mutant: only what is committed counts as a change to the code.
LastCommittedCode == Newest({code[c].commit : c \in Code})

\* Mutant: with nothing uncommitted there is no date.
LastUncommittedCode == Newest({code[c].mtime : c \in DirtyCode})

\* Uncommitted files answer alone when there are any.
LastCodeChange ==
  IF DirtyCode # {} THEN Newest({code[c].mtime : c \in DirtyCode})
  ELSE Newest({code[c].commit : c \in Code})

Second(t) == t \div SecondLength

EvalStale(f) ==
  Exists(report[f]) /\ Second(LastCodeChange) > Second(LastChange(report[f]))

----------------------------------------------------------------------------
(* The done gate.                                                          *)

Frontmatter(content) == [status |-> content.status, rigor |-> content.rigor]

TierOf(f) == IF spec[f].now.rigor = "none" THEN DefaultTier ELSE spec[f].now.rigor

TaskFailures(f) ==
  IF ~Exists(tasks[f]) THEN {"no tasks.md"}
  ELSE LET list == tasks[f].now.body IN
       {r \in {"unchecked", "no tasks"} :
          \/ r = "unchecked" /\ list.checked < list.total
          \/ r = "no tasks" /\ list.total = 0}

EvalFailures(f) ==
  IF ~Exists(report[f]) THEN {"no eval-report.md"}
  ELSE IF report[f].now.body.verdict # "PASS" THEN {"eval verdict"}
  ELSE IF EvalStale(f) THEN {"eval is stale"} ELSE {}

VerdictFailures(f) ==
  {r \in {"qe", "security"} :
     /\ verdict[f][r] # "PASS"
     /\ r = "security" => TierOf(f) = "production"}

Failing(f) ==
  TaskFailures(f) \cup VerdictFailures(f)
    \cup (IF TierOf(f) = "production" THEN EvalFailures(f) ELSE {})
    \cup (IF Drifted(f) THEN {"drift"} ELSE {})

\* `passes == true'.  A spike's gate is null: it closes on its findings.
GatePasses(f) == f \notin Spike /\ Failing(f) = {}
=============================================================================
