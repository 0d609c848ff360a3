--------------------------- MODULE StopVerify ---------------------------
(***************************************************************************)
(* stop-verify.sh, the hook that runs when a session is about to stop: it  *)
(* looks at what the branch changed since its merge base, committed or     *)
(* not, and sends the session back when a spec or a plan changed and no    *)
(* task list did.  It blocks once: the stop that follows a block passes.   *)
(* forge-state.py answers the question of drift from clocks and history    *)
(* (ForgeState); this hook answers it from two trees.                      *)
(***************************************************************************)
EXTENDS SpecLifecycle

VARIABLES
  base,      \* base[kind][f]: the document at the merge base
  ahead,     \* the branch has commits since then
  session    \* "working", "told" after a block, "stopped"

stopVars == <<base, ahead, session>>
allVars == <<vars, stopVars>>

\* The documents the hook compares, by the name of their file.
File(kind, f) ==
  CASE kind = "spec" -> spec[f] [] kind = "plan" -> plan[f] [] kind = "tasks" -> tasks[f]

HeadTree ==
  [spec |-> [f \in Feature |-> spec[f].head],
   plan |-> [f \in Feature |-> plan[f].head],
   tasks |-> [f \in Feature |-> tasks[f].head]]

----------------------------------------------------------------------------
(* The drift check.                                                        *)

\* Mutant: `git diff --name-only', as the hook once had it.
ChangedInTree(kind, f) == IsDirty(File(kind, f))

\* The file is in CHANGED: against the merge base when there is one, and
\* against HEAD.
Changed(kind, f) ==
  \/ ahead /\ File(kind, f).now # base[kind][f]
  \/ IsDirty(File(kind, f))

\* Mutant: there is no bookkeeping.
NeverLifecycleOnly(kind, f) == FALSE

\* The file differs from its baseline in lifecycle fields alone.
LifecycleOnly(kind, f) ==
  LET baseline == IF ahead THEN base[kind][f] ELSE File(kind, f).head
  IN /\ Exists(File(kind, f))
     /\ baseline # Absent
     /\ baseline.body = File(kind, f).now.body

\* SPECS_CHANGED holds the spec or the plan of f.  A spike's brief.md is not
\* among the names the hook knows.
SpecsChanged(f) ==
  /\ f \notin Spike
  /\ \E kind \in {"spec", "plan"} : Changed(kind, f) /\ ~LifecycleOnly(kind, f)

\* Mutant: only a task list that is not committed yet.
TasksInTree == \E f \in Feature : IsDirty(tasks[f])

\* TASKS_CHANGED: the task list of any feature.
TasksChanged == \E f \in Feature : Changed("tasks", f)

\* The hook sends the session back on account of f.
Blocks(f) == SpecsChanged(f) /\ ~TasksChanged /\ Exists(tasks[f])

----------------------------------------------------------------------------
(* The session, its turns and the remote.                                  *)

StopInit == base = HeadTree /\ ahead = FALSE /\ session = "working"

\* Mutant: stop_hook_active is not looked at.
StopAlways ==
  /\ session # "stopped"
  /\ \A f \in Feature : hook[f] # "pending"
  /\ session' = IF \E f \in Feature : Blocks(f) THEN "told" ELSE "stopped"
  /\ UNCHANGED <<vars, base, ahead>>

\* The turn ends; stop_hook_active is set on the stop after a block.
Stop ==
  /\ session # "stopped"
  /\ \A f \in Feature : hook[f] # "pending"
  /\ session' = IF session = "working" /\ \E f \in Feature : Blocks(f)
                THEN "told" ELSE "stopped"
  /\ UNCHANGED <<vars, base, ahead>>

\* The user goes on.
Prompt ==
  /\ session = "stopped"
  /\ session' = "working"
  /\ UNCHANGED <<vars, base, ahead>>

\* The branch is pushed or merged: the default branch, local and remote, is at
\* HEAD.
Push ==
  /\ ahead
  /\ base' = HeadTree
  /\ ahead' = FALSE
  /\ UNCHANGED <<vars, session>>

\* What a session and its agents do to the documents.
Work(f) ==
  /\ session # "stopped"
  /\ \/ SessionStep(f)
     \/ WritePlan(f) \/ ApprovePlan(f) \/ CheckTask(f)
     \/ \E total \in 0..MaxTasks : Resync(f, total)
  /\ UNCHANGED stopVars

\* The other hook answers whatever the session does.
Guard(f) == (GuardRefuses(f) \/ GuardAllows(f)) /\ UNCHANGED stopVars

CommitDocs ==
  /\ \E S \in SUBSET DirtyIn(spec), P \in SUBSET DirtyIn(plan),
        T \in SUBSET DirtyIn(tasks) :
       /\ S \cup P \cup T # {}
       /\ Commit([spec |-> S, plan |-> P, tasks |-> T, report |-> {}], {})
  /\ ahead' = TRUE
  /\ UNCHANGED <<base, session>>

StopNext ==
  \/ \E f \in Feature : Work(f) \/ Guard(f)
  \/ CommitDocs \/ Push \/ Stop \/ Prompt

\* The hook of a spec answers, and a session tries to stop again and again.
StopFairness ==
  /\ \A f \in Feature : WF_allVars(Guard(f))
  /\ SF_allVars(Stop)

StopSpec == Init /\ StopInit /\ [][StopNext]_allVars /\ StopFairness

----------------------------------------------------------------------------
(* Properties.                                                             *)

\* Committing does not move a change out of the hook's view (stop-verify.sh:
\* "every dev agent's work was invisible", when it compared with HEAD).
BlockSurvivesCommit ==
  [][\A f \in Feature : CommitDocs /\ Blocks(f) => Blocks(f)']_allVars

\* Bookkeeping sends no session back ("unless the change is BOOKKEEPING"): no
\* edit that leaves the body of the spec of f, its plan and the task lists alone
\* brings a block that was not there, whatever the branch has committed before it.
SameBodies(f) ==
  /\ spec'[f].head = spec[f].head /\ spec'[f].now.body = spec[f].now.body
  /\ plan'[f] = plan[f] /\ tasks' = tasks

BookkeepingNeverBlocks ==
  [][\A f \in Feature :
       Exists(spec[f]) /\ SameBodies(f) /\ ~Push => (Blocks(f)' => Blocks(f))]_allVars

\* With nothing uncommitted the two answers about drift agree in the direction
\* that matters to the user who is sent back: a block is drift to forge-state.py.
\* Re-syncs fall on different days (DayLength = 1), so that no two commits of a
\* task list cancel out.
CleanBlockIsDrift ==
  \A f \in Feature :
    /\ \A kind \in {"spec", "plan", "tasks"}, g \in Feature : ~IsDirty(File(kind, g))
    /\ Blocks(f)
    => Drifted(f)

\* No drift keeps a session from stopping: tasks.md speaks of "the session
\* blocked forever" as what must not be.
StopsAgain == []<>(session = "stopped")

----------------------------------------------------------------------------
(* What the documents say and the code does not do.                        *)

\* "spec.md/plan.md changed without re-syncing tasks.md -> block (drift rule)"
\* (stop-verify.sh): a session that stops without having been told leaves no
\* spec behind that changed while its own task list did not.
StopLeavesNoDrift ==
  [][session = "working" /\ Stop /\ session' = "stopped" =>
       \A f \in Feature :
         SpecsChanged(f) /\ Exists(tasks[f]) => Changed("tasks", f)]_allVars
=============================================================================
