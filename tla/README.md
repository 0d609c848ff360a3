# A verification project for WellForge

WellForge is a Claude Code plugin, with a CLI and quality gates around it, for
spec-driven work: a feature is a directory `specs/NNN-slug/` of markdown artifacts
(`spec.md` or `brief.md`, `plan.md`, `tasks.md`, `eval-report.md`), commands write
them, agents implement the tasks, hooks judge what was written, and scripts derive
the state of every feature from the files and from git. Around that stand a report over
the traces of runs, generators that write the plugin out for other tools, a companion
that shows designs in a browser, and the release of the CLI. These TLA+ modules model
those parts, TLC checks them on small instances, and TLAPS proves what matters most
for every instance.

Paths below are relative to the repository; `plugin/` stands for `wellforge-plugin/`.

## 1. Inventory

| Component | State it keeps | Operations | Hard behaviour | What makes it correct |
|---|---|---|---|---|
| Lifecycle state, `plugin/scripts/forge-state.py` | none: reads artifacts, git, traces | change class, drift, staleness, tier, done gate | two clocks (mtime, commits), chosen per comparison; dates of a second | drift and staleness outlive commits (but for one kind, below); the gate is the same in every clone |
| Lifecycle guard, `plugin/hooks/scripts/post-spec-guard.sh` | none: compares disk with HEAD | four rules after every edit of a spec | runs after the write, beside other writers; cannot undo | tiers only rise, closed features stay closed, `done` is earned |
| Commands, `plugin/commands/*.md` | the artifacts | spec, plan, tasks, implement, eval, done, promote, spike | each reads a gate in one step and writes in a later one | their writes satisfy the guard |
| Stop hook, `plugin/hooks/scripts/stop-verify.sh` | none: compares disk with the merge base | drift check, compile checks | blocks once per stop; one answer for all features | agrees with forge-state.py about drift |
| Run traces, `plugin/scripts/run-report.py`, `trace-subagent.sh` | `.forge/runs/*.json`, `.events.jsonl` | attribute events, sum, rework, budgets | windows of parallel runs overlap; lines without a type or a run; traces that are damaged or share an id | an event counts for its own run or for none; no token is lost; a bad file costs itself |
| Visual companion, `plugin/skills/visual-companion/scripts/server.cjs`, `helper.js` | screens, events, clients, timers | serve, upgrade, record events, reload, shut down | watcher debounce against messages, timers against requests | clicks are recorded once and in order; a new screen reaches the tab |
| Its start and stop scripts | pid, port, token and info files | start, restart, stop | files outlive the process | a server that found its port free is where the tab looks for it |
| Worktree batches, `plugin/skills/worktree-isolation` | branches, worktrees | dispatch, integrate, reconcile | the second fast-forward is refused | no task's work is lost; the list says what was integrated |
| CLI release, `scripts/release-cli.sh`, `plugin/scripts/check-docs.py` | constant, tag, Formula, remote | bump, commit, tag, push, fetch the digest, Formula | a crash between any two steps; a push that half lands | what people install is sound; a pushed tag is finished in the end |
| `scripts/wellforge` | plugin cache, manifest | update, prune, doctor, scaffolding | an update that half fails | the version in use is never pruned |
| Adapters, `adapters/{copilot,opencode}/generate.py`, `smoke-test.py`, `plugin/scripts/check-routing.py` | the generated tree of a project | generate, wipe, merge servers, smoke test; narrow an agent's tools | a tree the generator does not own; a generation that stops within a step | done is current and passes the smoke test; a user's files stay; a retry heals |
| Session guards, gate scripts, drift guards | none | pattern matches, text comparisons | little | left to unit tests |
| Templates, site, docs, CI workflows | data | - | - | not modelled |

How they interact: the commands write artifacts with the Write and Edit tools; the
harness runs `post-spec-guard.sh` after each such call and `stop-verify.sh` when the
session stops (`plugin/hooks/hooks.json`). The guard runs `forge-state.py` as a
subprocess, which reads the artifacts, git, and the traces through `run-report.py`.
`/wellforge:done`, `status`, `triage` and `promote` read the same answer. Git is the
shared memory of sessions: the guard compares with HEAD, drift and staleness compare
commits, a clone keeps what was committed alone, and the stop hook compares with the
merge base. `trace-subagent.sh` runs whenever an agent stops and appends to the file
that `run-report.py` reads later; the done gate reads the newest verdicts through it.

The other parts share no state with these. A generator reads the plugin and writes into a
project that earlier generations and the user have written to. The companion's agent,
server and tab talk through a directory, a WebSocket and four files that outlive the
server. `release-cli.sh` asks `check-docs.py` (through `check-all.sh` and the
pre-push hook) before it writes and before it pushes, and the remote decides the rest.

The hazards, each at its line, are in `PROJECT.json`.

## 2. Modules

| Module | What it models |
|---|---|
| `GitFiles` | one file as `forge-state.py` sees it: content on disk and at HEAD, the stamps of its last write and last commit; `change_class`, `last_change`, `_newer`; and what a write, a commit and a checkout do to it |
| `ForgeState` | extends `GitFiles`: the artifacts as variables, `compute_drift`, `last_code_change`, `_eval_staleness`, `resolve_tier`, `done_gate` as operators over them |
| `SpecLifecycle` | extends `ForgeState`: the commands, the agents, git and the guard as actions, and their properties |
| `StopVerify` | extends `SpecLifecycle`: the stop hook's drift check over the same artifacts, the session that it sends back, the branch and its merge base |
| `FeatureRecord` | the abstract specification: what the committed status and tier of a feature may do |
| `RunTraces` | runs in parallel, the trace hook, and `run-report.py` as operators over the files they leave |
| `Adapters` | a generation of either tool, interrupted or not, over a tree others have written to; the smoke test as operators |
| `ToolAccess` | the tool lists of agents as both generators translate them: operators only, proved about in `Adapters_proofs` |
| `VisualCompanion` | agent, server, start script, tab and user of the companion |
| `ReleaseCli` | the release script step by step, its failures, the maintainer and the remote |
| `CliChannel` | the abstract specification: what the remote promises to those who install the CLI from it |
| `MCSpecLifecycle`, `MCStopVerify`, `MCRunTraces`, `MCAdapters` | instances for TLC: initial states in which features exist, small sets of inputs, symmetry |
| `SpecLifecycle_proofs`, `Gate_proofs`, `StopVerify_proofs`, `RunTraces_proofs`, `Adapters_proofs`, `VisualCompanion_proofs`, `ReleaseCli_proofs` | theorems and proofs |
| `FiniteSetLemmas` | what the proofs about traces need of finite sets: smallest bad subsets, last elements, sums |

### The lifecycle and the stop hook

`spec[f]`, `plan[f]`, `tasks[f]`, `report[f]` and `code[c]` are files. A content holds a
`body`, the stamp of the write that made it, for everything the file asks for: two
bodies are equal only when no write lies between, and the wording is left out. Specs
and plans also hold the lifecycle fields: `status`, and for a spec `rigor`. A task list
has instead its count of tasks, its count of ticks, and the day of its `synced:`
stamp, because a re-sync may write what is there already. `brief.md` of a spike is
modelled in `spec[f]` (`Spike` says which). `verdict[f]` is what the traces answer for
qe and security (`latest_verdicts`); `badTrace` says that some trace does not load.

`clock` counts writes and commits: each has a stamp of its own, so stamps of commits
give both the order of the commits (`_commit_order`) and their dates. `SecondLength`
says how many stamps share a second, the precision of `_utc`; `DayLength` how many share
a day, the precision of `synced:`.

`hook[f]` is `pending` from an edit of the spec of `f` until the guard has answered,
`blocked` when it refused. `closing` holds the features whose gate `/wellforge:done` has
read (step 2) and whose status it has not written (step 3). `attested` is history:
the features whose last edit was an arrival at `done`, with the gate passing when the
hook looked.

`StopVerify` adds `base`, the documents at the merge base, `ahead`, whether the branch has
commits since, and `session`: `working`, `told` after a block (`stop_hook_active` is set
at the next stop), `stopped`.

The command files in `plugin/commands/` are the program here: a model executes them. One
action stands for one write. `CreateSpec`, `EditBody`, `Approve`, `StartWork`, `Close`,
`Archive`, `Supersede`, `Promote` are edits of a spec (`EditSpec`), with the guard of the
command that makes them; a model that takes the shortcut the hook is there for is
`FreeEdit`, any other value of the two fields. `GuardRefuses` and `GuardAllows` are the
hook; `Revert` is what its message asks for. `WritePlan`, `ApprovePlan`, `Resync`,
`CheckTask`, `EditCode`, `Evaluate`, `RecordRun` and `SpoilTraces` run beside a pending
hook: agents are sessions of their own. `Commit` takes any subset of what is dirty,
`Clone` loses what is not committed and gives every file a new mtime.

`StopVerify` composes the session's and the agents' actions with `Stop` (the hook at the
end of a turn), `Prompt`, `Push` (the merge base moves to HEAD) and `CommitDocs`. The
hook's questions are operators named after the variables of the script: `Changed`,
`SpecsChanged`, `TasksChanged`.

Gates of commands that later writers bypass by design are modelled as the union of the
writers: `WritePlan` is `/wellforge:plan` (spec approved), the drift rule (in progress)
and the retro plan of a promotion (done). `/wellforge:tasks` and `/wellforge:implement`
ask at mvp that "spec.md must be approved"; since both run on features in progress and,
in a promotion, on features that are done, `Approved` reads that as approved and not
given up. "Most tasks are open" of `/wellforge:eval` is less than half.

Assumed of the environment: the project is a git repository; a session makes no edit of
a spec, commits nothing and is not replaced by a clone while the hook has not answered
about it (the harness runs PostToolUse hooks before the next tool call); clocks do not
run backwards; runs are recorded in the order they finish.

### Run traces

`open[r]` is what a command knows of a run in flight, `trace[r]` its file once it is
written, `defects[r]` what is wrong in that file by now: something `load_runs` looks for
(`Coerced`: it does not load, or a field is of another type) or something it does not
(`Unchecked`: no `run_id`, no `finished`, one that is too late or a number, an agent whose
name is no string). `events` are the lines of `.events.jsonl`: a time, the type
of the agent where the harness tells it, tokens where it tells them, and the owner, which
the code does not have and the properties compare with; `NoRun` owns those of commands that
write no trace, such as the agents of `/wellforge:plan`. `AgentStops` and `StrayStops` append
`HookLines` or lose the line (the hook never fails its caller); `Finish` writes a trace;
`Spoil` damages one. What `run-report.py` does is not a step but a function of the files:
`Loaded`, `LoadRuns`, `Winner` (one window, else one run that lists the type),
`Attributed` (the list of the run's `run_id`, `IdOf`, which traces without one share),
`Raises` (an exception ends the report), `Remainder`, `State` and `RunState` (budgets), `Rework`, `LatestVerdict`, `FindControl`.
`SpecLifecycle` has the same answers as `verdict[f]` and `badTrace`.

### Adapters

`CopilotSteps` and `OpencodeSteps` are the two `main` functions as rows of steps. A step wipes
what it owns, writes its files and goes on, and `Interrupt` may stop it after any of
its writes with a file that is empty or half written. `tree[f]` says what the project
holds of a generated file: nothing, torn, or made of a release and with a model.
`mcp` and `hook` are the two files that users edit as well. `Release` adds or drops a command,
an agent or a script, reroutes an agent, or ships a command whose call of a script
`deterministic.py` does not recognise, on which the generation dies. `SmokeTestPasses`
and its parts are the smoke test and `check-routing.py`.

### Visual companion

`server` is the process and where it listens; `known` and `timers` are its memory, lost
with it (`Down`); `markers`, `saved`, `screens` and `events` are files and stay. `tab`
is the open page: the screen it shows, its connection, its queue of clicks, and whether it
put up the tombstone. `wire` holds clicks sent and not handled, `reload` a message
to the tab. A `Push` writes a screen and sets a debounce timer, `Announce` is what
the timer does (a new name clears the events, then the tabs are told), `Handle` appends a
click, `Connect` is `ws.onopen` with its two cases. `Start` is `start-server.sh`: it uses
the saved address or, when it is taken (by the old server that was not waited for, or by
`Foreign`, another session of the project), falls back to another.

### Release

`objects` are the commits' release files; the clone has a working tree, a staging area, a
head and tags, the remote a main and tags. `run` is the script: each numbered step of
`release-cli.sh` is an action, and the writes a kill could come between are two.
`Passes` collects what a step asks of the repository (its `|| die`); `Reverted` is what
`die` puts back, from the index or from HEAD as the code has it; `Kill` puts nothing back.
`PushRejected` is the push of two refs of which one may land. Between two runs the
maintainer stashes, pulls (the repository sets rebase), pushes by hand under the
pre-push hook, tags by hand, undoes an unpushed release or does other work; `Others`
move main at any moment. `Begin` takes any version, older ones too.

`CliChannel` forgets the clone, the script and the commits: its two variables are the Formula
people install from (a version and a digest) and what each pushed tag is on. `ReleaseCli`
implements it with `Published` and `rtags` for them (`ChannelKept`).

## 3. What the runs check

Passing runs:

- `lifecycle` - one feature that starts in progress, done or archived, at mvp or with no
  `rigor:`, in a production project, under every value of the two fields. `GuardHolds`:
  every spec the hook has let through may be committed over HEAD's, after any number
  of edits, commits and clones. `RecordImplemented`: the committed record implements
  `FeatureRecord` (tiers only rise, terminal statuses stay, `done` is born or attested).
- `gate` - one feature at mvp or production and two code files, commands only.
  `DriftClearedByTasksOnly`, `CloseKeepsGateWhenCommitted` (the regression that
  `change_class` was written for), `CodeEditStalesReports`, `CloneKeepsGate`. `StaleSurvivesCommits`: a commit of all
  uncommitted code, or of a part that leaves the newest file, leaves a stale evaluation
  stale. A commit of the newest part alone does not, which is the finding at
  forge-state.py:404: the older file that stays uncommitted then dates the code.
- `portfolio` - a feature and a spike from the empty project, commands only: the hooks of
  two specs in flight, commits of any mixture, supersession, and the spike's gate that
  no script can read; the committed records implement `FeatureRecord` from the first commit on.
- `stop` - two features on a branch. `BlockSurvivesCommit`: what the hook saw it still sees
  when the agents have committed. `BookkeepingNeverBlocks`: a status or a tier
  of a spec, its approval included, blocks nothing, whatever was committed before (the approval
  of a plan is not in it). `CleanBlockIsDrift`: with
  nothing uncommitted, what the hook blocks on is drift to `forge-state.py`; the two
  share no code and no clock. `StopsAgain`: the session stops again and again.
- `traces` - three runs of two features that overlap, and agents of no run. `CountedForItsOwner`:
  an event of a run whose trace is on disk with its id, agents and finish is counted for
  that run or for none, whatever is wrong in the others. `ReportConserves`: in a report
  that is made, the charges of the features and the unattributed remainder never fall
  short of what the events hold, and are exactly that when no two traces share a `run_id`; two
  that do are both charged with one list (the finding at run-report.py:432). A report on one
  feature gives its runs what the full report gives them. `ArrivalNeverInflates`: a trace that
  arrives gives no other run an event. `DamageCostsItself`: a file that does not load, a field that
  is coerced, a missing `run_id` or finish takes no event from another run and ends no report.
  The damage it excepts does both: a number for a time and a name that is no string raise
  (the findings at run-report.py:81 and :85), a finish that is too late competes for events.
  `LastVerdictIsInForce`, `FailInForceIsRework`: the verdict the gate reads is the newest
  by finish, and a failure in force is in the count of rework. `OverBudgetIsSpent`: with every
  trace as it was written, a run is over its budget only when its own agents and those of no
  run, within its window, spent more than the ceiling; another run's spending is never in it.
  That agents of no run are in it is the code's: a single window takes an event without
  asking for its agent, and the documents call the token layer an estimate.
  `PairingSurvivesArrivals`: a run that has a control keeps it or takes one that arrived.
- `adapters` - both generators over a project that was generated before. `DoneIsCurrent` and
  `DonePassesSmokeTest`: a generation that ends leaves the current release, whatever it
  found. `CommandFindsScripts`: an OpenCode command that is whole finds the scripts it calls, also
  between the steps of an interrupted generation. `UserFilesKept`: no step of Copilot's
  generator takes a server or a `lefthook.yml` from the user (OpenCode's owns its file).
  `RetryHeals`: a generation ends well in the end, but for the three things no generation
  repairs (`Repairable`): a server file that is no JSON, a command without the
  preamble, a blank file the release no longer has. `FailsBeyondRepair`: a generation that
  fails without an interruption fails for one of those three, so whatever else an
  earlier one left torn or behind is repaired on the way.
- `companion` - two screens. `ClicksInOrder`: clicks are recorded at most once and in order,
  through drops, queues and restarts. `UpdateKeepsClicks`: a screen clears the events once in
  its life. `FallbackStrandsNobody`: a server that found its port free is where the open
  tab looks for it. `ReloadsAreKept`: what is under way to a tab (it shows the newest screen, was
  told to reload, or a timer runs for that screen) stays so in every step that leaves it
  connected, and a screen that is written is under way at once. `ScreensReachTheTab`: with a
  server that stays up at its address, a tab comes to show the newest screen. Both leave out
  one case, the finding at helper.js:94: a page whose socket opens only after the newest screen was
  announced, whether it was just loaded or lost its connection, and that was no tombstone
  (`stale`).
- `release` - three versions. `InstallIsSound`: the remote's Formula holds the placeholder or
  the digest of the pushed tag that its url names, whose CLI is of that version.
  `NothingOverUnfinished`: no release is committed on top of a pushed one whose Formula
  was never finished. `ChannelKept`: the remote implements `CliChannel`: no tag is moved, the
  Formula goes to newer versions only, names a tag that is pushed, and withdraws no digest
  it has published. `PushedTagsAreFinished`: again and again every pushed tag
  is finished, or a newer one is.

Runs that find a disagreement between a document and the code:

- `lifecycle_drift` - SKILL.md says that closing a feature "cannot report drift against its
  own task list". With an uncommitted change in `tasks.md` both files are compared by
  mtime, and bookkeeping in spec.md is the newer: the gate fails on drift. Committing
  bookkeeping alone does it by commit order.
- `stop_each_feature` - the rule is "spec.md/plan.md changed without re-syncing tasks.md"; the
  hook asks whether any `tasks.md` changed, so a tick in one feature hides the drift of
  another.
- `late_click` - the events are "cleared when you push a new screen", but a click on the old
  page that arrives after that is recorded among those of the new one.
- `noop_recovery` - "`--formula-only` is the documented RECOVERY path", but after a push
  of the formula commit that failed it finds nothing staged, pushes nothing and prints
  "released".

Met while modelling, stated in `PROJECT.json` with their lines and without a run of their
own: `synced:` has the precision of a day (stop-verify.sh:97); an evaluation is
dated by its commit (forge-state.py:657); an absent `rigor:` ranks as production to the
guard (post-spec-guard.sh:83), and raising the tier of a closed feature is no arrival at
`done` (:155); events without tokens and runs without a price read `within`
(run-report.py:215, :245); a denied tool without an OpenCode key is dropped without
the note (opencode/generate.py:88); nothing removes `server-stopped`
(start-server.sh:168); a tab that connects or reconnects after the announcement keeps the old
screen (helper.js:94); a commit of the newest code alone makes a stale evaluation fresh when older
code stays uncommitted (forge-state.py:404); a time that is a number and an agent's name that is
no string end the whole report (run-report.py:81, :85); traces with one `run_id` are each charged
with the events of both (:432); `die` restores a staged bump from the index (release-cli.sh:49), and
a push that half landed leaves a tag on the remote that is said to be local (:325).

### Bounds

`MaxClock` bounds writes and commits. A start at stamp 1 leaves 3 of them in `lifecycle`
(an edit of the spec, a write beside the pending hook or a revert, a commit: the
shortest histories that break each clause, as the mutants show), 4 in `gate` (evaluate,
edit, commit, and one more) and 5 from nothing in `portfolio`. `MaxTasks = 1`: the gate
tells apart only none, some and all tasks, and none exists as well. Two code files,
because `last_code_change` treats an uncommitted one and a committed one differently.
Two features, because the hook keeps state per spec and a commit takes any of them; a
second feature of the same kind adds nothing to one feature's clauses, which mention no
other.

In `stop` the four stamps left hold two edits, a re-sync and a commit of two features in
any order, and `MaxTasks = 2` lets a re-sync add a task; `DayLength = 1` there says that
re-syncs fall on different days, without which two of them can cancel out and the hook
blocks on what `forge-state.py` takes for synced (the finding at stop-verify.sh:97).

`traces`: three runs, because two that overlap can be told apart and the third may be
damaged or late; `MaxWork = 2`, the seconds that pass and the agents that stop, so windows are
equal, overlap or follow one another, and two events can compete or add up; every kind of damage to
one trace (`MaxDefects = 1`), and a missing `run_id` in any number of them, since two share an
id only so; two outcomes and three invocations, which tell apart PASS, FAIL and absent, the
features, and a control from a run with `--terse`. An event holds two tokens, which is the ceiling:
one event is at it and two are over it. A run's file is named by its start and its feature, and those decide ties (`FileBefore`);
the model values for runs and agents are interchangeable, so symmetry on them is sound.
`adapters`: two commands, the first of which calls a script, so that a generation may die after
the first and before the second; two releases, two interruptions, one edit. `companion`: two
screens and three pushes are a new screen, an update and another new one; two clicks
can change places; two ends of the server are a restart before and after a fallback.
`release`: a third version is the first that can be put on top of an unfinished second; two
faults are a failure and one while it is repaired.

`CHECK_DEADLOCK FALSE` where the bound on the clock, on work or on pushes stops the system;
`release` and `adapters` can always go on, and deadlock is checked.

### Fairness

`SpecLifecycle` states none: its properties are safety properties, a session may
go away at any step, and nothing in the code promises that it goes on; so with
`RunTraces`. `StopVerify` assumes
weak fairness of the guard (the harness runs a PostToolUse hook after every edit) and
strong fairness of `Stop` (a session that can end its turn again and again does so): enough
for `StopsAgain`, and nothing is assumed of what the session does about a block.

`Adapters`: weak fairness of the steps (a program that runs goes on) and of `Retry` (a
generation that did not end well is started again). `VisualCompanion`: weak fairness of
the timers, of handling a message and of receiving and connecting, which an event loop
and a browser give; nothing of agent, user or the server's end. `ReleaseCli`: weak fairness of
the script; `Diligence` adds strong fairness of what the maintainer does about an unfinished
release (stash, pull, push, tag, `--formula-only`). That is an assumption about a person,
not about the code: what the code owes, and the run shows, is that following its
messages works from every state its failures leave.

### Mutants

Operators named as mutants, each in front of the definition it changes, are plausible
bugs: the rule on archived work forgotten (`RefusesOutOfDoneOnly`, as the hook once was),
no gate on the way to `done`, commit order read backwards, staleness from committed code alone,
a refused edit left on disk, the stop hook comparing with HEAD (as it once did) or without the
bookkeeping exemption (as it once was), `stop_hook_active` ignored, an event that three
windows hold given to the first of them, verdicts ordered by start, user servers replaced instead of merged, the
runtime layer generated after the commands that need it, the queue of clicks kept after it
was sent, all screens new after a restart, the old digest kept in a bumped Formula, the rewritten
Formula not staged. `PROJECT.json` names the run and the property that finds each.

## 4. What is proved

For every set of features, runs, screens, commands, versions and every bound, from the named
assumptions on the constants (`ForgeAssumption`, `AbsentAssumption`, `LifecycleAssumption`,
`TracesAssumption`, `NoTraceAssumption`, `AdaptersAssumption`, `CompanionAssumption`,
`ReleaseAssumption`), which TLC evaluates in the runs. Every module with behaviour has its type
invariant as a theorem.

`SpecLifecycle_proofs`:

- `GuardCorrect`: `Spec => []GuardHolds`, provided `ObeysGuard` (the session puts back what
  the hook refuses) and `Evaluable` (the hook finds a Python with pyyaml, or uv).
  Without either the code promises nothing: the hook cannot undo an edit, and it falls
  open by design when it has no parser.
- `RecordRefined`: under the same assumptions `Spec => RecordImplemented`, the refinement of
  `FeatureRecord`.

The inductive invariant is `IInv`: for every feature, a tracked spec is on disk, and a
feature whose hook is idle stands (`Standing`). `GuardHolds` alone is not inductive: the
hook says nothing of a tracked spec that is not on disk. An edit makes the hook
pending, so nothing has to stand; the hook's answer is where `Standing` is established
(`AllowedIsLawful`); a revert, a commit and a clone bring disk and HEAD together
(`CleanGuarded`); everything else leaves the spec alone (`GuardedFrame`). Refinement needs
the invariant at a commit only: `MayCommit` and `ObeysGuard` give that every hook is idle.

`Gate_proofs`: the five properties of the run `gate`. `ClonesAgree`, `CloseKeepsGate` and
`TasksClearDrift` follow from types and lemmas about `ChangeClass` and `Newer`. `EditsStale` needs
`SecondLength = 1`, since the code makes no claim about two stamps of a second, and both it and
`CommitsKeepStale` need `DatedInv`: no stamp and no body is ahead of the clock.
`CommitsKeepStale` holds for seconds of any length: the date of the code is behind the clock
(`LastCodeDated`), a commit of everything that is uncommitted dates it now, and one that leaves the
newest file leaves the date.

`StopVerify_proofs`: `SessionsAreLifecycles`, the session under the hook is a behaviour of
`SpecLifecycle`, so that its invariants carry over; `BlocksSurviveCommits`;
`BookkeepingBlocksNothing`; and `CleanBlocksAreDrift` with `DayLength = 1`. The last relates
two clocks, from `BaseInv` (without commits ahead the base is HEAD, and what is in the base is
tracked and on disk), `AgeInv` (a task list gets no older from base to HEAD to disk, and is the
same where its age is) and `StampInv` (some stamp lies between the commits of the base and
those that changed a document since).

`RunTraces_proofs`: `EventsCountedForTheirOwner` rests on `OwnerInv` (an event lies in the window of
its owner, open or closed, and has one of its agents or no type), `PairingSurvives` on `NamesInv`
(no two runs have the same start and feature, which name their files);
`ArrivalsNeverInflate`, `DamageIsContained` and `LatestVerdictRules` are about one step
between sets of traces of which `OwnerInv` holds. For `DamageIsContained` the sets of candidates
only shrink under the damage it speaks of, so that nothing that raised no exception raises one.

The sums of a report are over sets of any finite size. The library's induction rules take an
operator as a parameter and cannot be used, so `FiniteSetLemmas` argues with a smallest
counterexample instead: strict inclusion among the subsets of a finite set is well-founded, so a set
of bad subsets that is not empty has a smallest one (`MinimalSubset`), and taking an element out of it
gives a contradiction. From that come the value of `SumFunctionOnSet` when any one element is
taken out (`SumTakeOut`), sums over disjoint sets and parts (`SumUnion`, `SumOfParts`), and the last
element of a totally ordered finite set (`LastElement`). `ReportAddsUp` then follows from lines being
attributed to one run or to the remainder (`LinesArePartitioned`) and runs to one feature
(`FeaturesAreDisjoint`), and from `SumPointwise` where traces share an id and a run's list can only
be longer; `OverBudgetMeansSpent` from `OwnerInv`, `SumMonotone` and a lemma about
rounding to half even (`OverIsAbove`);
`FailsAreRework` from the verdicts having a newest, for which `NamesInv` breaks the ties
(`NewestIsOne`).

`Adapters_proofs`: `CommandsFindTheirScripts` from `ShippedInv` (the scripts of the release are
there once the step that ships them is over), `DoneLeavesCurrent` from `CurrentInv` (what the steps
so far have written is whole and current), `DoneSatisfiesSmokeTest` from `DoneLeavesCurrent`,
`UserKeepsFiles` from the steps themselves. `FailureHasReason` needs `SweptInv` besides: past the step
that writes the skills none is left that the release has not, so a blank file that stops a later step
is no skill. About `ToolAccess`: for every table, allowlist and denylist, neither translation gives an agent more
than it lists, and a denial holds where no other tool shares the target; the empty list,
which the Copilot generator takes for no list, is excluded.

`VisualCompanion_proofs`: `FallbackIsHarmless` from `AddressInv` (no fallback moves the
saved address), `UpdatesKeepClicks` from `KnownInv` (a screen that was announced is on disk, and
known while the server is up), `NoReloadIsLost` from `LinkInv` (a tab is linked only to a server
that is up) and one case per step, `ClicksStayInOrder` from `OrderInv` (recorded, on
the wire, queued: one increasing sequence).

`ReleaseCli_proofs`: `IInv` is `TypeOK`, `HistoryInv` (the Formula of every commit is of its CLI and
holds the placeholder or the sha of a pushed tag, every tag names its version, the clone is not
behind the remote's main it builds on) and `ScriptInv` (what working tree and index hold when the script is at
a step). `InstallsAreSound` and `VersionsOnlyRise` (the Formula of the remote never goes back, which
`ChannelKept` has too) follow; `UnfinishedFirst` needs `OrderInv`
besides: the clone has every tag the remote has, and a release that passed the gate is
still on top of a finished version at its commit.

The last theorem, `RemoteIsTheChannel`, is the refinement `Spec => ChannelKept`. A step maps to a push
of the channel or to a stutter (`NextReceives`), from three facts about any step: tags stay
(`TagsStay`), the remote's main goes to the clone's head or to a commit with the same release files
(`MainMoves`), and `PublishInv`: what is published has its tag on the remote, the clone withdraws no digest
of the version it builds on, and the script pushes a tag that it has set and finishes a Formula whose
tag is pushed. `HistoryInv` alone would let the Formula name a version that nobody can fetch. One
part of the promise is the maintainer's: `PushByHand` pushes a bumped main with its tag, as
docs/RELEASING-CLI.md:114 has it; the pre-push hook does not ask for the tag.

Only model-checked: what needs fairness (`StopsAgain`, `RetryHeals`, `ScreensReachTheTab`,
`PushedTagsAreFinished`), because liveness under fairness is out of the prover's reach. Every other
property of a passing run is a theorem. No module that is proved about declares a RECURSIVE
operator.

## 5. Not modelled

Of the lifecycle: the commands' conversations and the agents' work; YAML that does not parse (an
invalid status or tier stands for all of it); projects without git, where every clock is mtime;
`last_activity`, which is reported and decides nothing; the order of traces with equal
finish times; `design.md`, which no gate reads; the compile checks of the stop hook, which run
external builds and change no artifact; a repository without commits; a spec without a
`status:` line or with an empty one, which the guard lets through (post-spec-guard.sh:272). The stop
hook is modelled with a default branch on a remote, whose merge base moves with `Push` only: on a
branch without one it compares with the last commit (stop-verify.sh:40), a change that was
committed is gone from its view, and `BlockSurvivesCommit` does not hold there. A code file is
edited and committed, never deleted or put back, so the branch of `last_code_change` for a file
that is gone (forge-state.py:410) is not reached.

Of the traces: a trace that was copied, with its id, under another name (traces share an id in the
model by having lost it), a start or an agent that was altered, a damage on top of another, the
pricing table beyond one rate, an explicit `control_run_id`, the text of the
report. Of the adapters: the texts that translation and relinking produce and the smoke test's
assertion about their links, whether a shipped script runs, the providers' model names. Of the
companion: the pages of the foreign session, a screen that is deleted (the documents forbid
reusing names, and nothing deletes one), `stop-server.sh`, the framing and the authorisation of
WebSocket messages, rendering. Of the release: `--skip-checks`, a remote the gate cannot reach,
a tag deleted from the remote, a dirty tree committed by hand, the smoke of the package.

Whole parts: worktree batches are instructions to agents, and no code keeps their state, so a
model would translate prose. The CLI's scaffolding and updates drive copier, git, brew and the
harness's plugin manager, which keep the state; what the CLI adds is a check before the prune
that the new version is there. Session guards, gate scripts and the other rules of `check-docs.py`
are functions of one command, one path or two texts, which a unit test reaches. Templates, site and
CI workflows are data for other programs.

## 6. What could come next

The plugin cache (update, prune, doctor) with the plugin manager as an external part; larger instances
of `traces` (a fourth run, two defects) and of `release` (two changes of other work pass in a few
minutes more); `StopVerify` with the finding on the task list of another feature turned into a
property once the hook asks per feature; composing `RunTraces` with `SpecLifecycle`, which
share `LatestVerdict` and the trace that does not load.
