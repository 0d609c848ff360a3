----------------------------- MODULE RunTraces -----------------------------
(***************************************************************************)
(* .forge/runs/: the traces the workflow commands write when a run ends,   *)
(* the token events trace-subagent.sh appends whenever an agent stops, and *)
(* run-report.py, which joins the two.  Runs go on in parallel; an event   *)
(* carries a time and, on some harnesses, the type of its agent, but never *)
(* the run it belongs to, so the report has to infer it; and it may belong *)
(* to no run at all.  The owner of an event is in the model only to say    *)
(* what a right inference is.                                              *)
(***************************************************************************)
EXTENDS Integers, Sequences, FiniteSets, Functions

CONSTANTS
  Run,          \* the runs that may be started
  Agent,        \* agent types
  Feature,      \* feature numbers; 0 stands for no feature
  Outcome,      \* the pairs of verdicts a run may end with
  Spoilable,    \* what can be wrong in a trace: a subset of Defect
  Ceiling,      \* cost_per_run_usd, in the unit of an event's tokens
  TokenCounts,  \* what an event may hold as tokens; 0 when no usage is exposed
  Invocation,   \* the pairs of a feature and whether --terse is on
  MaxWork,      \* bound: seconds that pass and agents that stop, together
  MaxDefects,   \* bound: traces with any other damage than a missing run_id
  NoAgent, NoTrace,
  NoRun         \* the owner of an event of a command that writes no trace

Verdict == {"absent", "PASS", "FAIL"}

\* What the loader looks for and coerces: the whole file, or a field of another
\* type.
Coerced == {"file", "agents", "verdicts", "feature"}

\* What it does not look for: no run_id ("id"), no finish ("finish"), a finish
\* after the run's ("later"), one that is a number ("number"), the name of an
\* agent that is no string ("name").
Unchecked == {"id", "finish", "later", "number", "name"}

Defect == Coerced \cup Unchecked

ASSUME TracesAssumption ==
  /\ Feature \subseteq Nat \ {0}
  /\ Outcome \subseteq [qe: Verdict, security: Verdict]
  /\ Spoilable \subseteq Defect
  /\ Ceiling \in Nat \ {0}
  /\ TokenCounts \subseteq Nat
  /\ Invocation \subseteq Feature \X BOOLEAN
  /\ {MaxWork, MaxDefects} \subseteq Nat
  /\ IsFiniteSet(Run) /\ IsFiniteSet(Feature)
  /\ NoAgent \notin Agent /\ NoRun \notin Run

Trace ==
  [feature: Feature \cup {0}, started: Nat, finished: Nat, terse: BOOLEAN,
   agents: SUBSET Agent, verdicts: [qe: Verdict, security: Verdict]]

ASSUME NoTraceAssumption == NoTrace \notin Trace

VARIABLES
  clock,      \* seconds, the precision of `date -u +%FT%TZ'
  open,       \* open[r]: what the command knows of the run in flight, or NoTrace
  trace,      \* trace[r]: <run_id>.json as it was written, or NoTrace
  defects,    \* defects[r]: what is wrong in that file by now
  events,     \* the lines of .events.jsonl
  stops       \* the agents that stopped, recorded or not

vars == <<clock, open, trace, defects, events, stops>>

Event == [ts: Nat, agent: Agent \cup {NoAgent}, tokens: Nat, owner: Run \cup {NoRun}]

TypeOK ==
  /\ clock \in Nat
  /\ open \in [Run -> Trace \cup {NoTrace}]
  /\ trace \in [Run -> Trace \cup {NoTrace}]
  /\ defects \in [Run -> SUBSET Spoilable]
  /\ events \in Seq(Event)
  /\ stops \in Nat

NoVerdict == [qe |-> "absent", security |-> "absent"]

----------------------------------------------------------------------------
(* load_runs                                                               *)

\* Mutant: a file that does not load takes all the others with it.
LoadedOrNothing ==
  IF \E r \in Run : trace[r] # NoTrace /\ "file" \in defects[r] THEN {}
  ELSE {r \in Run : trace[r] # NoTrace}

\* A file that is no object of a known schema costs itself; a field of the
\* wrong shape costs that field.
Loaded == {r \in Run : trace[r] # NoTrace /\ "file" \notin defects[r]}

AgentsOf(r) == IF "agents" \in defects[r] THEN {} ELSE trace[r].agents
VerdictsOf(r) == IF "verdicts" \in defects[r] THEN NoVerdict ELSE trace[r].verdicts
FeatureOf(r) == IF "feature" \in defects[r] THEN 0 ELSE trace[r].feature

LoadRuns(f) == {r \in Loaded : FeatureOf(r) = f}

\* The run_id starts with the second the run was started in and names the file.
FileBefore(q, r) ==
  \/ trace[q].started < trace[r].started
  \/ trace[q].started = trace[r].started /\ trace[q].feature < trace[r].feature

\* The key of everything that is attributed; None for every trace without one.
IdOf(r) ==
  IF "id" \in defects[r] THEN <<>> ELSE <<trace[r].started, trace[r].feature>>

DistinctIds == \A q, r \in Loaded : q # r => IdOf(q) # IdOf(r)

\* The end of the window: none, beyond the clock, or as it was written.
FinishedOf(r) ==
  CASE "finish" \in defects[r] -> -1
    [] "later" \in defects[r] -> MaxWork + 1
    [] OTHER -> trace[r].finished

----------------------------------------------------------------------------
(* attribute                                                               *)

Single(S) == \E x \in S : S = {x}

\* Mutant: the second of the finish is outside of the window.
BeforeFinish(e, r) == trace[r].started <= e.ts /\ e.ts < FinishedOf(r)

InWindow(e, r) == trace[r].started <= e.ts /\ e.ts <= FinishedOf(r)

Candidates(e, runs) == {r \in runs : InWindow(e, r)}

Narrowed(e, runs) == {r \in Candidates(e, runs) : e.agent \in AgentsOf(r)}

\* Mutant: only a tie of exactly two runs is left alone.
WinnerUnlessTwo(e, runs) ==
  CASE Candidates(e, runs) = {} -> {}
    [] Cardinality(Candidates(e, runs)) = 2 /\ ~Single(Narrowed(e, runs)) -> {}
    [] Single(Narrowed(e, runs)) -> Narrowed(e, runs)
    [] OTHER -> {r \in Candidates(e, runs) :
                   \A q \in Candidates(e, runs) \ {r} : FileBefore(r, q)}

\* The one run the event counts for, as a set: empty when unattributed.
Winner(e, runs) ==
  LET fits == Candidates(e, runs)
      named == Narrowed(e, runs)
  IN CASE Single(fits) -> fits
       [] ~Single(fits) /\ Single(named) -> named
       [] OTHER -> {}

\* Mutant: time is the only key, each run sums its own window.
InOwnWindow(r, runs) == {i \in DOMAIN events : InWindow(events[i], r)}

\* by_run[run_id]: one list for all the traces of one id.
Attributed(r, runs) ==
  {i \in DOMAIN events :
     \E q \in Winner(events[i], runs) : q = r \/ IdOf(q) = IdOf(r)}

Unattributed(runs) == {i \in DOMAIN events : Winner(events[i], runs) = {}}

----------------------------------------------------------------------------
(* main and budget_report: what is reported                                *)

Tokens(lines) == SumFunctionOnSet([i \in DOMAIN events |-> events[i].tokens], lines)

\* No report: a time is compared with a number, or the runs of a tie are narrowed
\* to those that list the agent and one of the names has no lower().
Raises ==
  \E i \in DOMAIN events : \E r \in Loaded :
    LET e == events[i] IN
    \/ "number" \in defects[r] /\ trace[r].started <= e.ts
    \/ /\ "name" \in defects[r] /\ e.agent # NoAgent
       /\ r \in Candidates(e, Loaded) /\ ~Single(Candidates(e, Loaded))

\* Mutant: the runs outside of the view do not compete.
AttributedInView(r, view) ==
  IF r \in view /\ ~Raises THEN Attributed(r, view) ELSE {}

\* The report on the runs of one feature still attributes over the traces of all.
ReportedEvents(r, view) ==
  IF r \in view /\ ~Raises THEN Attributed(r, Loaded) ELSE {}

Total(r) == Tokens(ReportedEvents(r, Loaded))

\* unattributed_events of a report on them all; without a trace nothing is
\* attributed at all.
Remainder == IF Loaded = {} \/ Raises THEN {} ELSE Unattributed(Loaded)

\* round(): half to even.
Percent(spent, ceiling) ==
  LET whole == (100 * spent) \div ceiling
      rest == 2 * ((100 * spent) % ceiling)
  IN IF rest > ceiling \/ (rest = ceiling /\ whole % 2 = 1) THEN whole + 1 ELSE whole

\* Mutant: the ceiling itself is over.
StateAtCeiling(spent, ceiling, measured) ==
  IF ~measured THEN "unknown"
  ELSE IF Percent(spent, ceiling) >= 100 THEN "over" ELSE "within"

State(spent, ceiling, measured) ==
  IF ~measured THEN "unknown"
  ELSE IF Percent(spent, ceiling) > 100 THEN "over" ELSE "within"

\* `priced': the pricing table was read, so that est_cost_usd is no null.
RunState(r, priced) ==
  State(IF priced THEN Total(r) ELSE 0, Ceiling,
        priced /\ ReportedEvents(r, Loaded) # {})

FeatureSpent(f) == SumFunctionOnSet([r \in Run |-> Total(r)], LoadRuns(f))

----------------------------------------------------------------------------
(* rework, and latest_verdicts of forge-state.py                           *)

\* Mutant: the reviewer's verdict is no rework.
FailedQE(r) == VerdictsOf(r).qe = "FAIL"

Failed(r) == VerdictsOf(r).qe = "FAIL" \/ VerdictsOf(r).security = "FAIL"

Rework(f) == {r \in LoadRuns(f) : Failed(r)}

\* Mutant: the order of the files, that of the starts, is kept.
StartedBefore(q, r) == FileBefore(q, r)

\* `finished', or `started' without one.
EndOf(r) == IF "finish" \in defects[r] THEN trace[r].started ELSE FinishedOf(r)

\* Sorted by finish; runs of one second stay in the order of their files.
FinishedBefore(q, r) ==
  \/ EndOf(q) < EndOf(r)
  \/ EndOf(q) = EndOf(r) /\ FileBefore(q, r)

Judged(f, field) == {r \in LoadRuns(f) : VerdictsOf(r)[field] # "absent"}

Newest(runs) == CHOOSE r \in runs : \A q \in runs \ {r} : FinishedBefore(q, r)

\* A number and a time have no order, and forge-state.py fails.
Unsortable(f) ==
  \E q, r \in LoadRuns(f) : "number" \in defects[q] /\ "number" \notin defects[r]

LatestVerdict(f, field) ==
  IF Unsortable(f) \/ Judged(f, field) = {} THEN "absent"
  ELSE VerdictsOf(Newest(Judged(f, field)))[field]

----------------------------------------------------------------------------
(* find_control, without the explicit control_run_id                       *)

ControlCandidates(r) ==
  {c \in LoadRuns(FeatureOf(r)) \ {r} : IdOf(c) # IdOf(r) /\ ~trace[c].terse}

Delta(c, r) ==
  IF trace[c].started < trace[r].started THEN trace[r].started - trace[c].started
  ELSE trace[c].started - trace[r].started

\* Mutant: a tie has no first.
NearerOnly(c, d, r) == Delta(c, r) < Delta(d, r)

\* By run_id; one that is missing is before the others.
NameBefore(c, d) ==
  CASE "id" \in defects[c] /\ "id" \notin defects[d] -> TRUE
    [] "id" \in defects[d] /\ "id" \notin defects[c] -> FALSE
    [] OTHER -> FileBefore(c, d)

Nearer(c, d, r) ==
  \/ Delta(c, r) < Delta(d, r)
  \/ Delta(c, r) = Delta(d, r) /\ NameBefore(c, d)

\* The one control as a set: empty when there is none.
FindControl(r) ==
  {c \in ControlCandidates(r) : \A d \in ControlCandidates(r) \ {c} : Nearer(c, d, r)}

----------------------------------------------------------------------------
(* The commands, the hook and what happens to the files.                   *)

Init ==
  /\ clock = 0
  /\ open = [r \in Run |-> NoTrace]
  /\ trace = [r \in Run |-> NoTrace]
  /\ defects = [r \in Run |-> {}]
  /\ events = <<>>
  /\ stops = 0

Tick ==
  /\ clock + stops < MaxWork
  /\ clock' = clock + 1
  /\ UNCHANGED <<open, trace, defects, events, stops>>

\* A command starts.  Two runs of one feature in one second would write one
\* file: that is left out.
Start(r, f, terse) ==
  /\ open[r] = NoTrace /\ trace[r] = NoTrace
  /\ \A q \in Run : /\ open[q] # NoTrace => <<open[q].started, open[q].feature>> # <<clock, f>>
                    /\ trace[q] # NoTrace => <<trace[q].started, trace[q].feature>> # <<clock, f>>
  /\ open' = [open EXCEPT ![r] =
       [feature |-> f, started |-> clock, finished |-> clock, terse |-> terse,
        agents |-> {}, verdicts |-> NoVerdict]]
  /\ UNCHANGED <<clock, trace, defects, events, stops>>

\* Mutant: a type that is not known is written as an empty string.
HookLinesEmptyType(o, a) ==
  {<<>>} \cup {<<[ts |-> clock, agent |-> b, tokens |-> n, owner |-> o]>> :
                b \in {a, ""}, n \in TokenCounts}

\* What the hook makes of the payload: no line when it fails, else one line of
\* this second, with the agent's type and its tokens if the harness exposes them.
HookLines(o, a) ==
  {<<>>} \cup {<<[ts |-> clock, agent |-> b, tokens |-> n, owner |-> o]>> :
                b \in {a, NoAgent}, n \in TokenCounts}

\* An agent of the run stops; the command notes it for the trace.
AgentStops(r, a, line) ==
  /\ open[r] # NoTrace
  /\ clock + stops < MaxWork
  /\ stops' = stops + 1
  /\ open' = [open EXCEPT ![r].agents = @ \cup {a}]
  /\ events' = events \o line
  /\ UNCHANGED <<clock, trace, defects>>

\* An agent of a command that writes no trace stops, /wellforge:plan's say: the
\* hook does not ask who dispatched it.
StrayStops(line) ==
  /\ clock + stops < MaxWork
  /\ stops' = stops + 1
  /\ events' = events \o line
  /\ UNCHANGED <<clock, open, trace, defects>>

\* The command writes the trace as its last step.  A session may end before:
\* nothing forces the step.
Finish(r, verdicts) ==
  /\ open[r] # NoTrace
  /\ trace' = [trace EXCEPT ![r] = [open[r] EXCEPT !.finished = clock, !.verdicts = verdicts]]
  /\ open' = [open EXCEPT ![r] = NoTrace]
  /\ UNCHANGED <<clock, defects, events, stops>>

\* A merge, a person or a tool damages a trace, each in one way; any number of
\* them may have lost their run_id.
Spoil(r, d) ==
  /\ trace[r] # NoTrace
  /\ defects[r] = {}
  /\ d # "id" => Cardinality({q \in Run : defects[q] \notin {{}, {"id"}}}) < MaxDefects
  /\ defects' = [defects EXCEPT ![r] = {d}]
  /\ UNCHANGED <<clock, open, trace, events, stops>>

Next ==
  \/ Tick
  \/ \E r \in Run, i \in Invocation : Start(r, i[1], i[2])
  \/ \E r \in Run, a \in Agent : \E line \in HookLines(r, a) : AgentStops(r, a, line)
  \/ \E a \in Agent : \E line \in HookLines(NoRun, a) : StrayStops(line)
  \/ \E r \in Run, verdicts \in Outcome : Finish(r, verdicts)
  \/ \E r \in Run, d \in Spoilable : Spoil(r, d)

Spec == Init /\ [][Next]_vars

----------------------------------------------------------------------------
(* Properties.                                                             *)

\* run-report.py attribute: an event of a run whose trace is on disk with its
\* id, its agents and its finish is counted for that run or for none, however the
\* windows of parallel runs overlap and whatever is wrong in the traces of the
\* others, ids that are missing included.
CountedForItsOwner ==
  \A i \in DOMAIN events :
    LET owner == events[i].owner IN
    owner \in Loaded /\ defects[owner] \cap {"id", "agents", "finish"} = {} =>
      \A r \in Loaded : i \in Attributed(r, Loaded) => r = owner

\* run-report.py main and budget_report: a report that is made loses no token, and
\* counts none twice unless two traces share a run_id.  What the features are
\* charged with, those of damaged traces and the unattributed remainder included,
\* is what the events hold; and the report on one feature, which leaves the runs
\* of the others out of the view, says of its runs what the charges are made of.
ReportConserves ==
  Loaded # {} /\ ~Raises =>
    LET charged == SumFunction([f \in Feature \cup {0} |-> FeatureSpent(f)])
                     + Tokens(Remainder)
    IN /\ charged >= Tokens(DOMAIN events)
       /\ DistinctIds => charged = Tokens(DOMAIN events)
       /\ \A r \in Loaded :
            Tokens(ReportedEvents(r, LoadRuns(FeatureOf(r)))) = Total(r)

\* A verdict is rework in one reader of the traces exactly when it can hold the
\* gate in the other: a FAIL in force at the gate (latest_verdicts) is one of
\* the feature's rework rounds (rework).
FailInForceIsRework ==
  \A f \in Feature, field \in {"qe", "security"} :
    LatestVerdict(f, field) = "FAIL" => Rework(f) # {}

\* A trace that arrives, a parallel run's say, never adds an event to a run that
\* was already there: totals only ever fall as the evidence becomes complete.
NothingGained ==
  \A q \in Run : trace[q] = NoTrace /\ trace'[q] # NoTrace =>
    \A r \in Loaded : Attributed(r, Loaded)' \subseteq Attributed(r, Loaded)

ArrivalNeverInflates == [][NothingGained]_vars

\* load_runs: a bad file costs exactly itself.  A file that does not load, a field
\* the loader coerces, a run_id or a finish that is missing takes no event from
\* any other run in the report, and does not end a report that was made.  A finish
\* that is too late, a number or a name that is no string are excepted: the code
\* does not look for them.
OthersKeep ==
  \A q \in Run :
    /\ defects'[q] # defects[q]
    /\ defects'[q] \subseteq Coerced \cup {"id", "finish"}
    => \A r \in Loaded \ {q} :
         ReportedEvents(r, Loaded) \subseteq ReportedEvents(r, Loaded)'

DamageCostsItself == [][OthersKeep]_vars

\* latest_verdicts: the verdict of the run that finishes last is in force at
\* once, however much earlier than the others it started; within one second
\* there is no telling.
LatestComesIntoForce ==
  \A r \in Run, f \in Feature, field \in {"qe", "security"} :
    /\ trace[r] = NoTrace
    /\ trace'[r] # NoTrace
    /\ trace'[r].feature = f
    /\ trace'[r].verdicts[field] # "absent"
    /\ \A q \in Loaded : EndOf(q) < clock /\ "number" \notin defects[q]
    => LatestVerdict(f, field)' = trace'[r].verdicts[field]

LastVerdictIsInForce == [][LatestComesIntoForce]_vars

\* find_control: a run that has a control keeps one when traces arrive, its own
\* or one of those that have just arrived.
PairingKept ==
  \A r \in Loaded : trace'[r] = trace[r] /\ defects' = defects /\ FindControl(r) # {} =>
    /\ FindControl(r)' # {}
    /\ FindControl(r)' \subseteq FindControl(r) \cup {q \in Run : trace[q] = NoTrace}

PairingSurvivesArrivals == [][PairingKept]_vars

\* budget_report: a run is over its budget only when more than the ceiling was
\* spent within its window by its own agents and by those of no run at all, once
\* every run is on disk as it was written; and never when no price was read.  No
\* other run's spending is in it.
OverBudgetIsSpent ==
  /\ \A i \in DOMAIN events : events[i].owner \in Loaded \cup {NoRun}
  /\ \A q \in Run : defects[q] = {}
  => \A r \in Loaded, priced \in BOOLEAN : RunState(r, priced) = "over" =>
       /\ priced
       /\ Tokens({i \in DOMAIN events :
                    events[i].owner \in {r, NoRun} /\ InWindow(events[i], r)}) > Ceiling
=============================================================================
