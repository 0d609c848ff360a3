-------------------------- MODULE RunTraces_proofs --------------------------
(***************************************************************************)
(* What holds of the traces and of run-report.py for every number of runs, *)
(* agents and features, every payload and every bound.                     *)
(***************************************************************************)
EXTENDS RunTraces, FiniteSetLemmas, TLAPS

----------------------------------------------------------------------------
(* Type correctness.                                                       *)

\* What the hook appends is a line or nothing.
LEMMA HookLinesType ==
  ASSUME NEW r \in Run \cup {NoRun}, NEW a \in Agent, clock \in Nat,
         NEW line \in HookLines(r, a)
  PROVE  line \in Seq(Event)
<1>1. CASE line = <<>>
  BY <1>1
<1>2. CASE \E b \in {a, NoAgent}, n \in TokenCounts :
             line = <<[ts |-> clock, agent |-> b, tokens |-> n, owner |-> r]>>
  <2>1. PICK b \in {a, NoAgent}, n \in TokenCounts :
          line = <<[ts |-> clock, agent |-> b, tokens |-> n, owner |-> r]>>
    BY <1>2
  <2>2. n \in Nat
    BY TracesAssumption
  <2>3. [ts |-> clock, agent |-> b, tokens |-> n, owner |-> r] \in Event
    BY <2>2 DEF Event
  <2> QED BY <2>1, <2>3
<1> QED BY <1>1, <1>2 DEF HookLines

\* A step leaves every variable of its type.
LEMMA TypeStep == TypeOK /\ [Next]_vars => TypeOK'
<1> SUFFICES ASSUME TypeOK, [Next]_vars PROVE TypeOK'
  OBVIOUS
<1> USE DEF TypeOK
<1>1. CASE Tick
  BY <1>1 DEF Tick
<1>2. ASSUME NEW r \in Run, NEW i \in Invocation, Start(r, i[1], i[2])
      PROVE  TypeOK'
  <2> DEFINE begun == [feature |-> i[1], started |-> clock, finished |-> clock,
                       terse |-> i[2], agents |-> {}, verdicts |-> NoVerdict]
  <2>1. i[1] \in Feature /\ i[2] \in BOOLEAN
    BY TracesAssumption
  <2>2. begun \in Trace
    BY <2>1 DEF Trace, NoVerdict, Verdict
  <2> QED BY <1>2, <2>2 DEF Start
<1>3. ASSUME NEW r \in Run, NEW a \in Agent, NEW line \in HookLines(r, a),
             AgentStops(r, a, line)
      PROVE  TypeOK'
  <2>1. line \in Seq(Event)
    BY HookLinesType
  <2>2. open[r] \in Trace
    BY <1>3 DEF AgentStops
  <2>3. [open[r] EXCEPT !.agents = @ \cup {a}] \in Trace
    BY <2>2 DEF Trace
  <2>4. open' = [open EXCEPT ![r] = [open[r] EXCEPT !.agents = @ \cup {a}]]
    BY <1>3 DEF AgentStops
  <2>5. open' \in [Run -> Trace \cup {NoTrace}]
    BY <2>3, <2>4
  <2>6. events' \in Seq(Event)
    BY <1>3, <2>1 DEF AgentStops
  <2> QED BY <1>3, <2>5, <2>6 DEF AgentStops
<1>4. ASSUME NEW r \in Run, NEW verdicts \in Outcome, Finish(r, verdicts)
      PROVE  TypeOK'
  <2>1. open[r] \in Trace
    BY <1>4 DEF Finish
  <2>2. verdicts \in [qe: Verdict, security: Verdict]
    BY TracesAssumption
  <2>3. [open[r] EXCEPT !.finished = clock, !.verdicts = verdicts] \in Trace
    BY <2>1, <2>2 DEF Trace
  <2> QED BY <1>4, <2>3 DEF Finish
<1>5. ASSUME NEW r \in Run, NEW d \in Spoilable, Spoil(r, d)
      PROVE  TypeOK'
  BY <1>5 DEF Spoil
<1>6. CASE UNCHANGED vars
  BY <1>6 DEF vars
<1>7. ASSUME NEW a \in Agent, NEW line \in HookLines(NoRun, a), StrayStops(line)
      PROVE  TypeOK'
  <2>1. line \in Seq(Event)
    BY HookLinesType
  <2> QED BY <1>7, <2>1 DEF StrayStops
<1> QED BY <1>1, <1>2, <1>3, <1>4, <1>5, <1>6, <1>7 DEF Next

\* RunTraces: the traces, the lines of the events file and the damage keep
\* their types in every behaviour.
THEOREM TracesTypeCorrect == Spec => []TypeOK
<1>1. Init => TypeOK
  BY DEF Init, TypeOK
<1> QED BY <1>1, TypeStep, PTL DEF Spec

----------------------------------------------------------------------------
(* Attribution: an event is never counted for another run than its own.    *)

\* What is known of a run that has recorded an event, in flight or on disk.
Covers(t, e) ==
  /\ t.started <= e.ts
  /\ e.agent \in t.agents \cup {NoAgent}

\* The inductive invariant: no event is ahead of the clock; the run of an event
\* that has one is in flight or on disk, its window as it was written holds the
\* event and its agents hold the agent; a run is never both; damage is done to
\* files only; and the time that is left bounds the clock.
EventInv(e) ==
  /\ e.ts <= clock
  /\ e.owner # NoRun =>
       /\ open[e.owner] # NoTrace \/ trace[e.owner] # NoTrace
       /\ open[e.owner] # NoTrace => Covers(open[e.owner], e)
       /\ trace[e.owner] # NoTrace =>
            Covers(trace[e.owner], e) /\ e.ts <= trace[e.owner].finished

RunInv(r) ==
  /\ open[r] # NoTrace => trace[r] = NoTrace /\ open[r].started <= clock
  /\ trace[r] # NoTrace => trace[r].finished <= clock
  /\ trace[r] = NoTrace => defects[r] = {}

OwnerInv ==
  /\ TypeOK
  /\ clock + stops <= MaxWork
  /\ \A r \in Run : RunInv(r)
  /\ \A i \in DOMAIN events : EventInv(events[i])

\* The new event of an agent that stops.
LEMMA NewEventInv ==
  ASSUME OwnerInv, NEW r \in Run, NEW a \in Agent, NEW line \in HookLines(r, a),
         AgentStops(r, a, line), NEW j \in DOMAIN line
  PROVE  EventInv(line[j])'
<1>1. PICK b \in {a, NoAgent}, n \in TokenCounts :
        line = <<[ts |-> clock, agent |-> b, tokens |-> n, owner |-> r]>>
  BY DEF HookLines
<1>2. /\ line[j].ts = clock /\ line[j].agent \in {a, NoAgent} /\ line[j].owner = r
  BY <1>1
<1>3. /\ open[r] \in Trace /\ trace[r] = NoTrace /\ clock \in Nat
      /\ open[r].started <= clock
  BY DEF AgentStops, OwnerInv, TypeOK, RunInv
<1>4. /\ clock' = clock /\ trace' = trace
      /\ open'[r] = [open[r] EXCEPT !.agents = open[r].agents \cup {a}]
  BY DEF AgentStops, OwnerInv, TypeOK
<1>5. /\ open'[r].started = open[r].started
      /\ open'[r].agents = open[r].agents \cup {a}
      /\ open'[r] # NoTrace
  BY <1>3, <1>4, NoTraceAssumption DEF Trace
<1> QED BY <1>2, <1>3, <1>4, <1>5 DEF EventInv, Covers

\* The invariant is kept by every step.
LEMMA OwnerStep == OwnerInv /\ [Next]_vars => OwnerInv'
<1> SUFFICES ASSUME OwnerInv, [Next]_vars PROVE OwnerInv'
  OBVIOUS
<1>t. TypeOK /\ TypeOK'
  BY TypeStep DEF OwnerInv
<1>e. \A i \in DOMAIN events : events[i] \in Event
  BY <1>t DEF TypeOK
<1>b. clock' + stops' <= MaxWork
  <2>1. /\ clock \in Nat /\ stops \in Nat /\ MaxWork \in Nat
        /\ clock + stops <= MaxWork
    BY TracesAssumption DEF OwnerInv, TypeOK
  <2>2. \/ clock' = clock /\ stops' = stops
        \/ clock + stops < MaxWork /\ clock' = clock + 1 /\ stops' = stops
        \/ clock + stops < MaxWork /\ clock' = clock /\ stops' = stops + 1
    BY DEF Next, Tick, Start, AgentStops, StrayStops, Finish, Spoil, vars
  <2> QED BY <2>1, <2>2
<1>1. CASE Tick
  BY <1>1, <1>t, <1>e, <1>b DEF Tick, OwnerInv, TypeOK, EventInv, RunInv, Covers, Event, Trace
<1>2. ASSUME NEW r \in Run, NEW i \in Invocation, Start(r, i[1], i[2])
      PROVE  OwnerInv'
  <2>1. /\ open[r] = NoTrace /\ trace[r] = NoTrace
        /\ open'[r].started = clock
        /\ clock' = clock /\ UNCHANGED <<trace, defects, events>>
        /\ \A q \in Run \ {r} : open'[q] = open[q]
    BY <1>2, <1>t DEF Start, TypeOK
  <2>2. \A q \in Run : RunInv(q)'
    BY <2>1, <1>t DEF OwnerInv, RunInv, TypeOK
  <2>3. ASSUME NEW j \in DOMAIN events PROVE EventInv(events[j])'
    <3>1. EventInv(events[j]) /\ events[j].owner \in Run \cup {NoRun}
      BY <1>e DEF OwnerInv, Event
    <3>2. events[j].owner # r
      BY <3>1, <2>1, TracesAssumption DEF EventInv
    <3> QED BY <3>1, <3>2, <2>1 DEF EventInv, Covers
  <2> QED BY <1>t, <1>b, <2>1, <2>2, <2>3 DEF OwnerInv
<1>3. ASSUME NEW r \in Run, NEW a \in Agent, NEW line \in HookLines(r, a),
             AgentStops(r, a, line)
      PROVE  OwnerInv'
  <2>1. /\ open[r] \in Trace
        /\ clock' = clock /\ UNCHANGED <<trace, defects>>
        /\ events' = events \o line
        /\ open'[r] = [open[r] EXCEPT !.agents = open[r].agents \cup {a}]
        /\ \A q \in Run \ {r} : open'[q] = open[q]
    BY <1>3, <1>t DEF AgentStops, TypeOK
  <2>2. /\ open'[r].started = open[r].started
        /\ open'[r].agents = open[r].agents \cup {a}
        /\ open'[r] # NoTrace
    BY <2>1, NoTraceAssumption DEF Trace
  <2>3. \A q \in Run : RunInv(q)'
    BY <2>1, <2>2, <1>t, <1>3 DEF AgentStops, OwnerInv, RunInv, TypeOK
  <2>4. ASSUME NEW j \in DOMAIN events PROVE EventInv(events[j])'
    <3>1. EventInv(events[j]) /\ events[j].owner \in Run \cup {NoRun}
      BY <1>e DEF OwnerInv, Event
    <3>2. CASE events[j].owner = r
      BY <3>1, <3>2, <2>1, <2>2, <1>3 DEF EventInv, Covers, AgentStops
    <3>3. CASE events[j].owner # r
      BY <3>1, <3>3, <2>1 DEF EventInv, Covers
    <3> QED BY <3>2, <3>3
  <2>5. ASSUME NEW j \in DOMAIN line PROVE EventInv(line[j])'
    BY <1>3, NewEventInv
  <2>6. ASSUME NEW j \in DOMAIN events' PROVE EventInv(events[j])'
    <3>1. line \in Seq(Event) /\ events \in Seq(Event)
      BY <1>t, HookLinesType DEF TypeOK
    <3>2. CASE j \in DOMAIN events
      <4>1. events'[j] = events[j]
        BY <3>1, <3>2, <2>1
      <4> QED BY <4>1, <3>2, <2>4 DEF EventInv
    <3>3. CASE j \notin DOMAIN events
      <4>1. /\ j - Len(events) \in DOMAIN line
            /\ events'[j] = line[j - Len(events)]
        BY <3>1, <3>3, <2>1
      <4> QED BY <4>1, <2>5 DEF EventInv
    <3> QED BY <3>2, <3>3
  <2> QED BY <1>t, <1>b, <2>3, <2>6 DEF OwnerInv
<1>4. ASSUME NEW r \in Run, NEW verdicts \in Outcome, Finish(r, verdicts)
      PROVE  OwnerInv'
  <2>1. /\ open[r] \in Trace /\ open[r] # NoTrace /\ open'[r] = NoTrace
        /\ clock' = clock /\ UNCHANGED <<defects, events>>
        /\ trace'[r] = [open[r] EXCEPT !.finished = clock, !.verdicts = verdicts]
        /\ \A q \in Run \ {r} : open'[q] = open[q] /\ trace'[q] = trace[q]
    BY <1>4, <1>t DEF Finish, TypeOK
  <2>2. /\ trace'[r].started = open[r].started
        /\ trace'[r].agents = open[r].agents
        /\ trace'[r].finished = clock
        /\ trace'[r] \in Trace
    BY <2>1, TracesAssumption, <1>t DEF Trace, TypeOK
  <2>3. \A q \in Run : RunInv(q)'
    <3>1. RunInv(r)'
      BY <2>1, <2>2, <1>t, NoTraceAssumption DEF RunInv, TypeOK
    <3>2. ASSUME NEW q \in Run \ {r} PROVE RunInv(q)'
      <4>1. RunInv(q)
        BY DEF OwnerInv
      <4> QED BY <4>1, <2>1 DEF RunInv
    <3> QED BY <3>1, <3>2
  <2>4. ASSUME NEW j \in DOMAIN events PROVE EventInv(events[j])'
    <3>1. EventInv(events[j]) /\ events[j].owner \in Run \cup {NoRun}
      BY <1>e DEF OwnerInv, Event
    <3>2. CASE events[j].owner = r
      BY <3>1, <3>2, <2>1, <2>2, NoTraceAssumption DEF EventInv, Covers
    <3>3. CASE events[j].owner # r
      BY <3>1, <3>3, <2>1 DEF EventInv, Covers
    <3> QED BY <3>2, <3>3
  <2> QED BY <1>t, <1>b, <2>1, <2>3, <2>4 DEF OwnerInv
<1>5. ASSUME NEW r \in Run, NEW d \in Spoilable, Spoil(r, d)
      PROVE  OwnerInv'
  BY <1>5, <1>t, <1>b DEF Spoil, OwnerInv, TypeOK, EventInv, RunInv, Covers
<1>6. CASE UNCHANGED vars
  BY <1>6, <1>t, <1>b DEF vars, OwnerInv, EventInv, RunInv, Covers
<1>7. ASSUME NEW a \in Agent, NEW line \in HookLines(NoRun, a), StrayStops(line)
      PROVE  OwnerInv'
  <2>1. /\ clock' = clock /\ UNCHANGED <<open, trace, defects>>
        /\ events' = events \o line
    BY <1>7 DEF StrayStops
  <2>2. \A q \in Run : RunInv(q)'
    BY <2>1 DEF OwnerInv, RunInv
  <2>3. line \in Seq(Event) /\ events \in Seq(Event)
    BY <1>t, HookLinesType DEF TypeOK
  <2>4. \A j \in DOMAIN line : line[j].ts = clock /\ line[j].owner = NoRun
    BY DEF HookLines
  <2>5. ASSUME NEW j \in DOMAIN events' PROVE EventInv(events[j])'
    <3>1. CASE j \in DOMAIN events
      <4>1. events'[j] = events[j] /\ EventInv(events[j])
        BY <2>1, <2>3, <3>1 DEF OwnerInv
      <4> QED BY <2>1, <4>1 DEF EventInv, Covers
    <3>2. CASE j \notin DOMAIN events
      <4>1. j - Len(events) \in DOMAIN line /\ events'[j] = line[j - Len(events)]
        BY <2>1, <2>3, <3>2
      <4> QED BY <1>t, <2>1, <2>4, <4>1 DEF EventInv, TypeOK
    <3> QED BY <3>1, <3>2
  <2> QED BY <1>t, <1>b, <2>2, <2>5 DEF OwnerInv
<1> QED BY <1>1, <1>2, <1>3, <1>4, <1>5, <1>6, <1>7 DEF Next

\* The invariant holds in every behaviour.
LEMMA OwnerInvariant == Spec => []OwnerInv
<1>1. Init => OwnerInv
  BY TracesAssumption DEF Init, OwnerInv, TypeOK, RunInv
<1> QED BY <1>1, OwnerStep, PTL DEF Spec

\* What there is of a run: the record in flight, or the trace.
RecordOf(r) == IF open[r] # NoTrace THEN open[r] ELSE trace[r]

\* No two runs of one feature start in one second, so no two have one file name.
NamesInv ==
  \A q, r \in Run :
    q # r /\ RecordOf(q) # NoTrace /\ RecordOf(r) # NoTrace
      => <<RecordOf(q).started, RecordOf(q).feature>>
           # <<RecordOf(r).started, RecordOf(r).feature>>

\* A start takes a name that is free, and every other step keeps the names.
LEMMA NamesStep == OwnerInv /\ NamesInv /\ [Next]_vars => NamesInv'
<1> SUFFICES ASSUME OwnerInv, NamesInv, [Next]_vars PROVE NamesInv'
  OBVIOUS
<1>1. ASSUME UNCHANGED <<open, trace>> PROVE NamesInv'
  BY <1>1 DEF NamesInv, RecordOf
<1>2. ASSUME NEW r \in Run, NEW i \in Invocation, Start(r, i[1], i[2])
      PROVE  NamesInv'
  <2>1. /\ trace' = trace /\ \A q \in Run \ {r} : open'[q] = open[q]
        /\ open'[r].started = clock /\ open'[r].feature = i[1]
        /\ open'[r] = [feature |-> i[1], started |-> clock, finished |-> clock,
                       terse |-> i[2], agents |-> {}, verdicts |-> NoVerdict]
    BY <1>2 DEF Start, OwnerInv, TypeOK
  <2>2. open'[r] # NoTrace
    <3>1. i[1] \in Feature /\ i[2] \in BOOLEAN /\ clock \in Nat
      BY TracesAssumption DEF OwnerInv, TypeOK
    <3>2. open'[r] \in Trace
      BY <2>1, <3>1 DEF Trace, NoVerdict, Verdict
    <3> QED BY <3>2, NoTraceAssumption
  <2>3. \A q \in Run \ {r} : RecordOf(q)' = RecordOf(q)
    BY <2>1 DEF RecordOf
  <2>4. RecordOf(r)' = open'[r]
    BY <2>2 DEF RecordOf
  <2>5. \A q \in Run \ {r} : RecordOf(q) # NoTrace =>
          <<RecordOf(q).started, RecordOf(q).feature>> # <<clock, i[1]>>
    BY <1>2 DEF Start, RecordOf
  <2> QED BY <2>1, <2>3, <2>4, <2>5 DEF NamesInv
<1>3. ASSUME NEW r \in Run, \A q \in Run \ {r} : open'[q] = open[q] /\ trace'[q] = trace[q],
             RecordOf(r) # NoTrace,
             RecordOf(r)'.started = RecordOf(r).started,
             RecordOf(r)'.feature = RecordOf(r).feature
      PROVE  NamesInv'
  <2>1. \A q \in Run \ {r} : RecordOf(q)' = RecordOf(q)
    BY <1>3 DEF RecordOf
  <2> QED BY <1>3, <2>1 DEF NamesInv
<1>4. ASSUME NEW r \in Run, NEW a \in Agent, NEW line \in HookLines(r, a),
             AgentStops(r, a, line)
      PROVE  NamesInv'
  <2>1. /\ open[r] \in Trace /\ open[r] # NoTrace /\ trace' = trace
        /\ open'[r] = [open[r] EXCEPT !.agents = open[r].agents \cup {a}]
        /\ \A q \in Run \ {r} : open'[q] = open[q]
    BY <1>4 DEF AgentStops, OwnerInv, TypeOK
  <2>2. /\ open'[r].started = open[r].started /\ open'[r].feature = open[r].feature
        /\ open'[r] # NoTrace
    BY <2>1, NoTraceAssumption DEF Trace
  <2>3. RecordOf(r) = open[r] /\ RecordOf(r)' = open'[r]
    BY <2>1, <2>2 DEF RecordOf
  <2> QED BY <2>1, <2>2, <2>3, <1>3
<1>5. ASSUME NEW r \in Run, NEW verdicts \in Outcome, Finish(r, verdicts)
      PROVE  NamesInv'
  <2>1. /\ open[r] \in Trace /\ open[r] # NoTrace /\ open'[r] = NoTrace
        /\ trace'[r] = [open[r] EXCEPT !.finished = clock, !.verdicts = verdicts]
        /\ \A q \in Run \ {r} : open'[q] = open[q] /\ trace'[q] = trace[q]
    BY <1>5 DEF Finish, OwnerInv, TypeOK
  <2>2. trace'[r].started = open[r].started /\ trace'[r].feature = open[r].feature
    BY <2>1 DEF Trace
  <2>3. RecordOf(r) = open[r] /\ RecordOf(r)' = trace'[r]
    BY <2>1 DEF RecordOf
  <2> QED BY <2>1, <2>2, <2>3, <1>3
<1> QED BY <1>1, <1>2, <1>4, <1>5 DEF Next, Tick, StrayStops, Spoil, vars

\* The names of runs are distinct in every behaviour.
LEMMA NamesInvariant == Spec => []NamesInv
<1>1. Init => NamesInv
  BY DEF Init, NamesInv, RecordOf
<1> QED BY <1>1, NamesStep, OwnerInvariant, PTL DEF Spec

\* The key of the attribution is the run's own where there is one.
IdsInv == \A q, r \in Loaded : q # r /\ "id" \notin defects[q] => IdOf(q) # IdOf(r)

\* A run_id is the name of the run, which no two runs share.
LEMMA IdsAreNames == OwnerInv /\ NamesInv => IdsInv
<1> SUFFICES ASSUME OwnerInv, NamesInv, NEW q \in Loaded, NEW r \in Loaded, q # r,
                    "id" \notin defects[q]
             PROVE  IdOf(q) # IdOf(r)
  BY DEF IdsInv
<1>1. \A x \in Loaded : x \in Run /\ trace[x] # NoTrace /\ RecordOf(x) = trace[x]
  BY DEF Loaded, RecordOf, OwnerInv, RunInv
<1>2. IdOf(q) = <<trace[q].started, trace[q].feature>>
  BY DEF IdOf
<1>3. CASE "id" \in defects[r]
  BY <1>2, <1>3 DEF IdOf
<1>4. CASE "id" \notin defects[r]
  <2>1. IdOf(r) = <<trace[r].started, trace[r].feature>>
    BY <1>4 DEF IdOf
  <2> QED BY <1>1, <1>2, <2>1 DEF NamesInv
<1> QED BY <1>3, <1>4

\* So it is in every behaviour.
LEMMA IdsInvariant == Spec => []IdsInv
BY IdsAreNames, OwnerInvariant, NamesInvariant, PTL

\* attribute: the run of an event is among its candidates, and among those its
\* agent narrows them to; so whichever single run is left is that run.
LEMMA OwnerIsCandidate ==
  ASSUME OwnerInv, NEW i \in DOMAIN events, events[i].owner \in Loaded,
         defects[events[i].owner] \cap {"id", "agents", "finish"} = {}
  PROVE  Winner(events[i], Loaded) \subseteq {events[i].owner}
<1> DEFINE e == events[i]
           o == e.owner
<1>1. EventInv(e) /\ trace[o] # NoTrace /\ o \in Run /\ o # NoRun
  BY TracesAssumption DEF OwnerInv, Loaded
<1>2. InWindow(e, o)
  <2>1. /\ trace[o].started <= e.ts /\ e.ts <= trace[o].finished /\ e.ts <= clock
    BY <1>1 DEF EventInv, Covers
  <2>2. clock <= MaxWork /\ clock \in Nat /\ MaxWork \in Nat /\ e.ts \in Nat
    <3>1. e \in Event
      BY DEF OwnerInv, TypeOK
    <3> QED BY <3>1, TracesAssumption DEF OwnerInv, TypeOK, Event
  <2>3. e.ts <= FinishedOf(o)
    BY <2>1, <2>2 DEF FinishedOf
  <2> QED BY <2>1, <2>3 DEF InWindow
<1>3. o \in Candidates(e, Loaded) /\ AgentsOf(o) = trace[o].agents
  BY <1>2 DEF Candidates, AgentsOf
<1>4. CASE e.agent = NoAgent
  <2>1. ASSUME NEW r \in Loaded PROVE NoAgent \notin AgentsOf(r)
    <3>1. trace[r] \in Trace
      BY DEF Loaded, OwnerInv, TypeOK
    <3> QED BY <3>1, TracesAssumption DEF AgentsOf, Trace
  <2>2. Narrowed(e, Loaded) = {}
    BY <1>4, <2>1 DEF Narrowed, Candidates
  <2> QED BY <1>3, <2>2 DEF Winner, Single
<1>5. CASE e.agent # NoAgent
  <2>1. o \in Narrowed(e, Loaded)
    BY <1>1, <1>3, <1>5 DEF Narrowed, EventInv, Covers
  <2> QED BY <1>3, <2>1 DEF Winner, Single
<1> QED BY <1>4, <1>5

\* And no other run reads the list of that run back.
LEMMA OwnerWins == OwnerInv /\ IdsInv => CountedForItsOwner
<1> SUFFICES ASSUME OwnerInv, IdsInv, NEW i \in DOMAIN events, NEW r \in Loaded,
                    events[i].owner \in Loaded, i \in Attributed(r, Loaded),
                    defects[events[i].owner] \cap {"id", "agents", "finish"} = {}
             PROVE  r = events[i].owner
  BY DEF CountedForItsOwner
<1>1. PICK q \in Winner(events[i], Loaded) : q = r \/ IdOf(q) = IdOf(r)
  BY DEF Attributed
<1>2. q = events[i].owner
  BY OwnerIsCandidate
<1> QED BY <1>1, <1>2 DEF IdsInv

\* run-report.py attribute: an event of a run whose trace is on disk with its id,
\* its agents and its finish is counted for that run or for none, however many
\* runs overlap, in however many windows, and whatever is wrong in the traces of
\* the others.
THEOREM EventsCountedForTheirOwner == Spec => []CountedForItsOwner
BY OwnerInvariant, IdsInvariant, OwnerWins, PTL

----------------------------------------------------------------------------
(* Attribution as evidence comes and goes.                                 *)

\* The decision of attribute() as a function of the two sets it looks at.
SoleOf(C, N) == IF Single(C) THEN C ELSE IF Single(N) THEN N ELSE {}

\* attribute decides by the candidates and the narrowed candidates alone, in
\* this state and in the next.
LEMMA WinnerIsSole ==
  \A e : /\ Winner(e, Loaded) = SoleOf(Candidates(e, Loaded), Narrowed(e, Loaded))
         /\ Winner(e, Loaded)' = SoleOf(Candidates(e, Loaded)', Narrowed(e, Loaded)')
BY DEF Winner, SoleOf

\* A winner still wins when rivals disappear and it stays what it was.
LEMMA FewerRivals ==
  ASSUME NEW C, NEW N, NEW D, NEW M, NEW r,
         D \subseteq C, M \subseteq N, r \in D, r \in N => r \in M,
         SoleOf(C, N) = {r}
  PROVE  SoleOf(D, M) = {r}
BY DEF SoleOf, Single

\* A trace that is written adds a candidate and changes none.
LEMMA FinishKeepsOthers ==
  ASSUME OwnerInv, NEW p \in Run, NEW verdicts \in Outcome, Finish(p, verdicts),
         NEW e, NEW r \in Loaded
  PROVE  /\ Candidates(e, Loaded) \subseteq Candidates(e, Loaded)'
         /\ Narrowed(e, Loaded) \subseteq Narrowed(e, Loaded)'
         /\ r \in Candidates(e, Loaded)' => r \in Candidates(e, Loaded)
         /\ r \in Narrowed(e, Loaded)' => r \in Narrowed(e, Loaded)
         /\ IdOf(r)' = IdOf(r) /\ r \in Loaded'
         /\ Loaded' \subseteq Loaded \cup {p} /\ p \notin Loaded /\ defects'[p] = {}
<1>1. trace[p] = NoTrace /\ defects' = defects /\ defects[p] = {}
      /\ \A q \in Run \ {p} : trace'[q] = trace[q]
  BY DEF Finish, OwnerInv, RunInv, TypeOK
<1>2. \A q \in Loaded : q \in Loaded' /\ trace'[q] = trace[q] /\ defects'[q] = defects[q]
  BY <1>1 DEF Loaded
<1>3. \A q \in Loaded : /\ InWindow(e, q)' <=> InWindow(e, q)
                        /\ AgentsOf(q)' = AgentsOf(q) /\ IdOf(q)' = IdOf(q)
  BY <1>2 DEF InWindow, FinishedOf, AgentsOf, IdOf
<1>4. Loaded' \subseteq Loaded \cup {p} /\ p \notin Loaded
  BY <1>1 DEF Loaded
<1> QED BY <1>1, <1>2, <1>3, <1>4 DEF Candidates, Narrowed

\* run-report.py attribute: a trace that arrives gives no other run an event it
\* did not have; totals fall as the evidence becomes complete.
THEOREM ArrivalsNeverInflate == Spec => ArrivalNeverInflates
<1>1. OwnerInv /\ IdsInv' /\ [Next]_vars => [NothingGained]_vars
  <2> SUFFICES ASSUME OwnerInv, IdsInv', Next,
                      NEW q \in Run, trace[q] = NoTrace, trace'[q] # NoTrace,
                      NEW r \in Loaded, NEW i \in Attributed(r, Loaded)'
               PROVE  i \in Attributed(r, Loaded)
    BY DEF NothingGained, vars
  <2>1. PICK p \in Run, verdicts \in Outcome : Finish(p, verdicts)
    BY DEF Next, Tick, Start, AgentStops, StrayStops, Spoil
  <2>2. events' = events
    BY <2>1 DEF Finish
  <2>e. PICK e : e = events[i] /\ e = events'[i]
    BY <2>2
  <2>3. /\ i \in DOMAIN events
        /\ \E w \in Winner(e, Loaded)' : w = r \/ IdOf(w)' = IdOf(r)'
    BY <2>2, <2>e DEF Attributed
  <2>w. PICK w : w \in Winner(e, Loaded)' /\ (w = r \/ IdOf(w)' = IdOf(r)')
    BY <2>3
  <2>4. /\ SoleOf(Candidates(e, Loaded)', Narrowed(e, Loaded)') = {w}
        /\ w \in Candidates(e, Loaded)' /\ w \in Loaded'
    <3>1. w \in SoleOf(Candidates(e, Loaded)', Narrowed(e, Loaded)')
      BY <2>w, WinnerIsSole
    <3>2. w \in Candidates(e, Loaded)'
      BY <3>1 DEF SoleOf, Single, Narrowed
    <3> QED BY <3>1, <3>2 DEF SoleOf, Single, Candidates
  <2>5. w \in Loaded /\ IdOf(w)' = IdOf(w) /\ IdOf(r)' = IdOf(r)
    <3>1. /\ Loaded' \subseteq Loaded \cup {p} /\ p \notin Loaded /\ defects'[p] = {}
          /\ r \in Loaded' /\ IdOf(r)' = IdOf(r)
      BY <2>1, FinishKeepsOthers
    <3>2. w # p
      BY <2>w, <2>4, <3>1 DEF IdsInv
    <3>3. w \in Loaded
      BY <2>4, <3>1, <3>2
    <3> QED BY <2>1, <3>1, <3>3, FinishKeepsOthers
  <2>6. SoleOf(Candidates(e, Loaded), Narrowed(e, Loaded)) = {w}
    <3>1. /\ Candidates(e, Loaded) \subseteq Candidates(e, Loaded)'
          /\ Narrowed(e, Loaded) \subseteq Narrowed(e, Loaded)'
          /\ w \in Candidates(e, Loaded)
          /\ w \in Narrowed(e, Loaded)' => w \in Narrowed(e, Loaded)
      BY <2>1, <2>4, <2>5, FinishKeepsOthers
    <3> QED BY <2>4, <3>1, FewerRivals
  <2>7. w \in Winner(e, Loaded)
    BY <2>6, WinnerIsSole
  <2> QED BY <2>3, <2>w, <2>5, <2>7, <2>e DEF Attributed
<1> QED BY <1>1, OwnerInvariant, IdsInvariant, PTL DEF Spec, ArrivalNeverInflates

\* What damage of the kinds the report puts up with does to one trace: the window
\* of that trace closes, or loses its agents or its id; the rest is as it was.
LEMMA SpoilKeepsOthers ==
  ASSUME OwnerInv, Next, NEW q \in Run, defects'[q] # defects[q],
         defects'[q] \subseteq Coerced \cup {"id", "finish"}
  PROVE  /\ events' = events /\ trace' = trace /\ defects[q] = {}
         /\ \A s \in Run \ {q} : defects'[s] = defects[s]
         /\ Loaded' \subseteq Loaded /\ \A s \in Loaded \ {q} : s \in Loaded'
         /\ \A s \in Loaded \ {q} : IdOf(s)' = IdOf(s) /\ AgentsOf(s)' = AgentsOf(s)
         /\ \A s \in Loaded' : AgentsOf(s)' \subseteq AgentsOf(s)
         /\ \A i \in DOMAIN events : \A s \in Loaded' :
              /\ InWindow(events[i], s)' => InWindow(events[i], s)
              /\ s # q => (InWindow(events[i], s)' <=> InWindow(events[i], s))
<1>1. PICK p \in Run, d \in Spoilable : Spoil(p, d)
  BY DEF Next, Tick, Start, AgentStops, StrayStops, Finish
<1>2. /\ p = q /\ events' = events /\ trace' = trace /\ defects[q] = {} /\ defects'[q] = {d}
      /\ \A s \in Run \ {q} : defects'[s] = defects[s]
  BY <1>1 DEF Spoil, OwnerInv, TypeOK
<1>3. /\ Loaded' \subseteq Loaded /\ \A s \in Loaded \ {q} : s \in Loaded'
      /\ \A s \in Loaded \ {q} : IdOf(s)' = IdOf(s) /\ AgentsOf(s)' = AgentsOf(s)
      /\ \A s \in Loaded' : AgentsOf(s)' \subseteq AgentsOf(s)
  BY <1>2 DEF Loaded, IdOf, AgentsOf
<1>4. ASSUME NEW s \in Loaded', s # q
      PROVE  FinishedOf(s)' = FinishedOf(s) /\ s \in Run
  BY <1>2, <1>4 DEF FinishedOf, Loaded
<1>5. \A i \in DOMAIN events : \A s \in Loaded' :
        s # q => (InWindow(events[i], s)' <=> InWindow(events[i], s))
  BY <1>2, <1>4 DEF InWindow
<1>6. ASSUME NEW i \in DOMAIN events, q \in Loaded', InWindow(events[i], q)'
      PROVE  InWindow(events[i], q)
  <2>1. d \in Coerced \cup {"id", "finish"}
    BY <1>2
  <2>2. events[i].ts \in Nat /\ trace[q].started \in Nat
    <3>1. events[i] \in Event
      BY DEF OwnerInv, TypeOK
    <3>2. trace[q] \in Trace
      BY <1>2, <1>6 DEF Loaded, OwnerInv, TypeOK
    <3> QED BY <3>1, <3>2 DEF Event, Trace
  <2>3. d # "finish"
    BY <1>2, <1>6, <2>2 DEF InWindow, FinishedOf
  <2>4. FinishedOf(q)' = FinishedOf(q)
    BY <1>2, <2>1, <2>3 DEF FinishedOf, Coerced
  <2> QED BY <1>2, <1>6, <2>4 DEF InWindow
<1> QED BY <1>2, <1>3, <1>5, <1>6

\* run-report.py load_runs: damage of those kinds to one trace ends no report and
\* takes no event from any other run.
THEOREM DamageIsContained == Spec => DamageCostsItself
<1>1. OwnerInv /\ IdsInv /\ [Next]_vars => [OthersKeep]_vars
  <2> SUFFICES ASSUME OwnerInv, IdsInv, Next, NEW q \in Run, defects'[q] # defects[q],
                      defects'[q] \subseteq Coerced \cup {"id", "finish"},
                      NEW r \in Loaded \ {q}, NEW i \in ReportedEvents(r, Loaded)
               PROVE  i \in ReportedEvents(r, Loaded)'
    BY DEF OthersKeep, vars
  <2>1. /\ events' = events /\ trace' = trace /\ defects[q] = {}
        /\ \A s \in Run \ {q} : defects'[s] = defects[s]
        /\ Loaded' \subseteq Loaded /\ \A s \in Loaded \ {q} : s \in Loaded'
        /\ \A s \in Loaded \ {q} : IdOf(s)' = IdOf(s) /\ AgentsOf(s)' = AgentsOf(s)
        /\ \A s \in Loaded' : AgentsOf(s)' \subseteq AgentsOf(s)
        /\ \A k \in DOMAIN events : \A s \in Loaded' :
             /\ InWindow(events[k], s)' => InWindow(events[k], s)
             /\ s # q => (InWindow(events[k], s)' <=> InWindow(events[k], s))
    BY SpoilKeepsOthers
  <2>2. ~Raises /\ i \in Attributed(r, Loaded) /\ i \in DOMAIN events
    BY DEF ReportedEvents, Attributed
  <2>3. ASSUME NEW k \in DOMAIN events, NEW e, e = events[k]
        PROVE  /\ Candidates(e, Loaded)' \subseteq Candidates(e, Loaded)
               /\ Narrowed(e, Loaded)' \subseteq Narrowed(e, Loaded)
               /\ \A s \in Loaded \ {q} :
                    /\ s \in Candidates(e, Loaded)' <=> s \in Candidates(e, Loaded)
                    /\ s \in Narrowed(e, Loaded) => s \in Narrowed(e, Loaded)'
    <3>1. e' = e
      BY <2>1, <2>3
    <3>2. \A s \in Loaded' : s \in Loaded /\ (InWindow(e, s)' => InWindow(e, s))
      BY <2>1, <2>3
    <3>3. \A s \in Loaded \ {q} : s \in Loaded' /\ (InWindow(e, s)' <=> InWindow(e, s))
      BY <2>1, <2>3
    <3>4. /\ Candidates(e, Loaded)' = {s \in Loaded' : InWindow(e, s)'}
          /\ Narrowed(e, Loaded)' = {s \in Candidates(e, Loaded)' : e.agent \in AgentsOf(s)'}
      BY <3>1 DEF Candidates, Narrowed
    <3>5. /\ Candidates(e, Loaded) = {s \in Loaded : InWindow(e, s)}
          /\ Narrowed(e, Loaded) = {s \in Candidates(e, Loaded) : e.agent \in AgentsOf(s)}
      BY DEF Candidates, Narrowed
    <3> QED BY <2>1, <3>2, <3>3, <3>4, <3>5
  <2>4. ~Raises'
    <3> SUFFICES ASSUME Raises' PROVE FALSE
      OBVIOUS
    <3>1. PICK k \in DOMAIN events, s \in Loaded' :
            \/ "number" \in defects'[s] /\ trace[s].started <= events[k].ts
            \/ /\ "name" \in defects'[s] /\ events[k].agent # NoAgent
               /\ s \in Candidates(events[k], Loaded)' /\ ~Single(Candidates(events[k], Loaded)')
      BY <2>1 DEF Raises
    <3>2. s # q /\ s \in Loaded /\ s \in Run /\ defects'[s] = defects[s]
      <4>1. "number" \notin defects'[q] /\ "name" \notin defects'[q]
        BY DEF Coerced
      <4> QED BY <2>1, <3>1, <4>1 DEF Loaded
    <3>3. PICK e : e = events[k]
      OBVIOUS
    <3>4. /\ Candidates(e, Loaded)' \subseteq Candidates(e, Loaded)
          /\ s \in Candidates(e, Loaded)' => s \in Candidates(e, Loaded)
      BY <2>3, <3>2, <3>3
    <3>5. Candidates(events[k], Loaded)' = Candidates(e, Loaded)'
      BY <2>1, <3>3
    <3>6. s \in Candidates(e, Loaded)' /\ ~Single(Candidates(e, Loaded)')
            => ~Single(Candidates(e, Loaded))
      BY <3>4 DEF Single
    <3>7. Raises
      BY <3>1, <3>2, <3>3, <3>4, <3>5, <3>6 DEF Raises
    <3> QED BY <2>2, <3>7
  <2>e. PICK e : e = events[i] /\ e = events'[i]
    BY <2>1
  <2>5. PICK w \in Winner(e, Loaded) : w = r \/ IdOf(w) = IdOf(r)
    BY <2>2, <2>e DEF Attributed
  <2>6. SoleOf(Candidates(e, Loaded), Narrowed(e, Loaded)) = {w} /\ w \in Candidates(e, Loaded)
    BY <2>5, WinnerIsSole DEF SoleOf, Single, Narrowed
  <2>7. w \in Loaded /\ w # q
    <3>1. w \in Loaded
      BY <2>6 DEF Candidates
    <3>2. w = q => IdOf(w) # IdOf(r)
      BY <2>1, <3>1 DEF IdsInv
    <3> QED BY <2>5, <3>1, <3>2
  <2>8. SoleOf(Candidates(e, Loaded)', Narrowed(e, Loaded)') = {w}
    <3>1. /\ Candidates(e, Loaded)' \subseteq Candidates(e, Loaded)
          /\ Narrowed(e, Loaded)' \subseteq Narrowed(e, Loaded)
          /\ w \in Candidates(e, Loaded)'
          /\ w \in Narrowed(e, Loaded) => w \in Narrowed(e, Loaded)'
      BY <2>2, <2>3, <2>e, <2>6, <2>7
    <3> QED BY <2>6, <3>1, FewerRivals
  <2>9. w \in Winner(e, Loaded)' /\ (w = r \/ IdOf(w)' = IdOf(r)')
    BY <2>1, <2>5, <2>7, <2>8, WinnerIsSole
  <2>10. i \in Attributed(r, Loaded)' /\ r \in Loaded'
    BY <2>1, <2>2, <2>9, <2>e DEF Attributed
  <2> QED BY <2>4, <2>10 DEF ReportedEvents
<1> QED BY <1>1, OwnerInvariant, IdsInvariant, PTL DEF Spec, DamageCostsItself

----------------------------------------------------------------------------
(* The newest verdict and the control of a run.                            *)

\* A trace that appears is the one a command has just written.
LEMMA AppearsByFinish ==
  ASSUME OwnerInv, Next, NEW r \in Run, trace[r] = NoTrace, trace'[r] # NoTrace
  PROVE  /\ Loaded' = Loaded \cup {r} /\ r \notin Loaded
         /\ defects' = defects /\ defects[r] = {}
         /\ trace'[r] \in Trace /\ trace'[r].finished = clock
         /\ open[r] \in Trace /\ open[r] # NoTrace
         /\ trace'[r].started = open[r].started /\ trace'[r].feature = open[r].feature
         /\ \A q \in Run \ {r} : trace'[q] = trace[q]
<1>1. PICK p \in Run, verdicts \in Outcome : Finish(p, verdicts)
  BY DEF Next, Tick, Start, AgentStops, StrayStops, Spoil
<1>2. /\ p = r /\ defects' = defects /\ defects[r] = {}
      /\ \A q \in Run \ {r} : trace'[q] = trace[q]
  BY <1>1 DEF Finish, OwnerInv, RunInv, TypeOK
<1>3. /\ open[r] \in Trace /\ open[r] # NoTrace
      /\ trace'[r] = [open[r] EXCEPT !.finished = clock, !.verdicts = verdicts]
  BY <1>1, <1>2 DEF Finish, OwnerInv, TypeOK
<1>4. /\ trace'[r] \in Trace /\ trace'[r].finished = clock
      /\ trace'[r].started = open[r].started /\ trace'[r].feature = open[r].feature
  BY <1>3, TracesAssumption DEF Trace, OwnerInv, TypeOK
<1> QED BY <1>2, <1>3, <1>4 DEF Loaded

\* latest_verdicts: a verdict that finishes after all the others is in force at
\* once, however early its run started.
THEOREM LatestVerdictRules == Spec => LastVerdictIsInForce
<1>1. OwnerInv /\ [Next]_vars => [LatestComesIntoForce]_vars
  <2> SUFFICES ASSUME OwnerInv, Next, NEW r \in Run, NEW f \in Feature,
                      NEW field \in {"qe", "security"},
                      trace[r] = NoTrace, trace'[r] # NoTrace,
                      trace'[r].feature = f, trace'[r].verdicts[field] # "absent",
                      \A q \in Loaded : EndOf(q) < clock /\ "number" \notin defects[q]
               PROVE  LatestVerdict(f, field)' = trace'[r].verdicts[field]
    BY DEF LatestComesIntoForce, vars
  <2> DEFINE J == Judged(f, field)'
  <2>1. /\ Loaded' = Loaded \cup {r} /\ r \notin Loaded /\ trace'[r].finished = clock
        /\ defects' = defects /\ defects'[r] = {} /\ \A q \in Loaded : trace'[q] = trace[q]
    BY AppearsByFinish DEF Loaded
  <2>2. FeatureOf(r)' = f /\ VerdictsOf(r)' = trace'[r].verdicts /\ EndOf(r)' = clock
    BY <2>1 DEF FeatureOf, VerdictsOf, EndOf, FinishedOf
  <2>3. r \in J
    BY <2>1, <2>2 DEF Judged, LoadRuns
  <2>4. \A q \in J \ {r} : q \in Loaded
    BY <2>1 DEF Judged, LoadRuns
  <2>5. \A q \in J \ {r} : EndOf(q)' = EndOf(q) /\ EndOf(q) \in Int /\ EndOf(q) < clock
    <3> SUFFICES ASSUME NEW q \in Loaded
                 PROVE  EndOf(q)' = EndOf(q) /\ EndOf(q) \in Int /\ EndOf(q) < clock
      BY <2>4
    <3>1. trace[q] \in Trace /\ q \in Run
      BY DEF Loaded, OwnerInv, TypeOK
    <3>2. EndOf(q) \in Int
      BY <3>1, TracesAssumption DEF Trace, EndOf, FinishedOf
    <3> QED BY <2>1, <3>2 DEF EndOf, FinishedOf
  <2>6. \A q \in J \ {r} : FinishedBefore(q, r)' /\ ~FinishedBefore(r, q)'
    <3>1. clock \in Int
      BY DEF OwnerInv, TypeOK
    <3> QED BY <2>2, <2>5, <3>1 DEF FinishedBefore
  <2>7. Newest(Judged(f, field))' = r
    <3>1. \A x \in J : (\A q \in J \ {x} : FinishedBefore(q, x)') <=> x = r
      BY <2>3, <2>6
    <3> QED BY <2>3, <3>1 DEF Newest
  <2>8. ~Unsortable(f)'
    BY <2>1 DEF Unsortable, LoadRuns
  <2> QED BY <2>2, <2>3, <2>7, <2>8 DEF LatestVerdict
<1> QED BY <1>1, OwnerInvariant, PTL DEF Spec, LastVerdictIsInForce

\* The sort of find_control is a strict order, total between runs whose names
\* differ; said of the state a trace arrives in.
LEMMA NearerOrders ==
  ASSUME NEW r, NEW c, NEW d, NEW x,
         \A y \in {r, c, d, x} : trace'[y].started \in Nat /\ trace'[y].feature \in Nat
  PROVE  /\ Nearer(c, d, r)' /\ Nearer(d, x, r)' => Nearer(c, x, r)'
         /\ <<trace'[c].started, trace'[c].feature>> # <<trace'[d].started, trace'[d].feature>>
              => Nearer(c, d, r)' \/ Nearer(d, c, r)'
BY DEF Nearer, Delta, NameBefore, FileBefore

\* What the pairing of r reads is unchanged but for the trace of p that arrives.
LEMMA CandidatesGrow ==
  ASSUME OwnerInv, Next, NEW p \in Run, trace[p] = NoTrace, trace'[p] # NoTrace,
         NEW r \in Loaded
  PROVE  /\ ControlCandidates(r) \subseteq ControlCandidates(r)'
         /\ ControlCandidates(r)' \subseteq ControlCandidates(r) \cup {p}
         /\ p \notin ControlCandidates(r)
         /\ \A c, d \in ControlCandidates(r) : Nearer(c, d, r)' <=> Nearer(c, d, r)
<1>1. /\ Loaded' = Loaded \cup {p} /\ p \notin Loaded /\ defects' = defects
      /\ \A q \in Loaded : trace'[q] = trace[q]
  BY AppearsByFinish DEF Loaded
<1>2. \A q \in Loaded : FeatureOf(q)' = FeatureOf(q) /\ IdOf(q)' = IdOf(q)
  BY <1>1 DEF FeatureOf, IdOf
<1>3. \A c \in ControlCandidates(r) : c \in Loaded
  BY DEF ControlCandidates, LoadRuns
<1>4. /\ ControlCandidates(r) \subseteq ControlCandidates(r)'
      /\ ControlCandidates(r)' \subseteq ControlCandidates(r) \cup {p}
  BY <1>1, <1>2 DEF ControlCandidates, LoadRuns
<1>5. \A c, d \in ControlCandidates(r) : Nearer(c, d, r)' <=> Nearer(c, d, r)
  BY <1>1, <1>3 DEF Nearer, Delta, NameBefore, FileBefore
<1> QED BY <1>1, <1>3, <1>4, <1>5

\* find_control: a run that has a control still has one when a trace arrives,
\* its own or the one that has just arrived: the names of the files, which no two
\* runs share, break every tie of the distances.
THEOREM PairingSurvives == Spec => PairingSurvivesArrivals
<1>1. OwnerInv /\ OwnerInv' /\ NamesInv' /\ [Next]_vars => [PairingKept]_vars
  <2> SUFFICES ASSUME OwnerInv, OwnerInv', NamesInv', Next, NEW r \in Loaded,
                      trace'[r] = trace[r], defects' = defects,
                      NEW c \in FindControl(r)
               PROVE  /\ FindControl(r)' # {}
                      /\ FindControl(r)' \subseteq
                           FindControl(r) \cup {q \in Run : trace[q] = NoTrace}
    BY DEF PairingKept, vars
  <2>1. CASE trace' = trace
    <3>1. FindControl(r)' = FindControl(r)
      BY <2>1 DEF FindControl, ControlCandidates, LoadRuns, Loaded, FeatureOf, IdOf,
                  Nearer, Delta, NameBefore, FileBefore
    <3> QED BY <3>1
  <2>2. ASSUME NEW p \in Run, NEW verdicts \in Outcome, Finish(p, verdicts)
        PROVE  /\ FindControl(r)' # {}
               /\ FindControl(r)' \subseteq
                    FindControl(r) \cup {q \in Run : trace[q] = NoTrace}
    <3>1. trace[p] = NoTrace /\ trace'[p] # NoTrace
      <4>1. open[p] \in Trace /\ trace[p] = NoTrace
        BY <2>2 DEF Finish, OwnerInv, RunInv, TypeOK
      <4>2. [open[p] EXCEPT !.finished = clock, !.verdicts = verdicts] \in Trace
        BY <4>1, TracesAssumption DEF Trace, OwnerInv, TypeOK
      <4> QED BY <2>2, <4>1, <4>2, NoTraceAssumption DEF Finish, OwnerInv, TypeOK
    <3> DEFINE old == ControlCandidates(r)
               new == ControlCandidates(r)'
    <3>2. /\ old \subseteq new /\ new \subseteq old \cup {p} /\ p \notin old
          /\ \A a, b \in old : Nearer(a, b, r)' <=> Nearer(a, b, r)
      BY <3>1, CandidatesGrow
    <3>3. \A a \in new \cup {r} : /\ trace'[a].started \in Nat /\ trace'[a].feature \in Nat
                               /\ a \in Run /\ RecordOf(a)' = trace'[a]
                               /\ trace'[a] # NoTrace
      <4> SUFFICES ASSUME NEW a \in new \cup {r}
                   PROVE  /\ trace'[a].started \in Nat /\ trace'[a].feature \in Nat
                          /\ a \in Run /\ RecordOf(a)' = trace'[a]
                          /\ trace'[a] # NoTrace
        OBVIOUS
      <4>1. a \in Run /\ trace'[a] # NoTrace
        BY DEF ControlCandidates, LoadRuns, Loaded
      <4>2. trace'[a] \in Trace /\ open'[a] = NoTrace
        BY <4>1 DEF OwnerInv, TypeOK, RunInv
      <4>3. trace'[a].started \in Nat /\ trace'[a].feature \in Nat
        <5>1. Feature \cup {0} \subseteq Nat
          BY TracesAssumption
        <5> QED BY <4>2, <5>1 DEF Trace
      <4> QED BY <4>1, <4>2, <4>3 DEF RecordOf
    <3>4. /\ c \in old /\ c # p
          /\ \A d \in old \ {c} : Nearer(c, d, r)'
      BY <3>2 DEF FindControl
    <3>5. FindControl(r)' = {a \in new : \A d \in new \ {a} : Nearer(a, d, r)'}
      BY DEF FindControl
    <3>6. FindControl(r)' \subseteq FindControl(r) \cup {p}
      BY <3>2, <3>5 DEF FindControl
    <3>7. FindControl(r)' # {}
      <4>1. CASE p \notin new \/ Nearer(c, p, r)'
        BY <3>2, <3>4, <3>5, <4>1
      <4>2. CASE p \in new /\ ~Nearer(c, p, r)'
        <5>1. <<trace'[c].started, trace'[c].feature>> # <<trace'[p].started, trace'[p].feature>>
          BY <3>2, <3>3, <3>4, <4>2 DEF NamesInv
        <5>2. Nearer(p, c, r)'
          BY <3>2, <3>3, <3>4, <4>2, <5>1, NearerOrders
        <5>3. \A d \in old : Nearer(p, d, r)'
          BY <3>2, <3>3, <3>4, <4>2, <5>2, NearerOrders
        <5> QED BY <3>2, <3>5, <4>2, <5>3
      <4> QED BY <4>1, <4>2
    <3> QED BY <3>1, <3>6, <3>7
  <2> QED BY <2>1, <2>2 DEF Next, Tick, Start, AgentStops, StrayStops, Spoil
<1> QED
  BY <1>1, OwnerInvariant, NamesInvariant, PTL DEF Spec, PairingSurvivesArrivals

----------------------------------------------------------------------------
(* What is counted: the sums.                                              *)

\* The tokens of the lines, as Tokens adds them up.
LineTokens == [i \in DOMAIN events |-> events[i].tokens]

\* The lines are finitely many and hold numbers.
LEMMA LinesAdd ==
  ASSUME TypeOK
  PROVE  /\ IsFiniteSet(DOMAIN events)
         /\ \A i \in DOMAIN events : LineTokens[i] \in Nat
         /\ \A lines : Tokens(lines) = SumFunctionOnSet(LineTokens, lines)
<1>1. events \in Seq(Event) /\ DOMAIN events = 1..Len(events) /\ Len(events) \in Nat
  BY DEF TypeOK
<1>2. IsFiniteSet(DOMAIN events)
  BY <1>1, FS_Interval
<1>3. \A i \in DOMAIN events : LineTokens[i] \in Nat
  <2>1. \A i \in DOMAIN events : events[i] \in Event
    BY <1>1
  <2> QED BY <2>1 DEF LineTokens, Event
<1> QED BY <1>2, <1>3 DEF Tokens, LineTokens

\* The lines that a run wins; by_run lists them under the id of that run.
Won(r) == {i \in DOMAIN events : Winner(events[i], Loaded) = {r}}

\* A line is won by no more than one run, by one that is loaded, and is in the
\* remainder when it is won by none.  What a run wins is charged to it, and where
\* the ids are distinct nothing else is.
LEMMA LinesArePartitioned ==
  /\ \A q, r \in Loaded : q # r => Won(q) \cap Won(r) = {}
  /\ \A r \in Loaded : Won(r) \cap Unattributed(Loaded) = {}
  /\ \A i \in DOMAIN events :
       i \in Unattributed(Loaded) \/ \E r \in Loaded : i \in Won(r)
  /\ \A r \in Loaded : Won(r) \subseteq Attributed(r, Loaded)
  /\ DistinctIds => \A r \in Loaded : Attributed(r, Loaded) = Won(r)
<1>1. ASSUME NEW e PROVE Winner(e, Loaded) = {} \/ \E r \in Loaded : Winner(e, Loaded) = {r}
  BY WinnerIsSole DEF SoleOf, Single, Candidates, Narrowed
<1>2. \A r \in Loaded : Won(r) \subseteq Attributed(r, Loaded)
  BY DEF Won, Attributed
<1>3. ASSUME DistinctIds, NEW r \in Loaded, NEW i \in Attributed(r, Loaded)
      PROVE  i \in Won(r)
  <2>1. PICK q \in Winner(events[i], Loaded) : q = r \/ IdOf(q) = IdOf(r)
    BY DEF Attributed
  <2>2. q \in Loaded /\ Winner(events[i], Loaded) = {q}
    BY <1>1, <2>1
  <2>3. q = r
    BY <1>3, <2>1, <2>2 DEF DistinctIds
  <2> QED BY <2>2, <2>3 DEF Won, Attributed
<1> QED BY <1>1, <1>2, <1>3 DEF Won, Unattributed

\* The lines that the runs of a feature win.
LinesOf(f) == UNION {Won(r) : r \in LoadRuns(f)}

\* In a report that is made, a feature is charged with what those lines hold, and
\* with more only when ids are shared.
LEMMA FeatureSpentIsOfLines ==
  ASSUME TypeOK, ~Raises, NEW f
  PROVE  /\ FeatureSpent(f) \in Nat /\ SumFunctionOnSet(LineTokens, LinesOf(f)) \in Nat
         /\ FeatureSpent(f) >= SumFunctionOnSet(LineTokens, LinesOf(f))
         /\ DistinctIds => FeatureSpent(f) = SumFunctionOnSet(LineTokens, LinesOf(f))
<1> DEFINE part == [r \in Run |-> Won(r)]
           won == [r \in Run |-> SumFunctionOnSet(LineTokens, Won(r))]
           total == [r \in Run |-> Total(r)]
           J == LoadRuns(f)
<1>1. J \subseteq Loaded /\ J \subseteq Run /\ IsFiniteSet(J)
  BY TracesAssumption, FS_Subset DEF LoadRuns, Loaded
<1>2. /\ \A r \in J : part[r] \in SUBSET DOMAIN events
      /\ \A q, r \in J : q # r => part[q] \cap part[r] = {}
      /\ \A r \in J : won[r] = SumFunctionOnSet(LineTokens, part[r])
  BY <1>1, LinesArePartitioned DEF Won
<1>3. UNION {part[r] : r \in J} = LinesOf(f)
  BY <1>1 DEF LinesOf
<1>4. SumFunctionOnSet(won, J) = SumFunctionOnSet(LineTokens, UNION {part[r] : r \in J})
  <2> HIDE DEF part, won, J
  <2> QED BY <1>1, <1>2, LinesAdd, SumOfParts
<1>5. ASSUME NEW r \in J
      PROVE  /\ won[r] \in Nat /\ total[r] \in Nat /\ won[r] <= total[r]
             /\ DistinctIds => total[r] = won[r]
  <2>1. Total(r) = SumFunctionOnSet(LineTokens, Attributed(r, Loaded))
    BY <1>1, LinesAdd DEF Total, ReportedEvents
  <2>2. /\ Won(r) \subseteq Attributed(r, Loaded) /\ Attributed(r, Loaded) \subseteq DOMAIN events
        /\ DistinctIds => Attributed(r, Loaded) = Won(r)
    BY <1>1, LinesArePartitioned DEF Attributed
  <2>3. IsFiniteSet(Attributed(r, Loaded)) /\ \A i \in Attributed(r, Loaded) : LineTokens[i] \in Nat
    BY <2>2, LinesAdd, FS_Subset
  <2>4. /\ SumFunctionOnSet(LineTokens, Won(r)) <= SumFunctionOnSet(LineTokens, Attributed(r, Loaded))
        /\ SumFunctionOnSet(LineTokens, Won(r)) \in Nat
        /\ SumFunctionOnSet(LineTokens, Attributed(r, Loaded)) \in Nat
    BY <2>2, <2>3, SumMonotone, SumTakeOut
  <2> QED BY <1>1, <2>1, <2>2, <2>4
<1>6. /\ SumFunctionOnSet(won, J) <= SumFunctionOnSet(total, J)
      /\ SumFunctionOnSet(won, J) \in Nat /\ SumFunctionOnSet(total, J) \in Nat
      /\ DistinctIds => SumFunctionOnSet(total, J) <= SumFunctionOnSet(won, J)
  <2> HIDE DEF won, total, J
  <2>1. \A r \in J : won[r] \in Nat /\ total[r] \in Nat /\ won[r] <= total[r]
    BY <1>5
  <2>2. SumFunctionOnSet(won, J) <= SumFunctionOnSet(total, J)
    BY <1>1, <2>1, SumPointwise
  <2>3. ASSUME DistinctIds PROVE SumFunctionOnSet(total, J) <= SumFunctionOnSet(won, J)
    <3>1. \A r \in J : total[r] <= won[r]
      BY <1>5, <2>3
    <3> QED BY <1>1, <2>1, <3>1, SumPointwise
  <2>4. SumFunctionOnSet(won, J) \in Nat /\ SumFunctionOnSet(total, J) \in Nat
    BY <1>1, <2>1, SumTakeOut
  <2> QED BY <2>2, <2>3, <2>4
<1>7. FeatureSpent(f) = SumFunctionOnSet(total, J)
  BY DEF FeatureSpent
<1> HIDE DEF won, total, J
<1> QED BY <1>3, <1>4, <1>6, <1>7

\* Every line that is won is won for the feature of its run, and for no other.
LEMMA FeaturesAreDisjoint ==
  ASSUME TypeOK
  PROVE  /\ \A f, g : f # g => LinesOf(f) \cap LinesOf(g) = {}
         /\ UNION {LinesOf(f) : f \in Feature \cup {0}} = DOMAIN events \ Unattributed(Loaded)
<1>1. \A r \in Loaded : FeatureOf(r) \in Feature \cup {0}
  <2> TAKE r \in Loaded
  <2>1. trace[r] \in Trace
    BY DEF TypeOK, Loaded
  <2> QED BY <2>1 DEF FeatureOf, Trace
<1>2. ASSUME NEW f, NEW g, f # g PROVE LinesOf(f) \cap LinesOf(g) = {}
  BY <1>2, LinesArePartitioned DEF LinesOf, LoadRuns
<1>3. ASSUME NEW f, NEW i \in LinesOf(f)
      PROVE  i \in DOMAIN events \ Unattributed(Loaded)
  BY <1>3, LinesArePartitioned DEF LinesOf, LoadRuns, Won
<1>4. ASSUME NEW i \in DOMAIN events, i \notin Unattributed(Loaded)
      PROVE  \E f \in Feature \cup {0} : i \in LinesOf(f)
  <2>1. PICK r \in Loaded : i \in Won(r)
    BY <1>4, LinesArePartitioned
  <2> QED BY <1>1, <2>1 DEF LinesOf, LoadRuns
<1>5. UNION {LinesOf(f) : f \in Feature \cup {0}} = DOMAIN events \ Unattributed(Loaded)
  BY <1>3, <1>4
<1> QED BY <1>2, <1>5

\* The features are charged with every line but the remainder.
LEMMA ChargesAddUp == TypeOK => ReportConserves
<1> DEFINE I == Feature \cup {0}
           spent == [f \in I |-> FeatureSpent(f)]
           part == [f \in I |-> LinesOf(f)]
           held == [f \in I |-> SumFunctionOnSet(LineTokens, LinesOf(f))]
           rest == Unattributed(Loaded)
           all == DOMAIN events
           Sum(lines) == SumFunctionOnSet(LineTokens, lines)
           charged == SumFunction(spent) + Tokens(Remainder)
<1> SUFFICES ASSUME TypeOK, Loaded # {}, ~Raises
             PROVE  /\ charged >= Tokens(all)
                    /\ DistinctIds => charged = Tokens(all)
                    /\ \A r \in Loaded :
                         Tokens(ReportedEvents(r, LoadRuns(FeatureOf(r)))) = Total(r)
  BY DEF ReportConserves
<1>1. IsFiniteSet(I)
  BY TracesAssumption, FS_AddElement
<1>2. /\ \A f \in I : part[f] \in SUBSET all
      /\ \A f, g \in I : f # g => part[f] \cap part[g] = {}
      /\ \A f \in I : held[f] = SumFunctionOnSet(LineTokens, part[f])
  <2>1. \A f \in I : LinesOf(f) \in SUBSET all
    BY DEF LinesOf, Won
  <2>2. \A f, g \in I : f # g => part[f] \cap part[g] = {}
    BY FeaturesAreDisjoint
  <2> QED BY <2>1, <2>2
<1>3. UNION {part[f] : f \in I} = all \ rest
  <2>1. UNION {part[f] : f \in I} = UNION {LinesOf(f) : f \in I}
    OBVIOUS
  <2> QED BY <2>1, FeaturesAreDisjoint
<1>4. SumFunctionOnSet(held, I) = SumFunctionOnSet(LineTokens, UNION {part[f] : f \in I})
  <2> HIDE DEF I, part, held, all
  <2> QED BY <1>1, <1>2, LinesAdd, SumOfParts DEF all
<1>5. /\ Sum(all) = Sum(all \ rest) + Sum(rest)
      /\ Sum(all) \in Nat /\ Sum(all \ rest) \in Nat /\ Sum(rest) \in Nat
  <2>1. rest \in SUBSET all /\ all = (all \ rest) \cup rest
    BY DEF Unattributed
  <2> HIDE DEF rest
  <2>2. Sum((all \ rest) \cup rest) = Sum(all \ rest) + Sum(rest)
    BY <2>1, LinesAdd, SumUnion
  <2>3. Sum(all) \in Nat /\ Sum(all \ rest) \in Nat /\ Sum(rest) \in Nat
    BY <2>1, LinesAdd, SumTakeOut
  <2> QED BY <2>1, <2>2, <2>3
<1>6. \A f \in I : /\ spent[f] \in Nat /\ held[f] \in Nat /\ held[f] <= spent[f]
                   /\ DistinctIds => spent[f] <= held[f]
  BY FeatureSpentIsOfLines
<1>7. /\ SumFunctionOnSet(held, I) <= SumFunctionOnSet(spent, I)
      /\ SumFunctionOnSet(held, I) \in Nat /\ SumFunctionOnSet(spent, I) \in Nat
      /\ DistinctIds => SumFunctionOnSet(spent, I) <= SumFunctionOnSet(held, I)
  <2> HIDE DEF I, spent, held
  <2>1. ASSUME DistinctIds PROVE SumFunctionOnSet(spent, I) <= SumFunctionOnSet(held, I)
    BY <1>1, <1>6, <2>1, SumPointwise
  <2> QED BY <1>1, <1>6, <2>1, SumPointwise, SumTakeOut
<1>8. charged = SumFunctionOnSet(spent, I) + Sum(rest) /\ Tokens(all) = Sum(all)
  BY LinesAdd DEF SumFunction, Remainder
<1>9. \A r \in Loaded : Tokens(ReportedEvents(r, LoadRuns(FeatureOf(r)))) = Total(r)
  BY DEF LoadRuns, ReportedEvents, Total
<1>10. SumFunctionOnSet(held, I) = Sum(all \ rest)
  BY <1>3, <1>4
<1> HIDE DEF I, spent, held, charged, all, rest, Sum
<1>11. charged >= Tokens(all) /\ (DistinctIds => charged = Tokens(all))
  BY <1>5, <1>7, <1>8, <1>10
<1> QED BY <1>9, <1>11

\* run-report.py main and budget_report: for any number of runs, features and
\* lines, whatever is damaged and however the windows overlap, a report that is
\* made charges the features and the unattributed remainder with no less than the
\* events hold, and with exactly that when no two traces share a run_id.
THEOREM ReportAddsUp == Spec => []ReportConserves
BY TracesTypeCorrect, ChargesAddUp, PTL

\* A percentage that is rounded to more than a hundred is of more than the
\* ceiling: half to even never lifts the ceiling itself above it.
LEMMA OverIsAbove ==
  ASSUME NEW spent \in Nat, Percent(spent, Ceiling) > 100
  PROVE  spent > Ceiling
<1>1. Ceiling \in Nat /\ Ceiling > 0
  BY TracesAssumption
<1> DEFINE q == (100 * spent) \div Ceiling
           m == (100 * spent) % Ceiling
<1>2. q \in Int /\ m \in 0..(Ceiling - 1) /\ 100 * spent = q * Ceiling + m
  BY <1>1
<1>3. Percent(spent, Ceiling) \in {q, q + 1} /\ (m = 0 => Percent(spent, Ceiling) = q)
  BY <1>1, <1>2 DEF Percent
<1> HIDE DEF q, m
<1>4. CASE q > 100
  <2>1. q * Ceiling >= 101 * Ceiling
    BY <1>1, <1>2, <1>4
  <2> QED BY <1>1, <1>2, <2>1
<1>5. CASE q = 100 /\ m > 0
  BY <1>1, <1>2, <1>5
<1> QED BY <1>2, <1>3, <1>4, <1>5

\* The lines charged to a run, where everything is on disk as it was written, are
\* its own and those of no run at all within its window.
LEMMA AttributedAreItsOwn ==
  ASSUME OwnerInv, IdsInv, NEW r \in Loaded,
         \A i \in DOMAIN events : events[i].owner \in Loaded \cup {NoRun},
         \A q \in Run : defects[q] = {}
  PROVE  Attributed(r, Loaded) \subseteq
           {i \in DOMAIN events : events[i].owner \in {r, NoRun} /\ InWindow(events[i], r)}
<1> SUFFICES ASSUME NEW i \in Attributed(r, Loaded)
             PROVE  /\ i \in DOMAIN events /\ events[i].owner \in {r, NoRun}
                    /\ InWindow(events[i], r)
  OBVIOUS
<1>1. i \in DOMAIN events
  BY DEF Attributed
<1>2. PICK q \in Winner(events[i], Loaded) : q = r \/ IdOf(q) = IdOf(r)
  BY DEF Attributed
<1>3. q \in Loaded /\ InWindow(events[i], q)
  BY <1>2 DEF Winner, Single, Narrowed, Candidates
<1>4. q = r
  BY <1>2, <1>3 DEF IdsInv, Loaded
<1>5. events[i].owner \in Loaded => events[i].owner = r
  BY <1>1, OwnerWins DEF CountedForItsOwner, Loaded
<1> QED BY <1>1, <1>3, <1>4, <1>5

\* budget_report: a run that is called over its budget has spent more than the
\* ceiling, by its own agents and by those of no run within its window, for every
\* ceiling and every number of tokens.
THEOREM OverBudgetMeansSpent == Spec => []OverBudgetIsSpent
<1>1. OwnerInv /\ IdsInv => OverBudgetIsSpent
  <2> SUFFICES ASSUME OwnerInv, IdsInv,
                      \A i \in DOMAIN events : events[i].owner \in Loaded \cup {NoRun},
                      \A q \in Run : defects[q] = {},
                      NEW r \in Loaded, NEW priced \in BOOLEAN, RunState(r, priced) = "over"
               PROVE  /\ priced
                      /\ Tokens({i \in DOMAIN events : /\ events[i].owner \in {r, NoRun}
                                                       /\ InWindow(events[i], r)}) > Ceiling
    BY DEF OverBudgetIsSpent
  <2> DEFINE own == {i \in DOMAIN events : /\ events[i].owner \in {r, NoRun}
                                           /\ InWindow(events[i], r)}
             charged == ReportedEvents(r, Loaded)
  <2>1. priced /\ Percent(Total(r), Ceiling) > 100
    BY DEF RunState, State
  <2>2. TypeOK /\ charged \subseteq own /\ own \subseteq DOMAIN events
    BY AttributedAreItsOwn DEF OwnerInv, ReportedEvents
  <2>3. IsFiniteSet(own) /\ \A i \in own : LineTokens[i] \in Nat
    BY <2>2, LinesAdd, FS_Subset
  <2> HIDE DEF own, charged
  <2>4. SumFunctionOnSet(LineTokens, charged) <= SumFunctionOnSet(LineTokens, own)
    BY <2>2, <2>3, SumMonotone
  <2>5. /\ SumFunctionOnSet(LineTokens, charged) \in Nat
        /\ SumFunctionOnSet(LineTokens, own) \in Nat
    BY <2>2, <2>3, SumTakeOut
  <2>6. Total(r) <= Tokens(own) /\ Total(r) \in Nat /\ Tokens(own) \in Nat
    BY <2>2, <2>4, <2>5, LinesAdd DEF Total, charged
  <2>7. Total(r) > Ceiling
    BY <2>1, <2>6, OverIsAbove
  <2>8. Ceiling \in Nat
    BY TracesAssumption
  <2> QED BY <2>1, <2>6, <2>7, <2>8 DEF own
<1> QED BY <1>1, OwnerInvariant, IdsInvariant, PTL

----------------------------------------------------------------------------
(* The newest of the verdicts.                                             *)

\* The order of latest_verdicts is strict and total over the traces on disk:
\* where two runs finish in one second, no two files have one name.
LEMMA FinishedOrders ==
  ASSUME OwnerInv, NamesInv
  PROVE  /\ \A x, y \in Loaded : x # y => FinishedBefore(x, y) \/ FinishedBefore(y, x)
         /\ \A x, y, z \in Loaded : FinishedBefore(x, y) /\ FinishedBefore(y, z)
                                      => FinishedBefore(x, z)
<1>1. ASSUME NEW x \in Loaded
      PROVE  /\ trace[x].started \in Nat /\ EndOf(x) \in Int
             /\ trace[x].feature \in Nat
             /\ x \in Run /\ RecordOf(x) = trace[x] /\ trace[x] # NoTrace
  <2>1. x \in Run /\ trace[x] # NoTrace
    BY DEF Loaded
  <2>2. trace[x] \in Trace /\ open[x] = NoTrace
    BY <2>1 DEF OwnerInv, TypeOK, RunInv
  <2>3. Feature \cup {0} \subseteq Nat
    BY TracesAssumption
  <2>4. EndOf(x) \in Int
    BY <2>2, TracesAssumption DEF Trace, EndOf, FinishedOf
  <2> QED BY <2>1, <2>2, <2>3, <2>4 DEF Trace, RecordOf
<1>2. \A x, y \in Loaded : x # y =>
        <<trace[x].started, trace[x].feature>> # <<trace[y].started, trace[y].feature>>
  BY <1>1 DEF NamesInv
<1> QED BY <1>1, <1>2 DEF FinishedBefore, FileBefore

\* So the CHOOSE of Newest has something to choose.
LEMMA NewestIsOne ==
  ASSUME OwnerInv, NamesInv, NEW runs, runs \subseteq Loaded, runs # {}
  PROVE  Newest(runs) \in runs
<1> DEFINE R == {p \in Run \X Run : FinishedBefore(p[1], p[2])}
<1>1. IsFiniteSet(runs) /\ Loaded \subseteq Run
  BY TracesAssumption, FS_Subset DEF Loaded
<1>2. \A x, y \in runs : <<x, y>> \in R <=> FinishedBefore(x, y)
  BY <1>1
<1> HIDE DEF R
<1>3. /\ \A x, y \in runs : x # y => <<x, y>> \in R \/ <<y, x>> \in R
      /\ \A x, y, z \in runs : <<x, y>> \in R /\ <<y, z>> \in R => <<x, z>> \in R
  BY <1>2, FinishedOrders
<1>4. PICK r \in runs : \A q \in runs \ {r} : <<q, r>> \in R
  BY <1>1, <1>3, LastElement
<1>5. \A q \in runs \ {r} : FinishedBefore(q, r)
  BY <1>2, <1>4
<1> QED BY <1>5 DEF Newest

\* latest_verdicts against rework: a FAIL that holds the gate is counted among
\* the rounds of the feature, whichever run it comes from.
THEOREM FailsAreRework == Spec => []FailInForceIsRework
<1>1. OwnerInv /\ NamesInv => FailInForceIsRework
  <2> SUFFICES ASSUME OwnerInv, NamesInv, NEW f \in Feature, NEW field \in {"qe", "security"},
                      LatestVerdict(f, field) = "FAIL"
               PROVE  Rework(f) # {}
    BY DEF FailInForceIsRework
  <2> DEFINE runs == Judged(f, field)
             r == Newest(runs)
  <2>1. runs # {} /\ VerdictsOf(r)[field] = "FAIL"
    BY DEF LatestVerdict
  <2>2. runs \subseteq Loaded
    BY DEF Judged, LoadRuns
  <2> HIDE DEF r, runs
  <2>3. r \in runs
    BY <2>1, <2>2, NewestIsOne DEF r
  <2>4. r \in LoadRuns(f)
    BY <2>3 DEF Judged, runs
  <2> QED BY <2>1, <2>4 DEF Rework, Failed
<1> QED BY <1>1, OwnerInvariant, NamesInvariant, PTL
=============================================================================
