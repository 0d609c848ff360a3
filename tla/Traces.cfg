\* Three runs over two features; two seconds that pass or agents that stop; all
\* kinds of damage, one trace at a time and any number without a run_id.
SPECIFICATION Spec
CONSTANTS
  r1 = r1
  r2 = r2
  r3 = r3
  backend = backend
  qe = qe
  Run = {r1, r2, r3}
  Agent = {backend, qe}
  Feature = {1, 2}
  Outcome <- Outcomes
  Spoilable = {"file", "agents", "feature", "id", "finish", "later", "number", "name"}
  Ceiling = 2
  TokenCounts = {2}
  Invocation <- Invocations
  MaxWork = 2
  MaxDefects = 1
  NoAgent = NoAgent
  NoTrace = NoTrace
  NoRun = NoRun
SYMMETRY Symmetric
CHECK_DEADLOCK FALSE
INVARIANTS
  TypeOK
  CountedForItsOwner
  ReportConserves
  FailInForceIsRework
  OverBudgetIsSpent
PROPERTIES
  ArrivalNeverInflates
  DamageCostsItself
  LastVerdictIsInForce
  PairingSurvivesArrivals
