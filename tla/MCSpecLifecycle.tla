------------------------- MODULE MCSpecLifecycle -------------------------
(***************************************************************************)
(* Instances of SpecLifecycle for TLC.  StartedSpec begins with features   *)
(* that exist, so that the bound on the clock is spent on what happens to  *)
(* them: spec and a list of one task were committed together at stamp 1.   *)
(***************************************************************************)
EXTENDS SpecLifecycle

CONSTANTS
  Started,     \* the features that exist at the start
  StartStatus, StartRigor,   \* what their frontmatter may say
  StartChecked   \* how many of the one task of their lists are ticked

At1(content) == [now |-> content, head |-> content, mtime |-> 1, commit |-> 1]

StartSpec(f, status, rigor) ==
  IF f \in Started
  THEN At1([body |-> 1, status |-> status, rigor |-> rigor]) ELSE NoFile

StartTasks(f, checked) ==
  IF f \in Started \ Spike
  THEN At1([body |-> [synced |-> Day(1), total |-> 1, checked |-> checked]])
  ELSE NoFile

StartedInit ==
  /\ \E status \in StartStatus, rigor \in StartRigor :
       spec = [f \in Feature |-> StartSpec(f, status, rigor)]
  /\ plan = [f \in Feature |-> NoFile]
  /\ \E checked \in StartChecked :
       tasks = [f \in Feature |-> StartTasks(f, checked)]
  /\ report = [f \in Feature |-> NoFile]
  /\ code = [c \in Code |-> At1([body |-> 1])]
  /\ verdict = [f \in Feature |-> [qe |-> "absent", security |-> "absent"]]
  /\ badTrace = FALSE
  /\ clock = 1
  /\ hook = [f \in Feature |-> "idle"]
  /\ closing = {}
  /\ attested = {}

StartedSpec == StartedInit /\ [][Next]_vars
=============================================================================
