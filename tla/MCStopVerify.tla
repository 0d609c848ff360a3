--------------------------- MODULE MCStopVerify ---------------------------
(***************************************************************************)
(* An instance of StopVerify for TLC: the features are in progress at mvp, *)
(* their one task is ticked and has passed QE, and everything was pushed.  *)
(***************************************************************************)
EXTENDS StopVerify

At1(content) == [now |-> content, head |-> content, mtime |-> 1, commit |-> 1]

InProgress == [body |-> 1, status |-> "in-progress", rigor |-> "mvp"]

MCInit ==
  /\ spec = [f \in Feature |-> At1(InProgress)]
  /\ plan = [f \in Feature |-> NoFile]
  /\ tasks = [f \in Feature |->
                At1([body |-> [synced |-> Day(1), total |-> 1, checked |-> 1]])]
  /\ report = [f \in Feature |-> NoFile]
  /\ code = [c \in Code |-> NoFile]
  /\ verdict = [f \in Feature |-> [qe |-> "PASS", security |-> "absent"]]
  /\ badTrace = FALSE
  /\ clock = 1
  /\ hook = [f \in Feature |-> "idle"]
  /\ closing = {}
  /\ attested = {}
  /\ StopInit

MCSpec == MCInit /\ [][StopNext]_allVars /\ StopFairness
=============================================================================
