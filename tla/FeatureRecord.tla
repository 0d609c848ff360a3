-------------------------- MODULE FeatureRecord --------------------------
(***************************************************************************)
(* What the lifecycle promises about the committed record of a feature,    *)
(* whoever writes it and however: the tier is only raised, a closed        *)
(* feature is not reopened, and `done' is reached either by a record that  *)
(* is born closed or with the gate seen to pass.  SpecLifecycle implements *)
(* it when refused edits are put back.                                     *)
(***************************************************************************)
EXTENDS Integers

CONSTANTS
  Feature,
  Status, Rigor,   \* the values of the two lifecycle fields
  Rank(_),         \* the order of the tiers
  NoRecord         \* a feature with no committed spec

VARIABLES
  record,    \* record[f]: the committed status and rigor, or NoRecord
  attested   \* the features whose pending close the gate has let through

recordVars == <<record, attested>>

Record == [status: Status, rigor: Rigor]

\* A record may go from old to new in one commit.
Lawful(old, new, isAttested) ==
  \/ old = new
  \/ old = NoRecord
  \/ /\ old # NoRecord /\ new # NoRecord
     /\ Rank(new.rigor) >= Rank(old.rigor)
     /\ old.status \in {"archived", "superseded"} => new.status = old.status
     /\ old.status = "done" => new.status \in {"done", "archived", "superseded"}
     /\ new.status = "done" /\ old.status # "done" => isAttested

\* The promise is about changes: a project may start with any records.
RecordInit == record \in [Feature -> Record \cup {NoRecord}] /\ attested = {}

\* The gate's opinion of the pending closes changes.
Attest == attested' \in SUBSET Feature /\ UNCHANGED record

\* One commit, of any number of features.
Publish ==
  /\ record' \in [Feature -> Record \cup {NoRecord}]
  /\ \A f \in Feature : Lawful(record[f], record'[f], f \in attested)
  /\ UNCHANGED attested

RecordNext == Attest \/ Publish

RecordSpec == RecordInit /\ [][RecordNext]_recordVars
=============================================================================
