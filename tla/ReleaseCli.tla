----------------------------- MODULE ReleaseCli -----------------------------
(***************************************************************************)
(* scripts/release-cli.sh: a release of the CLI is a commit that carries a *)
(* tag and a second commit that gives the Formula the digest of the tagged *)
(* tarball, which exists on the remote only.  The script may fail or be    *)
(* killed at every step and is then run again; in between the maintainer   *)
(* works, pulls and pushes, and other people move main.                    *)
(*                                                                         *)
(* The three release files are a record: the constant of the CLI (with     *)
(* CLAUDE.md, written with it), the version in the Formula's url and its   *)
(* sha, which is the number of the tagged commit or Placeholder.           *)
(***************************************************************************)
EXTENDS Naturals, Sequences

CONSTANTS MaxVersion,  \* versions are 1 .. MaxVersion, in their order
          MaxFaults,   \* failures and kills
          MaxChanges   \* commits of other work, here or on the remote

ASSUME ReleaseAssumption ==
  MaxVersion \in Nat \ {0} /\ MaxFaults \in Nat /\ MaxChanges \in Nat

Version == 1 .. MaxVersion
NoTag == 0
Placeholder == 0
Files == [cli : Version, url : Version, sha : Nat]

VARIABLES objects,   \* the release files of every commit, in the order of creation
          disk, index, head,  \* the clone: working tree, staging area, main
          upstream,  \* the remote's main that head builds on
          tags,      \* the cli-v tags of the clone
          main, rtags,        \* the remote
          run,       \* the script: its step, version, mode and the sha it fetched
          faults, changes

vars == <<objects, disk, index, head, upstream, tags, main, rtags, run, faults, changes>>
clone == <<disk, index, head, upstream, tags>>
remote == <<main, rtags>>
bounds == <<faults, changes>>

BumpSteps == {"cli", "url", "prove", "add", "commit", "tag"}
FormulaSteps == {"rewrite", "stage", "gate2", "formula"}
Steps == {"idle", "gate", "push", "fetch", "publish", "smoke"} \cup BumpSteps \cup FormulaSteps

TypeOK ==
  /\ objects \in Seq(Files) /\ disk \in Files /\ index \in Files
  /\ {head, upstream, main} \subseteq 1 .. Len(objects)
  /\ {tags, rtags} \subseteq [Version -> 0 .. Len(objects)]
  /\ run \in [at : Steps, next : Version, only : BOOLEAN, sha : 0 .. Len(objects)]
  /\ faults \in 0 .. MaxFaults /\ changes \in 0 .. MaxChanges

Tree(c) == objects[c]
Clean == disk = Tree(head) /\ index = Tree(head)
Idle == run.at = "idle"
Goto(step) == run' = [run EXCEPT !.at = step]

\* A commit of files f on top of head; its number is the next one.
Commit(f) == objects' = Append(objects, f) /\ head' = Len(objects) + 1

-----------------------------------------------------------------------------
\* Mutant: the placeholder is always a warning.
ShaPresent ==
  disk.sha # Placeholder => rtags[disk.url] \in {NoTag, disk.sha}

\* check-docs.py, the placeholder: harmless until its tag is pushed, and on the tagged commit.
ShaAgrees ==
  IF disk.sha = Placeholder THEN rtags[disk.cli] \in {NoTag, head}
                            ELSE rtags[disk.url] \in {NoTag, disk.sha}

\* The newest tag of the clone names the constant.
TagsAgree ==
  tags[disk.cli] # NoTag /\ \A w \in Version : w > disk.cli => tags[w] = NoTag

\* Mutant: the url is not compared with the constant.
GateWithoutUrl ==
  /\ TagsAgree /\ ShaAgrees

\* check-all.sh on the working tree, as far as the release files decide it.
GateGreen ==
  /\ disk.url = disk.cli
  /\ TagsAgree /\ ShaAgrees

\* The same with WELLFORGE_RELEASING: the constant may be ahead of the newest tag.
Provable ==
  /\ disk.url = disk.cli
  /\ \A w \in Version : tags[w] # NoTag => w < run.next
  /\ ShaAgrees

\* What each step asks of the repository; the rest succeeds but for a fault.
Passes ==
  CASE run.at \in {"gate", "gate2"} -> GateGreen
    [] run.at = "prove" -> Provable
    [] run.at = "commit" -> index # Tree(head)
    [] run.at = "push" -> upstream = main /\ rtags[run.next] \in {NoTag, tags[run.next]}
    [] run.at = "fetch" -> rtags[run.next] # NoTag
    [] run.at = "publish" -> upstream = main
    [] OTHER -> TRUE

At(step) == run.at = step /\ Passes

\* The plan, the preflight and the confirmation.
Preflight(v, only) ==
  /\ Clean
  /\ IF only THEN tags[v] # NoTag
             ELSE tags[v] = NoTag /\ \A w \in Version : tags[w] # head

\* Mutant: the increment is applied to a version that is spelled out.
BeginBumped(v, only) ==
  /\ Idle /\ Preflight(v, only)
  /\ run' = [at |-> IF only THEN "fetch" ELSE "gate", next |-> v + 1, only |-> only, sha |-> Placeholder]
  /\ UNCHANGED <<objects, clone, remote, bounds>>

Begin(v, only) ==
  /\ Idle /\ Preflight(v, only)
  /\ run' = [at |-> IF only THEN "fetch" ELSE "gate", next |-> v, only |-> only, sha |-> Placeholder]
  /\ UNCHANGED <<objects, clone, remote, bounds>>

Gate ==
  /\ At("gate") /\ Goto("cli")
  /\ UNCHANGED <<objects, clone, remote, bounds>>

\* Step 2, in two writes: a kill may come between them.
BumpCli ==
  /\ At("cli") /\ Goto("url")
  /\ disk' = [disk EXCEPT !.cli = run.next]
  /\ UNCHANGED <<objects, index, head, upstream, tags, remote, bounds>>

\* Mutant: the sha of the previous version stays.
BumpUrlOnly ==
  /\ At("url") /\ Goto("prove")
  /\ disk' = [disk EXCEPT !.url = run.next]
  /\ UNCHANGED <<objects, index, head, upstream, tags, remote, bounds>>

BumpUrl ==
  /\ At("url") /\ Goto("prove")
  /\ disk' = [disk EXCEPT !.url = run.next, !.sha = Placeholder]
  /\ UNCHANGED <<objects, index, head, upstream, tags, remote, bounds>>

Prove ==
  /\ At("prove") /\ Goto("add")
  /\ UNCHANGED <<objects, clone, remote, bounds>>

Add ==
  /\ At("add") /\ Goto("commit")
  /\ index' = disk
  /\ UNCHANGED <<objects, disk, head, upstream, tags, remote, bounds>>

CommitRelease ==
  /\ At("commit") /\ Goto("tag")
  /\ Commit(index)
  /\ UNCHANGED <<disk, index, upstream, tags, remote, bounds>>

Tag ==
  /\ At("tag") /\ Goto("push")
  /\ tags' = [tags EXCEPT ![run.next] = head]
  /\ UNCHANGED <<objects, disk, index, head, upstream, remote, bounds>>

PublishMain == main' = head /\ upstream' = head

Push ==
  /\ At("push") /\ Goto("fetch")
  /\ PublishMain
  /\ rtags' = [rtags EXCEPT ![run.next] = tags[run.next]]
  /\ UNCHANGED <<objects, disk, index, head, tags, bounds>>

\* One push of two refs is not atomic: each lands that may, and the script dies.
PushRejected ==
  /\ run.at = "push" /\ ~Passes /\ Goto("idle")
  /\ rtags' = [rtags EXCEPT ![run.next] = IF @ = NoTag THEN tags[run.next] ELSE @]
  /\ IF upstream = main THEN PublishMain ELSE UNCHANGED <<main, upstream>>
  /\ UNCHANGED <<objects, disk, index, head, tags, bounds>>

Fetch ==
  /\ At("fetch")
  /\ run' = [run EXCEPT !.at = "rewrite", !.sha = rtags[run.next]]
  /\ UNCHANGED <<objects, clone, remote, bounds>>

Rewrite ==
  /\ At("rewrite") /\ Goto("stage")
  /\ disk' = [disk EXCEPT !.url = run.next, !.sha = run.sha]
  /\ UNCHANGED <<objects, index, head, upstream, tags, remote, bounds>>

\* The Formula of one tree in another.
WithFormula(f, g) == [f EXCEPT !.url = g.url, !.sha = g.sha]

\* Mutant: the rewritten Formula is not staged.
StageForgotten ==
  /\ At("stage") /\ Goto("gate2")
  /\ UNCHANGED <<objects, clone, remote, bounds>>

Stage ==
  /\ At("stage") /\ Goto("gate2")
  /\ index' = WithFormula(index, disk)
  /\ UNCHANGED <<objects, disk, head, upstream, tags, remote, bounds>>

\* With nothing staged there is nothing to commit, and the script goes on to step 7.
GateFormula ==
  /\ At("gate2") /\ Goto(IF index = Tree(head) THEN "smoke" ELSE "formula")
  /\ UNCHANGED <<objects, clone, remote, bounds>>

CommitFormula ==
  /\ At("formula") /\ Goto("publish")
  /\ Commit(index)
  /\ UNCHANGED <<disk, index, upstream, tags, remote, bounds>>

Publish ==
  /\ At("publish") /\ Goto("smoke")
  /\ PublishMain
  /\ UNCHANGED <<objects, disk, index, head, tags, rtags, bounds>>

\* The package is smoked and the release is announced.
Finish ==
  /\ At("smoke") /\ Goto("idle")
  /\ UNCHANGED <<objects, clone, remote, bounds>>

\* die: an unfinished bump is checked out from the index, an unfinished Formula from HEAD.
Reverted ==
  CASE run.at \in BumpSteps -> disk' = index /\ index' = index
    [] run.at \in FormulaSteps ->
         /\ disk' = WithFormula(disk, Tree(head)) /\ index' = WithFormula(index, Tree(head))
    [] OTHER -> UNCHANGED <<disk, index>>

\* A step whose check fails, or a fault of the network, a tool or a hook.
Die ==
  /\ run.at \notin {"idle", "smoke"}
  /\ IF Passes \/ run.at = "push" THEN faults < MaxFaults /\ faults' = faults + 1
                                 ELSE UNCHANGED faults
  /\ Reverted /\ Goto("idle")
  /\ UNCHANGED <<objects, head, upstream, tags, remote, changes>>

\* The script ends without die: everything stays where it is.
Kill ==
  /\ ~Idle /\ faults < MaxFaults
  /\ Goto("idle") /\ faults' = faults + 1
  /\ UNCHANGED <<objects, clone, remote, changes>>

Script ==
  \/ Gate \/ BumpCli \/ BumpUrl \/ Prove \/ Add \/ CommitRelease \/ Tag \/ Push \/ PushRejected
  \/ Fetch \/ Rewrite \/ Stage \/ GateFormula \/ CommitFormula \/ Publish \/ Finish \/ Die

-----------------------------------------------------------------------------
\* The maintainer, between two runs.
Stash ==
  /\ Idle /\ ~Clean
  /\ disk' = Tree(head) /\ index' = Tree(head)
  /\ UNCHANGED <<objects, head, upstream, tags, remote, run, bounds>>

\* git pull rebases (setup-git-policy.sh): what main lacks becomes a new commit on top of it.
Pull ==
  /\ Idle /\ Clean /\ upstream # main
  /\ IF head = upstream THEN head' = main /\ UNCHANGED objects ELSE Commit(Tree(head))
  /\ upstream' = main /\ disk' = objects'[head'] /\ index' = objects'[head']
  /\ UNCHANGED <<tags, remote, run, bounds>>

\* git push of main, with the tag of its version when the remote lacks it; the pre-push
\* hook runs the gate for a tag only.
PushByHand ==
  LET v == Tree(head).cli
  IN /\ Idle /\ Clean /\ upstream = main /\ head # main
     /\ rtags[v] = NoTag => tags[v] # NoTag /\ GateGreen
     /\ PublishMain
     /\ rtags' = [rtags EXCEPT ![v] = IF @ = NoTag THEN tags[v] ELSE @]
     /\ UNCHANGED <<objects, disk, index, head, tags, run, bounds>>

\* The tag the script could not set, as step 4 of docs/RELEASING-CLI.md spells it.
TagByHand ==
  LET v == Tree(head).cli
  IN /\ Idle /\ Clean
     /\ tags[v] = NoTag /\ rtags[v] = NoTag
     /\ tags' = [tags EXCEPT ![v] = head]
     /\ UNCHANGED <<objects, disk, index, head, upstream, remote, run, bounds>>

\* git tag -d and a reset, while nothing of the release has left the clone.
Undo ==
  /\ Idle /\ Clean /\ head # upstream /\ rtags[Tree(head).cli] = NoTag
  /\ \A v \in Version : rtags[v] # NoTag => v <= Tree(upstream).cli
  /\ tags' = rtags /\ head' = upstream
  /\ disk' = Tree(upstream) /\ index' = Tree(upstream)
  /\ UNCHANGED <<objects, upstream, remote, run, bounds>>

\* Other work: a commit here, or on the remote, that leaves the release files alone.
Work ==
  /\ Idle /\ Clean /\ changes < MaxChanges
  /\ Commit(Tree(head)) /\ changes' = changes + 1
  /\ UNCHANGED <<disk, index, upstream, tags, remote, run, faults>>

Others ==
  /\ changes < MaxChanges /\ changes' = changes + 1
  /\ objects' = Append(objects, Tree(main)) /\ main' = Len(objects) + 1
  /\ UNCHANGED <<clone, rtags, run, faults>>

\* Version 1 is released: its tag, then its Formula.
Init ==
  /\ objects = <<[cli |-> 1, url |-> 1, sha |-> Placeholder], [cli |-> 1, url |-> 1, sha |-> 1]>>
  /\ disk = objects[2] /\ index = objects[2] /\ head = 2 /\ upstream = 2 /\ main = 2
  /\ tags = [v \in Version |-> IF v = 1 THEN 1 ELSE NoTag] /\ rtags = tags
  /\ run = [at |-> "idle", next |-> 1, only |-> FALSE, sha |-> Placeholder]
  /\ faults = 0 /\ changes = 0

Next ==
  \/ \E v \in Version, only \in BOOLEAN : Begin(v, only)
  \/ Script \/ Kill
  \/ Stash \/ Pull \/ PushByHand \/ TagByHand \/ Undo \/ Work \/ Others

Spec == Init /\ [][Next]_vars

\* The command check-docs.py names when the Formula of the constant's version is unfinished.
Retry == Begin(Tree(head).cli, TRUE)

\* The script runs on, and the maintainer does not give up on a release.
Diligence ==
  /\ WF_vars(Script)
  /\ SF_vars(Stash) /\ SF_vars(Pull) /\ SF_vars(PushByHand) /\ SF_vars(TagByHand)
  /\ SF_vars(Retry)

FairSpec == Spec /\ Diligence

-----------------------------------------------------------------------------
\* The Formula people install from.
Published == Tree(main)

\* The Formula on the remote either refuses loudly, with the placeholder, or names a tag
\* that is on the remote, whose tarball has its sha and holds the CLI of that version,
\* whatever failed and whoever pushed (check-docs.py:234-370, release-cli.sh steps 2 to 6).
InstallIsSound ==
  /\ Published.cli = Published.url
  /\ Published.sha # Placeholder =>
       /\ rtags[Published.url] = Published.sha
       /\ Tree(Published.sha).cli = Published.url

\* What people install never goes back to an older version, also when --formula-only is
\* given an old tag or a release an old number (release-cli.sh:272, check-docs.py:371-397);
\* ChannelKept has it too.
VersionNeverFalls == [][Published'.url >= Published.url]_vars

\* No release commit is made on top of a version whose tag is pushed and whose Formula was
\* never finished (check-docs.py:310, release-cli.sh:227).
NothingOverUnfinished ==
  [][run.at = "commit" /\ head' # head =>
       (rtags[Tree(head).cli] # NoTag => Tree(head).sha # Placeholder)]_vars

\* Whatever failed, the remote comes back to a state in which every pushed tag is finished:
\* its Formula is of the newest of them and has its sha, so --formula-only is a recovery
\* that works (release-cli.sh:376).
PushedTagsAreFinished ==
  []<>(\A v \in Version :
         rtags[v] # NoTag => Published.url >= v /\ Published.sha # Placeholder)

Channel ==
  INSTANCE CliChannel WITH formula <- [version |-> Published.url, digest |-> Published.sha],
                           tarball <- rtags

\* For those who install, the remote is the channel of CliChannel: the Formula never names
\* a version without a pushed tag, no tag is moved, and a digest that was published is not
\* withdrawn, although a push of two refs may land in part and a rebase, a reset or a retry
\* may come between any two steps (release-cli.sh:325, 382, check-docs.py:262-312).  That a
\* bump pushed by hand goes with its tag is the maintainer's part of it.
ChannelKept == Channel!ChannelSpec

\* When the script says that a tag is released, the remote's Formula names it with its sha
\* (release-cli.sh:424).
ReleasedIsPublished ==
  run.at = "smoke" => Published.url = run.next /\ Published.sha = rtags[run.next]
=============================================================================
