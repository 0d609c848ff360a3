---------------------------- MODULE GitFiles ----------------------------
(***************************************************************************)
(* A file of the project as wellforge-plugin/scripts/forge-state.py sees   *)
(* it: what is on disk, what HEAD holds, and the two clocks that can date  *)
(* its last change.  A content is a record whose field `body' is what the  *)
(* file asks for; spec.md adds the lifecycle fields (status, rigor) that   *)
(* say where the feature is.  Every write and every commit has a stamp of  *)
(* its own, so commit stamps give both the order of the commits and their  *)
(* dates.                                                                  *)
(***************************************************************************)
EXTENDS Integers

CONSTANT Absent   \* the content of a file that does not exist

\* now: working tree; head: HEAD; mtime: stamp of the last write to disk;
\* commit: stamp of the last commit that changed the file, 0 when there is none.
GitFile(Content) ==
  [now: Content \cup {Absent}, head: Content \cup {Absent}, mtime: Nat, commit: Nat]

NoFile == [now |-> Absent, head |-> Absent, mtime |-> 0, commit |-> 0]

Exists(file) == file.now # Absent
Tracked(file) == file.head # Absent

\* `git status --porcelain' lists the path.
IsDirty(file) == file.now # file.head

\* Mutant: every edit of a committed file changes what it asks for.
ChangeClassNoLifecycle(file) ==
  IF ~IsDirty(file) THEN "clean"
  ELSE IF ~Tracked(file) THEN "untracked" ELSE "content"

ChangeClass(file) ==
  IF ~IsDirty(file) THEN "clean"
  ELSE IF ~Tracked(file) THEN "untracked"
  ELSE IF ~Exists(file) THEN "content"
  ELSE IF file.now.body # file.head.body THEN "content"
  ELSE "lifecycle"

\* The changes for which mtime is the better clock.
Moved(file) == ChangeClass(file) \in {"content", "untracked"}

\* Mutant: the date of the file on disk, which a checkout renews.
LastWritten(file) == file.mtime

\* The stamp of the last change: a lifecycle edit keeps the commit's.
LastChange(file) == IF Moved(file) THEN file.mtime ELSE file.commit

\* Mutant: the index of the commit order read the wrong way round.
NewerReversed(a, b) ==
  IF Moved(a) \/ Moved(b) THEN a.mtime > b.mtime ELSE a.commit < b.commit

\* Is a's last change strictly newer than b's?  One changed file in the
\* working tree puts BOTH on the mtime clock; two files of one commit tie.
Newer(a, b) ==
  IF Moved(a) \/ Moved(b) THEN a.mtime > b.mtime ELSE a.commit > b.commit

----------------------------------------------------------------------------
(* What a writer and git do to a file.                                     *)

Written(file, content, t) == [file EXCEPT !.now = content, !.mtime = t]

\* A commit dates only the files it changes.
Committed(file, t) ==
  IF IsDirty(file) THEN [file EXCEPT !.head = file.now, !.commit = t] ELSE file

\* `git checkout -- path' and a fresh clone: HEAD's content, written just now.
CheckedOut(file, t) == [file EXCEPT !.now = file.head, !.mtime = t]
=============================================================================
