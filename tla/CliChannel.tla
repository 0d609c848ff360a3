----------------------------- MODULE CliChannel -----------------------------
(***************************************************************************)
(* What the remote promises to those who install the CLI from it, whoever  *)
(* pushes and whatever fails: a tag that was pushed keeps its tarball, and *)
(* the Formula names a version whose tag is there, goes to newer versions  *)
(* only, and once it has the digest of a tarball keeps it until it goes to *)
(* a newer version.  ReleaseCli implements it.                             *)
(***************************************************************************)
EXTENDS Naturals

CONSTANTS
  Version,
  NoTag   \* no tarball, or no digest of one: the placeholder

VARIABLES
  formula,   \* the Formula on the remote's main: a version and a digest
  tarball    \* tarball[v]: what the tag of v is on, by its digest, or NoTag

channelVars == <<formula, tarball>>

Formula == [version : Version, digest : Nat]

\* The version has a tarball, and a digest is that of the tarball.
Installable(f, t) == t[f.version] # NoTag /\ f.digest \in {NoTag, t[f.version]}

\* A Formula follows another.
Follows(new, old) ==
  \/ new.version > old.version
  \/ new.version = old.version /\ old.digest \in {NoTag, new.digest}

ChannelInit ==
  /\ formula \in Formula /\ tarball \in [Version -> Nat]
  /\ Installable(formula, tarball)

\* One push, of tags, of a Formula or of both.
Receive ==
  /\ formula' \in Formula /\ tarball' \in [Version -> Nat]
  /\ \A v \in Version : tarball[v] \in {NoTag, tarball'[v]}
  /\ Follows(formula', formula)
  /\ Installable(formula', tarball')

ChannelSpec == ChannelInit /\ [][Receive]_channelVars
=============================================================================
