----------------------------- MODULE MCAdapters -----------------------------
(***************************************************************************)
(* The instance of Adapters for TLC: command 1 calls a script, command 2   *)
(* sorts after it and calls none.                                          *)
(***************************************************************************)
EXTENDS Adapters

CONSTANTS s1

OneCaller == [c \in Command |-> IF c = 1 THEN {s1} ELSE {}]
=============================================================================
