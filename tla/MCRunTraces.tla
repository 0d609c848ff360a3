---------------------------- MODULE MCRunTraces ----------------------------
(* Small instances of RunTraces. *)
EXTENDS RunTraces, TLC

CONSTANTS r1, r2, r3, backend, qe

Outcomes == {[qe |-> "PASS", security |-> "PASS"], [qe |-> "absent", security |-> "FAIL"]}

Invocations == {<<1, FALSE>>, <<1, TRUE>>, <<2, FALSE>>}

Symmetric == Permutations({r1, r2, r3}) \cup Permutations({backend, qe})
=============================================================================
