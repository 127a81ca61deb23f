---------------------------- MODULE MCVerdictPort ----------------------------
(* Instances of VerdictPort for TLC: two workers with the receives per       *)
(* worker and the backoff of the program.                                    *)
EXTENDS VerdictPort

CONSTANTS w1, w2
MCWorkers == {w1, w2}
=============================================================================
