---------------------------- MODULE MCProcessCache ----------------------------
(* An instance of ProcessCache for TLC: two workers and the thread of the      *)
(* events; a process that runs, a child of it, whose id is used twice, and the  *)
(* child's child; a cache that holds two of the three.                          *)
EXTENDS ProcessCache, TLC

CONSTANTS t1, t2, obs, root, p, q

MCWorkers == {t1, t2}
MCPids == {root, p, q}
MCCreations == {<<p, root>>, <<q, p>>}
MCReports == [id \in MCPids |-> IF id = p THEN {{"childName", "childCmd"}}
                                ELSE {{"childCmd"}}]
MCObserved == {{"childName"}}
MCReported == {p}
MCMaxGen == [id \in MCPids |-> IF id = p THEN 2 ELSE 1]
Symmetry == Permutations(MCWorkers)
===============================================================================
