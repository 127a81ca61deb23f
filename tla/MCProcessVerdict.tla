-------------------------- MODULE MCProcessVerdict --------------------------
(* Instances of ProcessVerdict for TLC: two configurations that match the   *)
(* same program by different fields, so that they disagree about the        *)
(* processes of two messages, and three processes for two workers.          *)
EXTENDS ProcessVerdict, TLC

CONSTANTS r1, r2, r3, tool, cBlock, cAllow

NoGroup == [f \in Fields |-> Disabled]
ByChild == [NoGroup EXCEPT !.childName = {tool}]
ByParent == [NoGroup EXCEPT !.parentName = {tool, Unknown}]
ByCommand == [NoGroup EXCEPT !.childName = {tool}, !.parentCmdLine = {tool}]

MCRequests == {r1, r2, r3}
MCConfigs == {cBlock, cAllow}
MCInputs == {Empty, Unknown, tool}
MCMessages ==
  [r \in MCRequests |->
     IF r # r2 THEN [parentName |-> Empty, childName |-> tool,
                     cmdLine |-> tool, parentCmdLine |-> Empty]
               ELSE [parentName |-> tool, childName |-> Empty,
                     cmdLine |-> Empty, parentCmdLine |-> tool]]
MCAllowList ==
  [c \in MCConfigs |-> IF c = cAllow THEN <<ByCommand>> ELSE <<>>]
MCBlockList ==
  [c \in MCConfigs |-> IF c = cBlock THEN <<ByParent, ByChild>> ELSE <<ByChild>>]
SameMessage == Permutations({r1, r3})
=============================================================================
