----------------------------- MODULE MCRuleSync -----------------------------
(* Instances of RuleSync for TLC: the empty configuration and two others    *)
(* that share rule r1, so that a stale, a partial and a mixed list can all  *)
(* be told from a complete one, and one whose metadata the driver refuses   *)
(* after its rules have been replaced, on four kinds of computer:           *)
(*   "failing"    the driver replaces lists in a batch, may fail and stop;  *)
(*   "legacy"     the driver replaces no list in a batch and may fail;      *)
(*   "midway"     it replaces one of the two lists, and may stop;           *)
(*   "steady"     it replaces both and never fails or stops.                *)
EXTENDS RuleSync, TLC

CONSTANTS c0, c1, c2, long, r1, r2

MCConfigs == {c0, c1, c2, long}
MCRules == {r1, r2}
MCBlockRules == (c0 :> <<>>) @@ (c1 :> <<r1>>) @@ (c2 :> <<r1, r2>>) @@ (long :> <<r2>>)
MCAllowRules == (c0 :> <<>>) @@ (c1 :> <<r2>>) @@ (c2 :> <<r1>>) @@ (long :> <<r2>>)
MCOversized == {long}

AllHosts == {"failing", "legacy", "midway", "steady"}
Failing == {"failing"}
Steady == {"steady"}
MCBatchSupport ==
  [h \in Hosts |-> CASE h = "legacy" -> {}
                    [] h = "midway" -> {"block"}
                    [] OTHER -> {"block", "allow"}]
MCIoctlMayFail == [h \in Hosts |-> h \in {"failing", "legacy"}]
MCDriverMayStop == [h \in Hosts |-> h \in {"failing", "midway"}]
MCPortMayDrop == [h \in Hosts |-> h # "legacy"]
MCMaxWrites == [h \in Hosts |-> IF h \in {"legacy", "steady"} THEN 3 ELSE 2]
=============================================================================
