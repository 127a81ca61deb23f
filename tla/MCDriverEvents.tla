---------------------------- MODULE MCDriverEvents ----------------------------
(* An instance of DriverEvents for TLC: three processes and a history of one   *)
(* entry, so that it overflows; a configuration with a cooldown that the       *)
(* history remembers, one without a cooldown, and one with the response        *)
(* turned off.                                                                 *)
EXTENDS DriverEvents

CONSTANTS p1, p2, p3, self, free, long, off

MCPids == {p1, p2, p3}
MCExemptPids == {self}
MCEvents ==
  LET Event(p, t, s) == [pid |-> p, type |-> t, severity |-> s]
  IN  {Event(p1, "blockedRegistry", 0), Event(p2, "blockedRegistry", 2),
       Event(p3, "blockedRegistry", 2), Event(self, "blockedRegistry", 2),
       Event(p1, "other", 2)}
MCConfigs == {free, long, off}
MCTerminateOn == [c \in MCConfigs |-> c # off]
MCMinSeverity == [c \in MCConfigs |-> 2]
MCCooldownMs == [c \in MCConfigs |-> IF c = long THEN 2 ELSE 0]
MCRuleSeverity == [c \in MCConfigs |-> IF c = long THEN 2 ELSE 1]
===============================================================================
