------------------------------ MODULE RuleSync ------------------------------
(***************************************************************************)
(* How a rule configuration reaches the kernel driver.                     *)
(*                                                                         *)
(* Three threads of HostGuard push a configuration to PebMonitor with the  *)
(* same routine, ApplyKernelRules (HostGuard.cpp):                         *)
(*   "main"    once at start-up, with the configuration loaded first;      *)
(*   "reload"  the hot-reload thread, with a candidate read from           *)
(*             rules.json, which becomes active only if the push succeeds; *)
(*   "verdict" the verdict-port thread, after every reconnection, with a   *)
(*             snapshot of the active configuration.                       *)
(* No lock covers a push: it is a series of IOCTLs on a handle of the      *)
(* pushing thread, so the pushes of "reload" and "verdict" interleave.     *)
(*                                                                         *)
(* A configuration is a constant with two lists of registry rules; the     *)
(* driver's copy is `store'.  An IOCTL is one atomic step of the driver.   *)
(***************************************************************************)
EXTENDS Naturals, Sequences, FiniteSets

CONSTANTS
  Configs,        \* configurations that rules.json can describe
  Default,        \* the empty configuration RuleManager starts with
  Rules,          \* registry rules
  BlockRules,     \* [Configs -> Seq(Rules)]: registry_rules
  AllowRules,     \* [Configs -> Seq(Rules)]: registry_allow_rules
  Oversized,      \* configurations whose metadata exceed MAX_RULE_LENGTH
  Malformed,      \* contents of rules.json that do not parse
  Absent,         \* rules.json does not exist
  NoConfig,       \* "no configuration", in the driver or deferred
  Hosts,          \* computers HostGuard may run on: on each,
  BatchSupport,   \* which of "block", "allow" the driver replaces in a batch
  IoctlMayFail,   \* whether a working driver may still fail a call
  DriverMayStop,  \* whether the driver service may stop and start again
  PortMayDrop,    \* whether the verdict port may break
  MaxWrites       \* and a bound on the number of changes of rules.json

ASSUME ConstantsAssumption ==
  /\ Default \in Configs
  /\ BlockRules \in [Configs -> Seq(Rules)]
  /\ AllowRules \in [Configs -> Seq(Rules)]
  /\ Oversized \subseteq Configs
  /\ {Malformed, Absent, NoConfig} \cap Configs = {}
  /\ Malformed # Absent

ASSUME HostsAssumption ==
  /\ BatchSupport \in [Hosts -> SUBSET {"block", "allow"}]
  /\ {IoctlMayFail, DriverMayStop, PortMayDrop} \subseteq [Hosts -> BOOLEAN]
  /\ MaxWrites \in [Hosts -> Nat \ {0}]

VARIABLES
  host,       \* the computer, chosen once
  content,    \* content of rules.json
  stamp,      \* number of its changes, which stands for size and write time
  seen,       \* lastState of RulesHotReloadThread
  active,     \* RuleManager::m_ActiveConfig
  driverUp,   \* the driver device can be opened
  block,      \* the driver's list of registry rules that block
  allow,      \* the driver's list of registry allow rules
  info,       \* the configuration whose identity the driver reports
  pc,         \* where each thread is
  pushing,    \* the configuration each thread pushes
  handle,     \* the device handle of each thread's push
  todo,       \* rules a thread still has to add one by one
  ok,         \* no call of the thread's push has failed so far
  reconnect,  \* ~firstConnection of ProcessVerdictMonitorThread
  \* History variables, read by the properties only.
  tainted,    \* pushes that met another push, a driver stop or a failed clear
  trusted,    \* the last push to reach the driver was complete and untainted
  deferred    \* candidate whose push was put off because the device was closed

store == <<block, allow, info>>
file == <<content, stamp>>
vars == <<host, file, seen, active, driverUp, store, pc, pushing, handle, todo, ok,
          reconnect, tainted, trusted, deferred>>
history == <<tainted, trusted, deferred>>

Threads == {"main", "reload", "verdict"}
PushLabels == {"open", "replaceBlock", "replaceAllow", "clearBlock",
               "clearAllow", "addBlock", "addAllow", "setInfo", "finish"}
Labels == PushLabels \cup
  {"load", "running", "exited", "off", "baseline", "poll", "connect", "serving"}

\* What the driver holds once configuration c has been pushed completely.
Image(c) == <<BlockRules[c], AllowRules[c], c>>

\* Mutant: the write time is left out of the comparison.
FileStateWithoutTime == IF content = Absent THEN 0 ELSE 1

\* The FileState that QueryFileState returns; every absent file looks alike.
FileState == IF content = Absent THEN 0 ELSE stamp

\* Mutant: whatever can be opened counts as a configuration.
OpensOnly == content # Absent

\* TryLoadRulesFromJson returns true.
Parses == content \in Configs

Pushing == {t \in Threads : pc[t] \in PushLabels}
Goto(t, label) == pc' = [pc EXCEPT ![t] = label]

\* A push that begins while another one is in progress taints both.
Begin(t) ==
  tainted' = IF Pushing = {} THEN tainted ELSE tainted \cup Pushing \cup {t}

TypeOK ==
  /\ host \in Hosts
  /\ content \in Configs \cup {Malformed, Absent}
  /\ stamp \in Nat
  /\ seen \in Nat
  /\ active \in Configs
  /\ driverUp \in BOOLEAN
  /\ block \in Seq(Rules)
  /\ allow \in Seq(Rules)
  /\ info \in Configs \cup {NoConfig}
  /\ pc \in [Threads -> Labels]
  /\ pushing \in [Threads -> Configs]
  /\ handle \in [Threads -> {"closed", "open", "stale"}]
  /\ todo \in [Threads -> Seq(Rules)]
  /\ ok \in [Threads -> BOOLEAN]
  /\ reconnect \in BOOLEAN
  /\ tainted \subseteq Threads
  /\ trusted \in BOOLEAN
  /\ deferred \in Configs \cup {NoConfig}

Init ==
  /\ host \in Hosts
  /\ content \in Configs \cup {Malformed, Absent}
  /\ stamp = 1
  /\ seen = 0
  /\ active = Default
  /\ driverUp \in BOOLEAN
  /\ block = <<>> /\ allow = <<>> /\ info = NoConfig
  /\ pc = [t \in Threads |-> IF t = "main" THEN "load" ELSE "off"]
  /\ pushing = [t \in Threads |-> Default]
  /\ handle = [t \in Threads |-> "closed"]
  /\ todo = [t \in Threads |-> <<>>]
  /\ ok = [t \in Threads |-> TRUE]
  /\ reconnect = FALSE
  /\ tainted = {}
  /\ trusted = FALSE
  /\ deferred = NoConfig

-----------------------------------------------------------------------------
(* The environment: the rules file, the driver service, the verdict port.  *)

\* Somebody writes, replaces or deletes rules.json.
ChangeFile ==
  /\ stamp < MaxWrites[host]
  /\ content' \in Configs \cup {Malformed, Absent}
  /\ stamp' = stamp + 1
  /\ UNCHANGED <<host, seen, active, driverUp, store, pc, pushing, handle, todo, ok,
                 reconnect, history>>

\* The driver stops: its rules are gone and open handles no longer work.
DriverStop ==
  /\ DriverMayStop[host] /\ driverUp
  /\ driverUp' = FALSE
  /\ block' = <<>> /\ allow' = <<>> /\ info' = NoConfig
  /\ handle' = [t \in Threads |-> IF handle[t] = "open" THEN "stale" ELSE handle[t]]
  /\ tainted' = tainted \cup Pushing
  /\ trusted' = FALSE
  /\ UNCHANGED <<host, file, seen, active, pc, pushing, todo, ok, reconnect,
                 deferred>>

DriverStart ==
  /\ ~driverUp
  /\ driverUp' = TRUE
  /\ UNCHANGED <<host, file, seen, active, store, pc, pushing, handle, todo, ok,
                 reconnect, history>>

\* The verdict port is lost and ProcessVerdictMonitorThread goes back to
\* connecting (VerdictPort.tla has the workers that find out).
PortDrop ==
  /\ PortMayDrop[host]
  /\ pc["verdict"] = "serving"
  /\ Goto("verdict", "connect")
  /\ UNCHANGED <<host, file, seen, active, driverUp, store, pushing, handle, todo, ok,
                 reconnect, history>>

-----------------------------------------------------------------------------
(* ApplyKernelRules: one action per call that reaches the driver.          *)

\* A call on thread t's handle succeeds, or fails without effect.
Accepted(t) == handle[t] = "open"
Refused(t)  == handle[t] = "stale" \/ IoctlMayFail[host]

\* Mutant: the failure of a call is logged and forgotten.
FailSilently(t) == ok' = [ok EXCEPT ![t] = @]

\* A call of t's push failed, so the push will return false.
Fail(t) == ok' = [ok EXCEPT ![t] = FALSE]

\* Mutant: any driver is treated as one without batch support.
AlwaysFallback(list) == TRUE

\* ShouldFallbackToLegacyRegistryRuleSync, for the IOCTL that replaces `list'.
ShouldFallbackToLegacy(list) == list \notin BatchSupport[host]

\* Where each thread goes on when the device cannot be opened.
GiveUp(t) == CASE t = "main" -> "exited" [] t = "reload" -> "poll"
               [] t = "verdict" -> "serving"

\* OpenDriverDevice.  When it fails the push ends before any call was made:
\* "main" gives up, "reload" keeps the old configuration and says that the
\* update is deferred, "verdict" goes on to serve the port.
OpenDevice(t) ==
  /\ pc[t] = "open"
  /\ ok' = [ok EXCEPT ![t] = TRUE]
  /\ \/ /\ driverUp
        /\ handle' = [handle EXCEPT ![t] = "open"]
        /\ Goto(t, "replaceBlock")
        /\ trusted' = FALSE
        /\ UNCHANGED <<tainted, deferred>>
     \/ /\ ~driverUp \/ IoctlMayFail[host]
        /\ Goto(t, GiveUp(t))
        /\ tainted' = tainted \ {t}
        /\ deferred' = IF t = "reload" THEN pushing[t] ELSE deferred
        /\ UNCHANGED <<handle, trusted>>
  /\ UNCHANGED <<host, file, seen, active, driverUp, store, pushing, todo, reconnect>>

\* IOCTL_REPLACE_REGISTRY_RULES.  "Not supported" starts the legacy push; any
\* other error ends the rule part of the push, and the info part still follows.
ReplaceRegistryRules(t) ==
  /\ pc[t] = "replaceBlock"
  /\ \/ /\ Accepted(t) /\ ~ShouldFallbackToLegacy("block")
        /\ block' = BlockRules[pushing[t]]
        /\ Goto(t, "replaceAllow")
        /\ UNCHANGED ok
     \/ /\ Accepted(t) /\ ShouldFallbackToLegacy("block")
        /\ Goto(t, "clearBlock")
        /\ UNCHANGED <<block, ok>>
     \/ /\ Refused(t)
        /\ Fail(t)
        /\ Goto(t, "setInfo")
        /\ UNCHANGED block
  /\ UNCHANGED <<host, file, seen, active, driverUp, allow, info, pushing, handle, todo,
                 reconnect, history>>

\* IOCTL_REPLACE_REGISTRY_ALLOW_RULES, with the same three outcomes.
ReplaceRegistryAllowRules(t) ==
  /\ pc[t] = "replaceAllow"
  /\ \/ /\ Accepted(t) /\ ~ShouldFallbackToLegacy("allow")
        /\ allow' = AllowRules[pushing[t]]
        /\ Goto(t, "setInfo")
        /\ UNCHANGED ok
     \/ /\ Accepted(t) /\ ShouldFallbackToLegacy("allow")
        /\ Goto(t, "clearBlock")
        /\ UNCHANGED <<allow, ok>>
     \/ /\ Refused(t)
        /\ Fail(t)
        /\ Goto(t, "setInfo")
        /\ UNCHANGED allow
  /\ UNCHANGED <<host, file, seen, active, driverUp, block, info, pushing, handle, todo,
                 reconnect, history>>

\* ApplyRegistryRulesLegacy: a failed clear is logged and otherwise ignored.
ClearRegistryRules(t) ==
  /\ pc[t] = "clearBlock"
  /\ \/ /\ Accepted(t)
        /\ block' = <<>>
        /\ UNCHANGED tainted
     \/ /\ Refused(t)
        /\ tainted' = tainted \cup {t}
        /\ UNCHANGED block
  /\ Goto(t, "clearAllow")
  /\ UNCHANGED <<host, file, seen, active, driverUp, allow, info, pushing, handle,
                 todo, ok, reconnect, trusted, deferred>>

ClearRegistryAllowRules(t) ==
  /\ pc[t] = "clearAllow"
  /\ \/ /\ Accepted(t)
        /\ allow' = <<>>
        /\ UNCHANGED tainted
     \/ /\ Refused(t)
        /\ tainted' = tainted \cup {t}
        /\ UNCHANGED allow
  /\ todo' = [todo EXCEPT ![t] = BlockRules[pushing[t]]]
  /\ Goto(t, "addBlock")
  /\ UNCHANGED <<host, file, seen, active, driverUp, block, info, pushing, handle, ok,
                 reconnect, trusted, deferred>>

\* The loops over AddRegistryRule and AddRegistryAllowRule: a rule the driver
\* refuses is skipped and fails the push.
AddRegistryRule(t) ==
  /\ pc[t] = "addBlock"
  /\ IF todo[t] = <<>>
     THEN /\ todo' = [todo EXCEPT ![t] = AllowRules[pushing[t]]]
          /\ Goto(t, "addAllow")
          /\ UNCHANGED <<block, ok>>
     ELSE /\ todo' = [todo EXCEPT ![t] = Tail(@)]
          /\ \/ /\ Accepted(t)
                /\ block' = Append(block, Head(todo[t]))
                /\ UNCHANGED ok
             \/ /\ Refused(t)
                /\ Fail(t)
                /\ UNCHANGED block
          /\ UNCHANGED pc
  /\ UNCHANGED <<host, file, seen, active, driverUp, allow, info, pushing, handle,
                 reconnect, history>>

AddRegistryAllowRule(t) ==
  /\ pc[t] = "addAllow"
  /\ IF todo[t] = <<>>
     THEN /\ Goto(t, "setInfo")
          /\ UNCHANGED <<allow, ok, todo>>
     ELSE /\ todo' = [todo EXCEPT ![t] = Tail(@)]
          /\ \/ /\ Accepted(t)
                /\ allow' = Append(allow, Head(todo[t]))
                /\ UNCHANGED ok
             \/ /\ Refused(t)
                /\ Fail(t)
                /\ UNCHANGED allow
          /\ UNCHANGED pc
  /\ UNCHANGED <<host, file, seen, active, driverUp, block, info, pushing, handle,
                 reconnect, history>>

\* SyncDriverConfigInfo: sent whether or not the rules went through; metadata
\* that do not fit are refused before the call.
SetActiveDriverConfigInfo(t) ==
  /\ pc[t] = "setInfo"
  /\ \/ /\ Accepted(t) /\ pushing[t] \notin Oversized
        /\ info' = pushing[t]
        /\ UNCHANGED ok
     \/ /\ Refused(t) \/ pushing[t] \in Oversized
        /\ Fail(t)
        /\ UNCHANGED info
  /\ Goto(t, "finish")
  /\ UNCHANGED <<host, file, seen, active, driverUp, block, allow, pushing, handle,
                 todo, reconnect, history>>

\* The push returns: a fresh handle is closed ("main" keeps the one it opened),
\* and the push counts as trusted if it returned true and nothing tainted it.
Return(t) ==
  /\ pc[t] = "finish"
  /\ handle' = [handle EXCEPT ![t] = IF t = "main" THEN @ ELSE "closed"]
  /\ trusted' = (ok[t] /\ t \notin tainted)
  /\ tainted' = tainted \ {t}
  /\ UNCHANGED <<host, file, seen, driverUp, store, pushing, todo, ok, reconnect,
                 deferred>>

Push(t) ==
  \/ OpenDevice(t)
  \/ ReplaceRegistryRules(t) \/ ReplaceRegistryAllowRules(t)
  \/ ClearRegistryRules(t) \/ ClearRegistryAllowRules(t)
  \/ AddRegistryRule(t) \/ AddRegistryAllowRule(t)
  \/ SetActiveDriverConfigInfo(t)

-----------------------------------------------------------------------------
(* RunProtectionEngine.                                                    *)

\* ReloadRulesFromDisk(rulesPath, false): a file that does not parse leaves
\* the empty configuration active.
LoadAtStartup ==
  /\ pc["main"] = "load"
  /\ active' = IF Parses THEN content ELSE active
  /\ pushing' = [pushing EXCEPT !["main"] = active']
  /\ Goto("main", "open")
  /\ Begin("main")
  /\ UNCHANGED <<host, file, seen, driverUp, store, handle, todo, ok, reconnect,
                 trusted, deferred>>

\* Whatever ApplyKernelRules returned, the worker threads are started.
StartThreads ==
  /\ Return("main")
  /\ pc' = [main |-> "running", reload |-> "baseline", verdict |-> "connect"]
  /\ UNCHANGED active

\* The process has left RunProtectionEngine because the device did not open.
Exited == pc["main"] = "exited" /\ UNCHANGED vars

-----------------------------------------------------------------------------
(* RulesHotReloadThread and ReloadRulesFromDisk.                           *)

\* lastState is taken when the thread starts, not when the rules were loaded.
TakeBaseline ==
  /\ pc["reload"] = "baseline"
  /\ seen' = FileState
  /\ Goto("reload", "poll")
  /\ UNCHANGED <<host, file, active, driverUp, store, pushing, handle, todo, ok,
                 reconnect, history>>

\* Every two seconds: nothing to do, the file is gone, or it must be loaded.
PollFile ==
  /\ pc["reload"] = "poll"
  /\ seen' = FileState
  /\ IF FileState = seen \/ content = Absent
     THEN UNCHANGED pc
     ELSE Goto("reload", "load")
  /\ UNCHANGED <<host, file, active, driverUp, store, pushing, handle, todo, ok,
                 reconnect, history>>

\* TryLoadRulesFromJson reads the file as it is now, which may be later than
\* the state the poll saw.  On failure the candidate is dropped.
LoadCandidate ==
  /\ pc["reload"] = "load"
  /\ IF Parses
     THEN /\ pushing' = [pushing EXCEPT !["reload"] = content]
          /\ Goto("reload", "open")
          /\ Begin("reload")
          /\ deferred' = NoConfig
     ELSE /\ Goto("reload", "poll")
          /\ UNCHANGED <<pushing, tainted, deferred>>
  /\ UNCHANGED <<host, file, seen, active, driverUp, store, handle, todo, ok,
                 reconnect, trusted>>

\* ApplyLoadedRules: the pushed candidate becomes the active configuration.
ActivateCandidate ==
  /\ Return("reload")
  /\ ok["reload"]
  /\ active' = pushing["reload"]
  /\ Goto("reload", "poll")

\* kernel_sync rollback: the candidate is dropped; nothing is sent back to the
\* driver.
RollBack ==
  /\ Return("reload")
  /\ ~ok["reload"]
  /\ Goto("reload", "poll")
  /\ UNCHANGED active

-----------------------------------------------------------------------------
(* ProcessVerdictMonitorThread, as far as rules are concerned.             *)

\* The first connection relies on the start-up push; every later one takes a
\* snapshot of the active configuration and pushes it again.
ConnectPort ==
  /\ pc["verdict"] = "connect"
  /\ driverUp
  /\ IF reconnect
     THEN /\ pushing' = [pushing EXCEPT !["verdict"] = active]
          /\ Goto("verdict", "open")
          /\ Begin("verdict")
          /\ UNCHANGED reconnect
     ELSE /\ reconnect' = TRUE
          /\ Goto("verdict", "serving")
          /\ UNCHANGED <<pushing, tainted>>
  /\ UNCHANGED <<host, file, seen, active, driverUp, store, handle, todo, ok,
                 trusted, deferred>>

\* The resynchronisation returns; its result is only logged.
FinishResync ==
  /\ Return("verdict")
  /\ Goto("verdict", "serving")
  /\ UNCHANGED active

-----------------------------------------------------------------------------
Main == Push("main") \/ LoadAtStartup \/ StartThreads
Reload == Push("reload") \/ TakeBaseline \/ PollFile \/ LoadCandidate
            \/ ActivateCandidate \/ RollBack
Verdict == Push("verdict") \/ ConnectPort \/ FinishResync
Environment == ChangeFile \/ DriverStop \/ DriverStart \/ PortDrop

Next == Main \/ Reload \/ Verdict \/ Environment \/ Exited

Spec == Init /\ [][Next]_vars

\* The threads are scheduled and the IOCTLs return.
FairSpec == Spec /\ WF_vars(Main) /\ WF_vars(Reload) /\ WF_vars(Verdict)

-----------------------------------------------------------------------------
(* Properties.                                                             *)

InSync == store = Image(active)

\* When the last push that reached the driver returned true, met no other push
\* and no failed clear, and the driver has not stopped since, the driver holds
\* exactly the lists and the info of the configuration HostGuard calls active.
\* This is what the success messages and the config_applied event promise.
TrustedMeansInSync == trusted => InSync

\* With batch support a reload never opens a gap in enforcement: the block list
\* of a running driver only ever changes from one complete list to the complete
\* list of a configuration that some thread is pushing (ApplyRegistryRules
\* replaces lists, it does not clear and refill them).
NoEnforcementGap ==
  [][ BatchSupport[host] = {"block", "allow"} /\ driverUp'
        => /\ block' # block =>
                \E t \in Pushing : block' = BlockRules[pushing[t]]
           /\ allow' # allow =>
                \E t \in Pushing : allow' = AllowRules[pushing[t]] ]_vars

\* A change of rules.json that the watcher has not seen yet is eventually
\* active, if it is a valid configuration, on a host where no call fails and the
\* driver does not stop: no change is lost between the poll, the load and the
\* next poll.
ChangeIsApplied ==
  (/\ ~IoctlMayFail[host] /\ ~DriverMayStop[host]
   /\ pc["reload"] = "poll" /\ seen # FileState)
    ~> (content \in Configs \ Oversized => active = content)

\* When a candidate becomes active while the watcher has seen the file as it is,
\* the candidate is what the file contains: a change between the poll, the load
\* and the end of the push is either loaded or found by the next poll
\* (HostGuard.cpp:1495-1504 record the state before the file is read).
ReloadsAreCurrent == [][ActivateCandidate /\ seen = FileState => active' = content]_vars

-----------------------------------------------------------------------------
(* Claims of the program's messages and tests that the runs refute.        *)

\* HostGuard.cpp:1841: the reconnection has resynchronised the current rules.
\* Stated for an idle hot-reload thread, so that no later step repairs it.
ResyncRestoresCurrentRules ==
  [][ FinishResync /\ ok["verdict"] /\ pc["reload"] = "poll" => InSync ]_vars

\* HostGuard.cpp:1372: an update that found the device closed is synchronised
\* when the connection is back.  Stated for an update that is still what
\* rules.json contains, and a resynchronisation that began after it was put
\* off and met neither another push nor a driver stop.
DeferredUpdateIsSynced ==
  [][ FinishResync /\ ok["verdict"] /\ "verdict" \notin tainted
        /\ deferred = content /\ seen = FileState
          => info = deferred ]_vars

=============================================================================
