--------------------------- MODULE ProcessVerdict ---------------------------
(***************************************************************************)
(* How HostGuard judges a process creation (HandleProcessVerdictMessage,   *)
(* HostGuard.cpp, and the matching functions of RuleManager.cpp) while the *)
(* hot-reload thread replaces the configuration and the driver times out.  *)
(*                                                                         *)
(* Several workers handle messages at once, each message by one worker, so *)
(* the state of a handler is kept per request.  RuleManager takes m_Lock   *)
(* in each of its two calls and releases it between them: a reload can     *)
(* come between the allow check and the evaluation.                        *)
(***************************************************************************)
EXTENDS Naturals, Sequences, FiniteSets

CONSTANTS
  Requests,      \* process creations the driver asks about
  Configs,       \* rule configurations
  AllowList,     \* [Configs -> Seq(rules)]: process_allow_rules
  BlockList,     \* [Configs -> Seq(rules)]: process_rules
  Inputs,        \* names and command lines, Empty and Unknown among them
  Empty,         \* L""
  Unknown,       \* L"<unknown>"
  Messages,      \* [Requests -> Subjects]: what the driver says of each process
  Disabled,      \* a rule's group of patterns that is not enabled
  WorkerCount,   \* workers on the completion port
  ReplyMayFail,  \* FilterReplyMessage may fail on a connected port
  PortMayDrop    \* the verdict port may be disconnected

Fields == {"parentName", "childName", "cmdLine", "parentCmdLine"}
Subjects == [Fields -> Inputs]

ASSUME ConstantsAssumption ==
  /\ {Empty, Unknown} \subseteq Inputs
  /\ Empty # Unknown
  /\ Messages \in [Requests -> Subjects]
  /\ WorkerCount \in Nat \ {0}
  /\ ReplyMayFail \in BOOLEAN
  /\ PortMayDrop \in BOOLEAN

VARIABLES
  active,    \* RuleManager::m_ActiveConfig
  port,      \* the verdict port is connected
  place,     \* where each request is
  subject,   \* what its handler knows of the process
  decision,  \* which rule its handler found
  outcome,   \* what the driver did
  event      \* the JSON event its handler wrote

vars == <<active, port, place, subject, decision, outcome, event>>

Handling == {"allowCheck", "evaluate", "reply", "report"}
Places == Handling \cup {"created", "queued", "done"}

TypeOK ==
  /\ active \in Configs
  /\ port \in BOOLEAN
  /\ place \in [Requests -> Places]
  /\ subject \in [Requests -> Subjects]
  /\ decision \in [Requests -> {"none", "allowRule", "blockRule", "noRule"}]
  /\ outcome \in [Requests -> {"none", "waiting", "allow", "block", "timedOut"}]
  /\ event \in [Requests -> {"none", "process_allow", "process_block",
                             "process_verdict_expired"}]

Init ==
  /\ active \in Configs
  /\ port = TRUE
  /\ place = [r \in Requests |-> "created"]
  /\ subject = Messages
  /\ decision = [r \in Requests |-> "none"]
  /\ outcome = [r \in Requests |-> "none"]
  /\ event = [r \in Requests |-> "none"]

-----------------------------------------------------------------------------
(* Matching.  A group of patterns is the set of inputs that they match.    *)

\* An enabled group never matches an input that is not known.
MatchRegexGroup(group, input) ==
  group = Disabled \/ (input # Empty /\ input \in group)

MatchDetectionRule(rule, s) == \A f \in Fields : MatchRegexGroup(rule[f], s[f])

TryMatchDetectionRuleCollection(rules, s) ==
  \E i \in DOMAIN rules : MatchDetectionRule(rules[i], s)

\* TryMatchProcessAllowRule under configuration c.
AllowMatches(c, s) == TryMatchDetectionRuleCollection(AllowList[c], s)

\* Mutant: the allow list, checked by the caller already, is not checked again.
BlocksWithoutRecheck(c, s) == TryMatchDetectionRuleCollection(BlockList[c], s)

\* EvaluateProcessAgainstRules under configuration c.
Blocks(c, s) ==
  /\ ~TryMatchDetectionRuleCollection(AllowList[c], s)
  /\ TryMatchDetectionRuleCollection(BlockList[c], s)

\* A subject the handler of a message about s may judge.  The process cache
\* fills in names and the parent's command line that the message leaves out,
\* with anything it holds; a name it does not hold becomes Unknown.
Resolved(s) ==
  {q \in Subjects :
     /\ \A f \in {"parentName", "childName"} :
          q[f] # Empty /\ (s[f] # Empty => q[f] = s[f])
     /\ q.cmdLine = s.cmdLine
     /\ s.parentCmdLine # Empty => q.parentCmdLine = s.parentCmdLine}

-----------------------------------------------------------------------------
(* The environment: the driver, the port, the hot-reload thread.           *)

\* The driver sends a message about a new process and waits.
Ask(r) ==
  /\ port /\ place[r] = "created"
  /\ place' = [place EXCEPT ![r] = "queued"]
  /\ outcome' = [outcome EXCEPT ![r] = "waiting"]
  /\ UNCHANGED <<active, port, subject, decision, event>>

\* It waits no longer than the verdict time-out.  A message that no worker has
\* received may be withdrawn.
TimeOut(r) ==
  /\ outcome[r] = "waiting"
  /\ outcome' = [outcome EXCEPT ![r] = "timedOut"]
  /\ \/ UNCHANGED place
     \/ place[r] = "queued" /\ place' = [place EXCEPT ![r] = "done"]
  /\ UNCHANGED <<active, port, subject, decision, event>>

\* The port is disconnected: nobody waits any longer and what no worker has
\* received is lost.
PortDrop ==
  /\ PortMayDrop /\ port
  /\ port' = FALSE
  /\ outcome' = [r \in Requests |->
                   IF outcome[r] = "waiting" THEN "timedOut" ELSE outcome[r]]
  /\ place' = [r \in Requests |-> IF place[r] = "queued" THEN "done" ELSE place[r]]
  /\ UNCHANGED <<active, subject, decision, event>>

\* ProcessVerdictMonitorThread connects again once its workers have ended.
Reconnect ==
  /\ ~port
  /\ \A r \in Requests : place[r] \notin Handling
  /\ port' = TRUE
  /\ UNCHANGED <<active, place, subject, decision, outcome, event>>

\* ApplyLoadedRules replaces the whole configuration under m_Lock.
ApplyLoadedRules ==
  /\ active' \in Configs
  /\ UNCHANGED <<port, place, subject, decision, outcome, event>>

-----------------------------------------------------------------------------
(* HandleProcessVerdictMessage: one action per call that other threads can *)
(* come between.                                                           *)

\* A free worker takes the message and completes it from the process cache.
Receive(r) ==
  /\ port /\ place[r] = "queued"
  /\ Cardinality({q \in Requests : place[q] \in Handling}) < WorkerCount
  /\ place' = [place EXCEPT ![r] = "allowCheck"]
  /\ \E s \in Resolved(subject[r]) : subject' = [subject EXCEPT ![r] = s]
  /\ UNCHANGED <<active, port, decision, outcome, event>>

TryMatchProcessAllowRule(r) ==
  /\ place[r] = "allowCheck"
  /\ IF AllowMatches(active, subject[r])
     THEN /\ decision' = [decision EXCEPT ![r] = "allowRule"]
          /\ place' = [place EXCEPT ![r] = "reply"]
     ELSE /\ place' = [place EXCEPT ![r] = "evaluate"]
          /\ UNCHANGED decision
  /\ UNCHANGED <<active, port, subject, outcome, event>>

EvaluateProcessAgainstRules(r) ==
  /\ place[r] = "evaluate"
  /\ decision' = [decision EXCEPT
                    ![r] = IF Blocks(active, subject[r]) THEN "blockRule" ELSE "noRule"]
  /\ place' = [place EXCEPT ![r] = "reply"]
  /\ UNCHANGED <<active, port, subject, outcome, event>>

\* Mutant: what the handler decided is sent without being made an answer.
DecisionAsReply(r) == decision[r]

\* reply.BlockProcess, as an answer to the driver.
BlockProcess(r) == IF decision[r] = "blockRule" THEN "block" ELSE "allow"

\* Mutant: a reply that came too late is reported like any other.
ReplyWithoutExpiry(r) ==
  /\ place[r] = "reply"
  /\ \/ /\ port
        /\ outcome' = [outcome EXCEPT
                          ![r] = IF @ = "waiting" THEN BlockProcess(r) ELSE @]
        /\ place' = [place EXCEPT ![r] = "report"]
     \/ /\ ~port \/ ReplyMayFail
        /\ place' = [place EXCEPT ![r] = "done"]
        /\ UNCHANGED outcome
  /\ UNCHANGED <<active, port, subject, decision, event>>

\* FilterReplyMessage: the driver still waits and takes the answer; or it has
\* given up, which ends the handler with an event of its own; or the call
\* fails otherwise, which ends the handler without any event.
FilterReplyMessage(r) ==
  /\ place[r] = "reply"
  /\ \/ /\ port /\ outcome[r] = "waiting"
        /\ outcome' = [outcome EXCEPT ![r] = BlockProcess(r)]
        /\ place' = [place EXCEPT ![r] = "report"]
        /\ UNCHANGED event
     \/ /\ port /\ outcome[r] = "timedOut"
        /\ event' = [event EXCEPT ![r] = "process_verdict_expired"]
        /\ place' = [place EXCEPT ![r] = "done"]
        /\ UNCHANGED outcome
     \/ /\ ~port \/ ReplyMayFail
        /\ place' = [place EXCEPT ![r] = "done"]
        /\ UNCHANGED <<outcome, event>>
  /\ UNCHANGED <<active, port, subject, decision>>

\* The process_allow or process_block event; a process that no rule matched is
\* not reported.
Report(r) ==
  /\ place[r] = "report"
  /\ event' = [event EXCEPT ![r] = CASE decision[r] = "allowRule" -> "process_allow"
                                     [] decision[r] = "blockRule" -> "process_block"
                                     [] OTHER -> "none"]
  /\ place' = [place EXCEPT ![r] = "done"]
  /\ UNCHANGED <<active, port, subject, decision, outcome>>

-----------------------------------------------------------------------------
Handle(r) ==
  \/ Receive(r) \/ TryMatchProcessAllowRule(r) \/ EvaluateProcessAgainstRules(r)
  \/ FilterReplyMessage(r) \/ Report(r)

Next ==
  \/ \E r \in Requests : Ask(r) \/ TimeOut(r) \/ Handle(r)
  \/ PortDrop \/ Reconnect \/ ApplyLoadedRules

Spec == Init /\ [][Next]_vars

-----------------------------------------------------------------------------
(* Properties.                                                             *)

\* What the handlers report agrees with what the driver did: no block is
\* claimed for a process that the driver let go when its time-out passed, and
\* none is claimed to have expired that the driver blocked or allowed in time.
EventsMatchOutcome ==
  \A r \in Requests :
    /\ event[r] = "process_allow" => outcome[r] = "allow"
    /\ event[r] = "process_block" => outcome[r] = "block"
    /\ event[r] = "process_verdict_expired" => outcome[r] = "timedOut"

\* The judgement a handler has come to.
Judgement ==
  [r \in Requests |-> CASE decision[r] = "none" -> "none"
                       [] decision[r] = "blockRule" -> "block"
                       [] OTHER -> "allow"]

Atomic == INSTANCE AtomicVerdict WITH judgement <- Judgement

\* A handler that asks RuleManager twice, with a reload in between, still
\* answers as one configuration would, and the driver acts on that answer: a
\* process that the configuration in force allows is never blocked because an
\* earlier one did not know it.
OneConfigDecides == Atomic!Spec
=============================================================================
