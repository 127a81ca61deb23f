---------------------------- MODULE DriverEvents ----------------------------
(***************************************************************************)
(* DriverEventMonitorThread (HostGuard.cpp): the thread that keeps one      *)
(* receive posted on the driver's event channel, handles each event it      *)
(* completes with (HandleDriverEventPayload) and answers blocked registry   *)
(* operations by terminating the process, at most once per cooldown         *)
(* (MaybeAutoTerminateProcessForDriverEvent, ReserveAutoTerminateAttempt).  *)
(*                                                                          *)
(* Time is kept as ages: what happened is so many ticks old, and ages stop  *)
(* growing at AgeCap, beyond which no comparison of the code tells them     *)
(* apart.  How the event is logged is left out, and what an observed        *)
(* process leaves in the process cache is the subject of ProcessCache.      *)
(***************************************************************************)
EXTENDS Integers, FiniteSets, Sequences

CONSTANTS
  Pids,          \* processes that cause events
  ExemptPids,    \* the process ids 0 and HostGuard's own
  Events,        \* what the driver may report: pid, type and severity, where
                 \* severity 0 is "not given"
  Configs,       \* configurations that rules.json may bring
  TerminateOn,   \* of a configuration: terminateOnRegistryBlock
  MinSeverity,   \* of a configuration: minSeverity
  CooldownMs,    \* of a configuration: cooldownMs
  RuleSeverity,  \* of a configuration: its severity of the rule, 0 without it
  Retention,     \* kAutoTerminateHistoryRetentionMs
  MaxHistory,    \* kMaxAutoTerminateHistoryEntries
  AgeCap,        \* bound: ages from here on are not told apart
  BackoffMin,    \* kDriverEventBackoffMinMs
  BackoffMax,    \* kDriverEventBackoffMaxMs
  NoEvent        \* the cleared event buffer

ASSUME ConstantsAssumption ==
  /\ IsFiniteSet(Pids) /\ Pids \cap ExemptPids = {}
  /\ Events \subseteq
       [pid : Pids \cup ExemptPids, type : {"blockedRegistry", "other"}, severity : Nat]
  /\ NoEvent \notin Events
  /\ TerminateOn \in [Configs -> BOOLEAN]
  /\ MinSeverity \in [Configs -> Nat]
  /\ CooldownMs \in [Configs -> Nat]
  /\ RuleSeverity \in [Configs -> Nat]
  /\ Retention \in Nat /\ MaxHistory \in Nat /\ AgeCap \in Nat
  /\ Retention < AgeCap /\ \A c \in Configs : CooldownMs[c] <= AgeCap
  /\ BackoffMin \in Nat \ {0} /\ BackoffMax \in Nat /\ BackoffMin <= BackoffMax

Ages == 0..AgeCap

VARIABLES
  stop,       \* g_StopEvent is set
  shutdown,   \* progress of a call of RequestShutdown
  driver,     \* "up", "faulty" (opens, but fails requests) or "down"
  link,       \* the thread's device handle: "none", "up", or "down"
  pc,         \* where DriverEventMonitorThread is
  backoff,    \* reconnectBackoffMs
  receive,    \* the overlapped receive of asyncContext
  event,      \* asyncContext.driverEvent
  severity,   \* severity of HandleDriverEventPayload
  cooldown,   \* config.autoResponse.cooldownMs of the snapshot
  config,     \* RuleManager's active configuration
  history,    \* g_AutoTerminateHistory: the ages of its entries
  owed,       \* ghost: events delivered and not yet handled
  since,      \* ghost: age of the last recorded attempt on each process
  slips       \* ghost: attempts made since the response was turned off

channel == <<stop, shutdown, driver, link, backoff>>
io == <<receive, event, owed>>
response == <<severity, cooldown, history, since, slips>>
vars == <<channel, pc, io, config, response>>

Labels == {"open", "backoff", "setup", "post", "test", "wait", "metadata", "decide",
           "reserve", "openDevice", "terminate", "repost", "close", "exit"}

TypeOK ==
  /\ stop \in BOOLEAN
  /\ shutdown \in {"none", "cancel", "done"}
  /\ driver \in {"up", "faulty", "down"}
  /\ link \in {"none", "up", "down"}
  /\ pc \in Labels
  /\ backoff \in BackoffMin..BackoffMax
  /\ receive \in {"none", "posted", "event", "short", "failed", "cancelled"}
  /\ event \in Events \cup {NoEvent}
  /\ severity \in Nat
  /\ cooldown \in 0..AgeCap
  /\ config \in Configs
  /\ DOMAIN history \subseteq Pids
  /\ \A p \in DOMAIN history : history[p] \in Ages
  /\ owed \in Seq(Events)
  /\ since \in [Pids -> Ages]
  /\ slips \in Nat

Init ==
  /\ stop = FALSE /\ shutdown = "none"
  /\ driver \in {"up", "faulty", "down"} /\ link = "none"
  /\ pc = "open" /\ backoff = BackoffMin
  /\ receive = "none" /\ event = NoEvent /\ owed = <<>>
  /\ severity = 0 /\ cooldown = 0
  /\ config \in Configs
  /\ history = [p \in {} |-> 0]
  /\ since = [p \in Pids |-> AgeCap]
  /\ slips = 0

-----------------------------------------------------------------------------
(* The environment: the driver, the clock, the hot reload and RequestShutdown. *)

\* A driver that fails or goes away fails the receive posted on it; a handle
\* to a driver that went away stays useless.
DriverChanges(d) ==
  /\ driver # d
  /\ driver' = d
  /\ link' = IF d = "down" /\ link = "up" THEN "down" ELSE link
  /\ receive' = IF d # "up" /\ receive = "posted" THEN "failed" ELSE receive
  /\ UNCHANGED <<stop, shutdown, backoff, pc, event, owed, config, response>>

\* The driver completes the receive with an event, or with something of
\* another length.
Deliver(e) ==
  /\ link = "up" /\ driver = "up" /\ receive = "posted"
  /\ receive' = "event"
  /\ event' = e
  /\ owed' = Append(owed, e)
  /\ UNCHANGED <<channel, pc, config, response>>

DeliverShort ==
  /\ link = "up" /\ driver = "up" /\ receive = "posted"
  /\ receive' = "short"
  /\ UNCHANGED <<channel, pc, event, owed, config, response>>

Older(age) == IF age = AgeCap THEN AgeCap ELSE age + 1

Tick ==
  /\ history' = [p \in DOMAIN history |-> Older(history[p])]
  /\ since' = [p \in Pids |-> Older(since[p])]
  /\ UNCHANGED <<channel, pc, io, config, severity, cooldown, slips>>

\* ReloadRulesFromDisk activates another configuration.
Reload(c) ==
  /\ config' = c
  /\ slips' = IF TerminateOn[c] THEN 0 ELSE slips
  /\ UNCHANGED <<channel, pc, io, severity, cooldown, history, since>>

SetStopEvent ==
  /\ shutdown = "none"
  /\ shutdown' = "cancel"
  /\ stop' = TRUE
  /\ UNCHANGED <<driver, link, backoff, pc, io, config, response>>

CancelTrackedDevice ==
  /\ shutdown = "cancel"
  /\ shutdown' = "done"
  /\ receive' = IF link # "none" /\ receive = "posted" THEN "cancelled" ELSE receive
  /\ UNCHANGED <<stop, driver, link, backoff, pc, event, owed, config, response>>

-----------------------------------------------------------------------------
(* The channel.                                                            *)

\* Mutant: the wait is doubled without regard to the maximum.
DoubledBackoff == backoff * 2

NextBackoff == IF backoff >= BackoffMax \div 2 THEN BackoffMax ELSE backoff * 2

\* OpenDriverDeviceOverlapped, or the end of the thread.
OpenChannel ==
  /\ pc = "open"
  /\ \/ stop /\ pc' = "exit" /\ UNCHANGED <<link, backoff>>
     \/ ~stop /\ driver # "down" /\ link' = "up" /\ backoff' = BackoffMin /\ pc' = "setup"
     \/ ~stop /\ driver = "down" /\ pc' = "backoff" /\ UNCHANGED <<link, backoff>>
  /\ UNCHANGED <<stop, shutdown, driver, io, config, response>>

\* WaitForShutdown(reconnectBackoffMs).
Backoff ==
  /\ pc = "backoff"
  /\ IF stop THEN pc' = "exit" /\ UNCHANGED backoff
             ELSE pc' = "open" /\ backoff' = NextBackoff
  /\ UNCHANGED <<stop, shutdown, driver, link, io, config, response>>

CreateCompletionPort ==
  /\ pc = "setup"
  /\ \/ pc' = "post" /\ UNCHANGED link
     \/ driver # "up" /\ pc' = "backoff" /\ link' = "none"
  /\ UNCHANGED <<stop, shutdown, driver, backoff, io, config, response>>

\* PostDriverEventReceive clears the context first.
PostReceive ==
  /\ event' = NoEvent
  /\ receive' = IF link = "up" /\ driver = "up" THEN "posted" ELSE "none"

PostFirstReceive ==
  /\ pc = "post"
  /\ PostReceive
  /\ IF receive' = "posted" THEN pc' = "test" /\ UNCHANGED link
                            ELSE pc' = "backoff" /\ link' = "none"
  /\ UNCHANGED <<stop, shutdown, driver, backoff, owed, config, response>>

\* Mutant: the loop relies on RequestShutdown to cancel its receive.
TestNothing ==
  /\ pc = "test"
  /\ pc' = "wait"
  /\ UNCHANGED <<channel, io, config, response>>

\* The condition of the inner loop.
Test ==
  /\ pc = "test"
  /\ pc' = IF stop THEN "close" ELSE "wait"
  /\ UNCHANGED <<channel, io, config, response>>

\* Mutant: a receive that failed is dropped and the loop goes on waiting.
WaitOn ==
  /\ pc = "wait"
  /\ pc' = CASE receive = "event" -> "metadata"
             [] receive = "short" -> "repost"
             [] OTHER -> "test"
  /\ receive' = IF receive = "posted" THEN receive ELSE "none"
  /\ UNCHANGED <<channel, event, owed, config, response>>

\* Mutant: the receive is posted again before its event is handled.
WaitAndRepost ==
  /\ pc = "wait"
  /\ pc' = CASE receive = "posted" -> "test"
             [] receive = "event" -> "metadata"
             [] receive = "short" -> "repost"
             [] OTHER -> "close"
  /\ IF receive = "posted" THEN UNCHANGED <<receive, event>> ELSE PostReceive
  /\ UNCHANGED <<channel, owed, config, response>>

\* GetQueuedCompletionStatus: a time-out, a payload, or an error that ends the
\* connection.
Wait ==
  /\ pc = "wait"
  /\ pc' = CASE receive = "posted" -> "test"
             [] receive = "event" -> "metadata"
             [] receive = "short" -> "repost"
             [] OTHER -> "close"
  /\ receive' = IF receive = "posted" THEN receive ELSE "none"
  /\ UNCHANGED <<channel, event, owed, config, response>>

\* The locals of the handler are gone.
Repost ==
  /\ pc = "repost"
  /\ PostReceive
  /\ pc' = IF receive' = "posted" THEN "test" ELSE "close"
  /\ severity' = 0 /\ cooldown' = 0
  /\ UNCHANGED <<channel, owed, config, history, since, slips>>

\* CancelIoEx, and both handles are closed; the next connection follows at
\* once.  An event that shutdown left in the completion port is dropped.
Close ==
  /\ pc = "close"
  /\ pc' = "open"
  /\ link' = "none" /\ receive' = "none" /\ event' = NoEvent
  /\ UNCHANGED <<stop, shutdown, driver, backoff, owed, config, response>>

-----------------------------------------------------------------------------
(* HandleDriverEventPayload and the automatic response.                    *)

\* The event is taken from the context; a severity that the driver does not
\* give is that of the rule in the active configuration.
Metadata ==
  /\ pc = "metadata"
  /\ pc' = "decide"
  /\ severity' = IF event.severity = 0 THEN RuleSeverity[config] ELSE event.severity
  /\ owed' = Tail(owed)
  /\ UNCHANGED <<channel, receive, event, config, cooldown, history, since, slips>>

\* Mutant: terminateOnRegistryBlock is not asked.
DecideBySeverity ==
  /\ pc = "decide"
  /\ pc' = IF /\ event.type = "blockedRegistry" /\ event.pid \notin ExemptPids
              /\ severity >= MinSeverity[config]
           THEN "reserve" ELSE "repost"
  /\ cooldown' = CooldownMs[config]
  /\ UNCHANGED <<channel, io, config, severity, history, since, slips>>

\* Whom the response is for, and the snapshot of the configuration.
Decide ==
  /\ pc = "decide"
  /\ pc' = IF /\ event.type = "blockedRegistry" /\ event.pid \notin ExemptPids
              /\ TerminateOn[config] /\ severity >= MinSeverity[config]
           THEN "reserve" ELSE "repost"
  /\ cooldown' = CooldownMs[config]
  /\ UNCHANGED <<channel, io, config, severity, history, since, slips>>

Unexpired == {p \in DOMAIN history : history[p] <= Retention}

\* Mutant: the youngest entries go.
KeptOldest ==
  IF Cardinality(Unexpired) <= MaxHistory THEN {Unexpired}
  ELSE {S \in SUBSET Unexpired :
          /\ Cardinality(S) = MaxHistory
          /\ \A p \in S, q \in Unexpired \ S : history[p] >= history[q]}

\* Mutant: nothing is pruned.
KeptAll == {DOMAIN history}

\* PruneAutoTerminateHistoryLocked: expired entries go, then the oldest ones
\* until the limit is kept.  Entries of equal age go in any order.
Kept ==
  IF Cardinality(Unexpired) <= MaxHistory THEN {Unexpired}
  ELSE {S \in SUBSET Unexpired :
          /\ Cardinality(S) = MaxHistory
          /\ \A p \in S, q \in Unexpired \ S : history[p] <= history[q]}

\* Mutant: an attempt that is refused starts the cooldown again.
ReserveAnew ==
  /\ pc = "reserve"
  /\ \E S \in Kept :
       IF cooldown = 0 THEN pc' = "openDevice" /\ UNCHANGED <<history, since>>
       ELSE /\ history' = [q \in S \cup {event.pid} |->
                             IF q = event.pid THEN 0 ELSE history[q]]
            /\ IF event.pid \in S /\ history[event.pid] < cooldown
               THEN pc' = "repost" /\ UNCHANGED since
               ELSE pc' = "openDevice" /\ since' = [since EXCEPT ![event.pid] = 0]
  /\ slips' = IF pc' = "openDevice" /\ ~TerminateOn[config] THEN slips + 1 ELSE slips
  /\ UNCHANGED <<channel, io, config, severity, cooldown>>

\* ReserveAutoTerminateAttempt: without a cooldown nothing is recorded; a
\* refused attempt leaves the pruned history; any other is recorded, after the
\* pruning.
Reserve ==
  /\ pc = "reserve"
  /\ \/ cooldown = 0 /\ pc' = "openDevice" /\ UNCHANGED <<history, since>>
     \/ \E S \in Kept :
          /\ cooldown > 0
          /\ IF event.pid \in S /\ history[event.pid] < cooldown
             THEN /\ pc' = "repost"
                  /\ history' = [q \in S |-> history[q]]
                  /\ UNCHANGED since
             ELSE /\ pc' = "openDevice"
                  /\ history' = [q \in S \cup {event.pid} |->
                                   IF q = event.pid THEN 0 ELSE history[q]]
                  /\ since' = [since EXCEPT ![event.pid] = 0]
  /\ slips' = IF pc' = "openDevice" /\ ~TerminateOn[config] THEN slips + 1 ELSE slips
  /\ UNCHANGED <<channel, io, config, severity, cooldown>>

\* OpenDriverDevice: a failure ends the response, its attempt stays recorded.
OpenDevice ==
  /\ pc = "openDevice"
  /\ pc' = IF driver = "down" THEN "repost" ELSE "terminate"
  /\ UNCHANGED <<channel, io, config, response>>

\* TerminateTargetProcess; its outcome is only logged.
Terminate ==
  /\ pc = "terminate"
  /\ pc' = "repost"
  /\ UNCHANGED <<channel, io, config, response>>

-----------------------------------------------------------------------------
Thread ==
  \/ OpenChannel \/ Backoff \/ CreateCompletionPort \/ PostFirstReceive \/ Test
  \/ Wait \/ Repost \/ Close
  \/ Metadata \/ Decide \/ Reserve \/ OpenDevice \/ Terminate
Environment ==
  \/ \E d \in {"up", "faulty", "down"} : DriverChanges(d)
  \/ \E e \in Events : Deliver(e)
  \/ DeliverShort \/ SetStopEvent
  \/ \E c \in Configs : Reload(c)

Next == Thread \/ Tick \/ CancelTrackedDevice \/ Environment

Spec == Init /\ [][Next]_vars

\* The thread is scheduled, its waits have time-outs and its calls return; time
\* passes; a shutdown that has begun goes on.
FairSpec == Spec /\ WF_vars(Thread) /\ WF_vars(Tick) /\ WF_vars(CancelTrackedDevice)

-----------------------------------------------------------------------------
(* Properties.                                                             *)

\* Every event that the driver completes a receive with is handled, once and
\* before the next is asked for: when a receive is posted or the channel is
\* about to be reopened nothing is owed, and the event that is handled is the
\* one that was delivered (2363-2376).  Shutdown is the only exception.
NoEventLost ==
  /\ pc = "metadata" => owed = <<event>>
  /\ receive = "posted" \/ pc = "open" => owed = <<>> \/ stop

\* A process is not terminated again before the cooldown is over, unless the
\* cooldown is longer than the history is kept, or more processes than it can
\* hold were terminated after it (kAutoTerminateHistoryRetentionMs,
\* kMaxAutoTerminateHistoryEntries).
CooldownHolds(p) ==
  \/ since[p] >= cooldown
  \/ since[p] > Retention
  \/ Cardinality({q \in Pids \ {p} : since[q] <= since[p]}) >= MaxHistory

CooldownKept ==
  [][pc = "reserve" /\ pc' = "openDevice" => CooldownHolds(event.pid)]_vars

\* The history is pruned before an entry is added (830-839): it exceeds its
\* limit by one entry and never by more.
HistoryBounded == Cardinality(DOMAIN history) <= MaxHistory + 1

\* Once a reload has turned the response off, at most the attempt that was
\* being decided still goes through (857-864).
OneSlipAfterOff == slips <= 1

\* As long as the driver stays up the channel comes back and stays, without
\* the help of another event (2379, the loop of DriverEventMonitorThread).
ChannelReturns == <>[](driver = "up" /\ ~stop) => <>[](link = "up")

\* The thread ends when shutdown is requested, so that RunProtectionEngine's
\* join returns.
ThreadEnds == stop ~> pc = "exit"

\* A process that goes on being blocked is terminated again and again once the
\* configuration asks for it and the driver is up, whatever attempts failed
\* or were refused before.
Answerable(p) ==
  /\ pc = "decide" /\ event.pid = p /\ event.type = "blockedRegistry"
  /\ severity >= MinSeverity[config]

OffenderAnswered ==
  \A p \in Pids :
    <>[](driver = "up" /\ TerminateOn[config]) /\ []<>Answerable(p)
      => []<>(pc = "terminate" /\ event.pid = p)
=============================================================================
