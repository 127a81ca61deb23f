# A verification of HostGuard

HostGuard is the user-mode side of an endpoint-protection system for Windows: a
service (or console program) that installs and loads the kernel driver
PebMonitor, sends it registry rules, answers its questions about new processes,
and reads its events. The driver's code is not in this repository; the models
contain what HostGuard's use of it shows, marked external in `PROJECT.json`.

This directory holds TLA+ specifications of HostGuard's components, the TLC
configurations that check them on small instances, and TLAPS proofs of the
properties that matter most, for every value of the constants. `PROJECT.json`
lists the runs, maps each definition to the lines it models, and names the
hazards the properties are aimed at.

## 1. The system

| Component | Code | State it keeps | Operations | Model |
|---|---|---|---|---|
| Rule synchronisation and hot reload | HostGuard.cpp:1271-1513, 1809-1846, 2385-2463; DriverUtils.cpp:954-1154, 1241-1289 | active configuration, last state of rules.json, device handles; in the driver two rule lists and a configuration identity | load at start-up, poll, load a candidate, push (batch or one by one), activate or roll back, resynchronise | `RuleSync` |
| Process verdicts | HostGuard.cpp:1576-1755; RuleManager.cpp:340-387, 1234-1290 | per message: what is known of the process, matched rules, reply | receive, complete from the process cache, allow check, evaluation, reply, event | `ProcessVerdict`, `AtomicVerdict` |
| Verdict port | HostGuard.cpp:954-979, 1516-1574, 1804-2020 | connection, completion port, posted receives, workers, broken and cancellation flags, backoff | connect, back off, post, dequeue, handle, repost, declare broken, cancel, join, close | `VerdictPort` |
| Engine and service | HostGuard.cpp:31-40, 107-229, 2385-2534 | two events, threads, exit code, service status, console handler | start, wait, request shutdown, join, unload, report; stop, interrogate, Ctrl events | `ServiceLifecycle`, `MonitorThread` |
| Driver installation | DriverUtils.cpp:35-307, 413-433, 453-952 | the driver's service record, its file, the loaded driver (all outside the process) | ensure a fresh install, install by INF or service, start, stop, remove, unload | `DriverService` |
| Rule compiler | RuleManager.cpp:102-336, 403-1008, 1079-1232 | the configuration that is being loaded, with the rules and the statistics of the lists so far | parse the settings, compile process rules, compile registry rules, give up | `RuleCompiler`; matching in `ProcessVerdict` |
| Driver events, automatic response | HostGuard.cpp:795-953, 2022-2383 | device handle, posted receive and its event, backoff, cooldown history | connect, post, handle an event, decide, reserve an attempt, terminate a process | `DriverEvents` |
| Process cache | HostGuard.cpp:54-72, 666-753 | names, command lines and last sight by process id | insert or complete, prune, look up | `ProcessCache`; its effect on a verdict in `ProcessVerdict` (`Resolved`) |
| Heartbeat | HostGuard.cpp:1757-1802 | a port handle | connect, read | a thread of `ServiceLifecycle` |
| Commands | HostGuard.cpp:1021-1269, 2557-2619 | none | status, terminate, service commands | not modelled |
| Logging | CommonUtils.cpp:56-176, 329-425 | log files, rule context | append, rotate | not modelled |

How they interact:

* `RunProtectionEngine` loads the rules, installs the driver, opens the device,
  pushes the rules once and starts four threads: heartbeat, verdict port, rule
  hot reload and driver events.
* `RuleManager` is the only shared state of the rules. Its lock covers single
  calls. No lock covers a push to the driver, which both the hot-reload thread
  and the verdict-port thread perform, each on a device handle of its own.
* The verdict-port thread has workers on an I/O completion port. They share the
  port, two atomic flags and the contexts, all locals of one connection.
* The process cache is filled by the verdict workers and by the driver-event
  thread, under a lock of its own, and read by the verdict workers. The
  driver-event thread asks `RuleManager` twice while it handles one event.
* The stop event ends every loop. A control handler on a thread of the system
  sets it; the engine creates, resets and closes it.

What is hard in it: pushes of two threads that interleave, and calls that fail
half way through a push; a reload between two halves of a verdict; answers that
come after the driver's time-out; receives that complete with errors whose
meaning is ambiguous, posted while others are cancelled; stops that arrive
before the program can take them; a driver that is slow to stop, a service held
open by others, and a program that is killed in the middle of an installation;
process ids that are reused while requests and events about their former owners
are still under way; a response that is turned off while it is decided; rules
whose parts are each acceptable and whose combination means something else.

What makes each part correct:

* *rules*: the driver holds what HostGuard believes it holds, no reload opens a
  gap, no change of the file is lost;
* *verdicts*: each is the judgement of one configuration in force at one
  instant, and is reported as what the driver did;
* *port*: it keeps its capacity, notices a lost connection, ends on shutdown;
* *engine*: a stop ends it, and the tear-down comes in order;
* *driver*: a load that returns true runs the wanted driver, an unload that
  returns true leaves none, and nothing an interrupted call leaves behind
  blocks the next one;
* *compiler*: a compiled rule means what the rule of the file says, or is left out;
* *events*: none is lost, the channel comes back, nobody is terminated again
  within the cooldown that the history can remember, and nobody escapes for good;
* *cache*: a verdict is decided on data of the processes it is about.

## 2. The modules

### RuleSync

Three threads push configurations with the same routine. An IOCTL is one step of
the driver; everything between two IOCTLs can interleave. A configuration is a
constant with a block list and an allow list (`BlockRules`, `AllowRules`), and
perhaps metadata that the driver refuses (`Oversized`); the
driver's `block`, `allow` and `info` are the lists and identity it was sent. The
actions carry the names of the code's functions. `Hosts` gives several kinds of
computer to one run: drivers with and without batch support, that fail or never
fail, that stop or never stop. History variables (`trusted`, `tainted`, `deferred`) are read by
properties only.

Abstractions: a file state (size and write time) is a counter of changes; JSON
events, log lines and `SetLogRuleContext` are left out; so is the overflow check
on a batch's size; opening the device may fail on a host whose calls may fail;
shutdown belongs to `ServiceLifecycle`.

### ProcessVerdict and AtomicVerdict

The state of a handler is kept per request: where it is, what it knows of the
process, what it decided. The regexes of a rule are, per field, the set of
inputs they match, or `Disabled`. A reload is a single step between any two
steps of a handler, as `ApplyLoadedRules` swaps the configuration under the
lock; the two calls of `RuleManager` are two steps. `AtomicVerdict` is the
abstract specification: a request is judged once, by the configuration in force
at that instant, and settled as judged or by the driver's time-out.
`ProcessVerdict` implements it with the judgement read off `decision`: the step
that decides is the allow check if an allow rule matches, and otherwise the
evaluation, which looks at the allow rules once more under the same lock.

### VerdictPort

One iteration of the monitor thread is one connection. Contexts are
interchangeable, so they are counted by where they are: posted, completed as a
message, failed or cancelled, or lost. Workers are separate processes with a
step at each point where another thread can intervene: the test of the loop, the
dequeue, the handling, the test before the repost, the repost, and the three
steps of `setConnectionBroken`. The error with which a lost port fails its calls
is a constant: the code recognises two. A call on a connection that is up may
fail as well (`CallsMayFail`): a receive, its repost, or the completion port
itself, which then names no context.

### ServiceLifecycle

The engine is a sequence of steps, the control handler another process that the
system starts at any moment: before the events exist, while they are reset,
during the tear-down, after it. Threads are reduced to what the engine needs of
them: they run, and end some time after the stop event is set. The console
handler waits for the completion event for 15 s at most (`waitedOut`) and its
return may terminate the process; without a registered handler, which is so
before its registration, after its removal and when the registration fails, the
system terminates the process at once (`TerminateByDefault`).

`ReportServiceStatus` is not atomic: `g_ServiceStatus` is shared by
`HostGuardServiceMain` and the handler without a lock. Of its fields the state
and the exit code are kept (`record`); each caller writes its own values field by
field, in any order (`todo`), and then passes on what the structure holds
(`told`). The state that an interrogation reports is read before, and the status
handle may be cleared between its test and the call. `SetServiceStatus` reads the
structure in one step, the one thing here that is the system's and not the
program's. `overlapping` is a history variable: the controls whose report was
under way together with that of STOPPED.

### MonitorThread

The abstract specification of what the engine and a thread promise each other:
a thread, once started, ends only after it is asked to stop (or with its
process); the engine starts it once and takes the request back only while it
does not run. `VerdictPort` and `DriverEvents` implement it from the side of the
thread, `ServiceLifecycle` from the side of the engine, for each of its threads.
It has no code of its own. That the thread does end after a stop is a liveness
property of each module (`ShutdownEnds`, `ThreadEnds`) and the assumption
`ServiceLifecycle` makes by the fairness of `ThreadEnds`.

### DriverService

Each call to the service control manager or to SetupAPI is a step that succeeds
or fails; `fault` records that one failed for a reason from outside. Between two
steps the driver may finish stopping, another program may open or close the
service (so a deletion only marks it), and HostGuard may be killed; between two
calls an upgrade may replace HostGuard and its driver. The service names one of
two files, the one next to HostGuard.exe (`"local"`) or the INF's copy
(`"system"`); a file or a loaded image is fresh or old compared with the local
one, which is what the SHA-256 comparison tells. `InstallHinfSectionW` reports
nothing, so what the INF did is a choice. `ConfigureInstance` may succeed
with a failed call, as the code ignores the results of its last two writes. Left
out: another program that stops the driver, the administrator check
(the program runs elevated), reboots, a second HostGuard at the same time.

### RuleCompiler

The content of rules.json is the input, the configuration the result. A step
parses a section of settings or one rule of a list, in the order of
`TryLoadRulesFromJson`, with the difference the code makes between a rule that is
skipped and a file that is given up. A text is a core with or without a wildcard
before and behind it; `Blank` is a core that trimming leaves empty. What the
driver matches with (the driver is external) is a relation between match types,
texts and operations, and the meaning of a rule (`Means`) is stated from its
fields value by value, without classification, expansion or buckets: that is the
reference definition the compiled entries are compared with. Letter case,
trimming and the UTF-8 conversion are left out.

### DriverEvents

The thread has one receive and one event buffer; the model keeps both, the handle
to the driver and the steps of the handler between which others can act: the
metadata is looked up in one configuration and the decision made on the snapshot
of another, the attempt is reserved, the device is opened, the process is
terminated. Time is kept as ages that stop growing at `AgeCap`, where the code
cannot tell them apart any more. `owed` (events delivered and not handled),
`since` (age of the last attempt) and `slips` (attempts since the response was
turned off) are history variables. A driver that stays up is taken to accept the
requests, and the completion port to be created and its waits not to fail; log
lines are left out, and so
is what an observed process leaves in the cache, which `ProcessCache` models.

### ProcessCache

A process is an id and a generation, so that a reused id can be told from the
one before; names and command lines are represented by the generation they
belong to. `HandleProcessVerdictMessage` is reduced to its accesses to the cache,
each under the lock of its own; the driver-event thread adds the processes it is
told of (`CacheObserved`), possibly long after they were started. The tick count
an update is stamped with was read before the lock was taken: `Elapsed` wraps as
the unsigned subtraction does. The image path is stored and never read, and is
left out. The driver (external) holds a process back, and with it its parent,
until the creation is answered or times out; `tainted` records the ids for which
an answer, a report or an event came in another order.

## 3. What the runs check

All runs end with the complete state space of their instance. Deadlock is
checked; a component that has ended stutters explicitly.

| Run | Instance and bounds | Result |
|---|---|---|
| `RuleSync` | 4 configurations (the empty one, `<<r1>>`, `<<r1, r2>>` and different allow lists, so that stale, mixed and partial lists all differ, and one with metadata that the driver refuses after it has taken the lists), 4 kinds of host, 2 to 3 changes of rules.json (one more than a reload and a resynchronisation can overlap), malformed and absent files | `TrustedMeansInSync`, `NoEnforcementGap`, `ReloadsAreCurrent`, `ChangeIsApplied` hold |
| `RuleSyncResync` | the host that never fails | `ResyncRestoresCurrentRules` violated |
| `RuleSyncDeferred` | the failing host | `DeferredUpdateIsSynced` violated |
| `ProcessVerdict` | 3 processes, 2 workers (so one message waits), 2 configurations that disagree about each process, one by a parent unknown to the driver; any number of reloads | `EventsMatchOutcome`, `OneConfigDecides` hold |
| `VerdictPort` | 2 workers, 2 receives each, backoff 500 to 15000 ms, loss reported as ERROR_FLT_DELETING_OBJECT | `CapacityKept`, `LossNoticed`, `WorkersWithinConnection`, `Reconnects`, `ShutdownEnds` hold |
| `VerdictPortLost` | the same, loss reported as ERROR_INVALID_HANDLE | `Reconnects` violated |
| `ServiceLifecycle` | both modes, the four threads, any call may fail | `ThreadsEndBeforeTeardown`, `KilledAfterUnload`, `CleanExitMeansUnloaded`, `EngineEnds`, `ConsoleStopEndsEngine` hold |
| `ServiceLifecycleStopLost` | the same | `StopEndsEngine` violated |
| `DriverService` | no bound: the state space is finite | `CleanLoadIsFresh`, `UnloadedMeansGone`, `FailureHasCause` hold |
| `DriverEvents` | 3 processes and a history of 1 entry (so it overflows, with ties), cooldowns of 0 and 2 ticks against a retention of 1 (so entries are forgotten before their cooldown is over), a configuration with the response off, an exempt process, events with and without a severity; a driver that is up, failing or down | `NoEventLost`, `HistoryBounded`, `OneSlipAfterOff`, `CooldownKept`, `ChannelReturns`, `ThreadEnds`, `OffenderAnswered` hold |
| `ProcessCache` | 2 workers and the event thread; a process, its child, whose id is used twice, and the child's child; a cache of 2 of these 3 entries, a time to live of 1 tick and delays of up to 1 tick before the lock (the least with which an entry can be newer than the clock that prunes it) | `DecidedOnOwnData`, `EvictedForCause` hold |
| `RuleCompiler` | every list of up to 3 of 19 registry rules and up to 2 process rules, 10 texts with all placements of wildcards; at most 3 contains entries, so that single rules and sums of rules exceed it | `RegistryRulesAsDeclared`, `ProcessRulesAsDeclared`, `ContainsLimited`, `EveryRuleCounts` hold |

Each module has a type invariant as well. For every property of a passing run
the module holds a mutant, an operator that changes one definition the way a
plausible bug would, under which TLC finds the property violated.

The four violations are disagreements between the code and what its own
messages, usage text or regression scripts say; `PROJECT.json` quotes both sides:

1. A resynchronisation that overlaps a reload overwrites the newer rules and
   reports that the current ones are restored.
2. An update "put off until the connection is back" is dropped.
3. A port lost with ERROR_INVALID_HANDLE is never reconnected: the same error is
   listed as a cancellation and as a disconnection, and the first test wins.
4. A stop between the report of RUNNING and the reset of the stop event is lost.

Four more observations follow from the models, without a run of their own. A
reload whose push fails at its last call (`SetActiveDriverConfigInfo`, metadata too
long) logs a rollback while the driver keeps the candidate's lists: `RollBack` of
`RuleSync` changes nothing in the driver. And without a service record
`EnsureFresh` of `DriverService` skips the comparison of the hashes, so an INF that
copies nothing leaves an old file to be started. A service may report STOPPED with
NO_ERROR although its driver is still loaded, if an interrogation is answered while
STOPPED is reported, or if a stop comes while a failed start is ending by itself:
the handler's NO_ERROR replaces the exit code in `g_ServiceStatus`
(`CleanExitMeansUnloaded` names these two cases). And a console whose handler could
not be registered leaves the driver behind when it is closed, as the program itself
warns (HostGuard.cpp:2403-2404, `KilledAfterUnload`).

### Fairness

Safety is checked without fairness; the liveness properties assume weak fairness
only of HostGuard's own threads, never of the driver, the console, the service
control manager or whoever edits rules.json.

* `RuleSync!FairSpec`: each of the three threads. They are system threads whose
  waits all have time-outs (a poll, a wait of the backoff), and an IOCTL returns.
* `VerdictPort!FairSpec`: the monitor thread, each worker and the rest of a
  shutdown request. A worker's dequeue waits 500 ms at most; the monitor polls every 200 ms.
* `ServiceLifecycle!FairSpec`: the engine, the handler and each thread. That a
  thread ends after the stop event is an assumption here; `VerdictPort` checks
  it for the hardest of them (`ShutdownEnds`), `DriverEvents` for another
  (`ThreadEnds`).
* `DriverEvents!FairSpec`: the thread, the clock, and a shutdown that has begun.
  The thread's waits end after a second or the backoff at the latest, and the
  handler's calls return. `OffenderAnswered` needs time to pass: a cooldown ends.
  The driver and its events are without fairness: the property supposes that the
  process goes on being reported.

`ChangeIsApplied` is stated for a host where no call fails and the driver does
not stop, and for a configuration whose metadata the driver takes, as the code
drops a change whose push fails (finding 2).

## 4. What is proved

TLAPS proves the following for every value of the constants, under the
assumptions the modules name. `ConstantsAssumption` and `HostsAssumption` only give
the constants their types. `DocumentsAssumption` of `RuleCompiler` also says that a
field of a rule has finitely many values, as a JSON array has. Every safety
property a passing run checks, invariant or action property, is stated by a theorem.

* `RuleSyncProofs`: `TypeCorrect`, `TrustedPushes` (Spec => []TrustedMeansInSync),
  `ReloadsWithoutGap` (NoEnforcementGap, an action property: a driver that
  takes whole lists is never pushed to rule by rule) and `NoChangeIsLost`
  (ReloadsAreCurrent, the safety half of `ChangeIsApplied`, on every host: what a
  reload activates is the content of the file unless the file has changed since
  the watcher looked; its invariant `Watched` carries that from the query over
  the load to each step of the push).
  The invariant of the first says of each push that is alone so far how much of the driver is
  already what it carries (`Progress`: after the block list, after the allow
  list, after each rule that is added one by one, where the driver's list and
  the rules still to add concatenate to the configuration's list). A second push
  taints both, so at most one untainted push exists (`Alone`), and while one is
  under way the active configuration is what it pushes, or will become it
  (`Current`). `TrustedMeansInSync` alone is not inductive: it says nothing of a
  push that has not returned yet.
* `ProcessVerdictProofs`: `VerdictTypeCorrect`, `EventsAgree`
  (EventsMatchOutcome), and the refinement `JudgedByOneConfig`
  (Spec => Atomic!Spec), step by step: the deciding step of a handler is the
  abstract judgement, a reply that arrives in time is the abstract settlement,
  everything else stutters. The invariant `Ordered` relates a request's place to
  its decision, its outcome and its event.
* `ServiceLifecycleProofs`: `LifecycleTypeCorrect`, `ThreadsEndFirst`,
  `KilledLate` and `CleanExits` (Spec => []CleanExitMeansUnloaded), for any set of
  threads. The invariant adds when the events exist, when the console handler can
  run and is registered, that threads run only between their start and the join,
  and what the engine has tried once it reports. A second one, `ReportInv`, is
  behind `CleanExits`: the handler reports a stop before it sets the stop event
  (`StopIsReportedFirst`), so the stop that ends a running engine has been told
  before STOPPED is begun; hence, if nothing overlaps, no field but that of
  `HostGuardServiceMain` is written after it has begun, and what is told is its
  exit code (`ExitCodeIsTold`). `EngineKeepsThreads` shows, for each thread, that the
  engine implements `MonitorThread`: the reset of the stop event comes before the
  threads are started and its closing after they have ended (`NotStarted`, and
  the invariant's part on when threads run).
* `DriverServiceProofs`: `DriverTypeCorrect`, `CleanLoads`, `UnloadsComplete` and
  `FailuresHaveCauses`. The module has no constants and TLC covers all of its
  states; the proof shows why they hold. Its invariant says which steps follow a
  stop of the driver (`StopsFirst`), that a running driver's service is there to
  stay (`RunsWithService`), and what a call without a failure has in place when
  it comes to start the driver (`ReadyToStart`).

* `VerdictPortProofs`: `PortTypeCorrect`, `WorkersStayWithin`, `NoContextTwice`,
  `KeepsCapacity`, `LossesNoticed` (LossNoticed) and the refinement `PortIsThread`
  (Spec => Monitor!Spec), for any number of workers and receives. `NoContextTwice`
  counts the contexts from the first receive to the end of a connection: posted,
  completed, cancelled, dropped and the workers that hold one (`Holding`) always
  add up to what the connection started with. The invariant behind `KeepsCapacity` says
  who can cancel a receive: `RequestShutdown` only after it has set the stop event
  (`ShutdownStops`), and otherwise the worker that breaks the connection, which
  raises the flag before (`BrokenFirst`); so a connection that is neither broken
  nor stopped still has every receive it started with (`NothingLostYet`).
  With the count, and no receive left posted on a connection that is down
  (`PostedUp`), the worker or the receive that `LossNoticed` asks for must exist.
  `KeepsCapacity` and `LossesNoticed` assume what the run chooses: that the error of
  a lost port does not count as a cancellation. Without the assumption they are
  false (finding 3).
* `DriverEventsProofs`: `EventsTypeCorrect`, `EventsHandled` (NoEventLost),
  `HistoryStaysBounded`, `SlipsBounded` (OneSlipAfterOff), `CooldownObserved`
  (CooldownKept, an action property), `RefusalsHaveCause` (a process is let off
  only within the cooldown of an attempt on it: the safety half of
  `OffenderAnswered`) and the refinement `EventsAreThread` of `MonitorThread`, for any
  processes, configurations, retention and limit. `OwedHeld` says that what is owed is the event in the buffer, at each
  place of the thread. `Remembered` says what the history knows: the age of the
  last attempt on each process, or else that attempt is past the retention
  or has as many attempts no older than it as the history holds. That survives
  the passing of time (ages keep their order), an attempt on another process,
  and pruning, which takes expired entries and then only entries that are no
  newer than the ones it leaves (`KeptFacts`, `PrunedIsForgotten`).

* `ProcessCacheProofs`: `CacheTypeCorrect` (with the limit of the cache),
  `EntriesEvictedForCause` and `VerdictsOnOwnData` (DecidedOnOwnData), for any
  threads, ids, reports and limits. The invariant of the last says, of the ids
  that are not tainted, that the child of a request does not run and its parent
  does (`ChildKnown`, `ParentKnown`), that the event being handled is about the
  process that has the id (`ObservedKnown`), and that an entry holds nothing of
  an earlier process unless the request that replaces it is under way
  (`EntriesKnown`). `DecidedOnOwnData` speaks of the end of a request only and is
  not inductive: what the cache holds for the next request has to be known too.
* `RuleCompilerProofs`: `CompilerTypeCorrect`, `RegistryRulesCompiled`,
  `ProcessRulesCompiled`, `ContainsBounded` (ContainsLimited) and `FilesReadWhole`
  (EveryRuleCounts), for any documents, texts and inputs of the shape that
  `TextsAssumption` and `DocumentsAssumption` name. `RuleMeans` shows that what one
  rule expands to hits what the rule means, field by field (`FieldMeans`: all
  values of a field are of one class, so the class of the field is that of the
  value); `InOrder` says that the rules accepted so far come from the list, in its
  order, and that only lists that have been reached have any. `ContainsBounded`
  compares a statistic that is added up rule by rule with the number of entries
  that are there: `Counts` says that it is the cardinality of the list's entries of that
  match type (`OfClass`). The entries an accepted rule adds are disjoint from the
  earlier ones because each carries the place of its rule, so the sums agree
  without induction over the list. `Covered` is behind `FilesReadWhole`: at each stage, the lists that
  have been passed are compiled in full, and the one at work is up to the rule
  that comes next.

Only model-checked: the liveness properties (`ChangeIsApplied`, `Reconnects`,
`ShutdownEnds`, `EngineEnds`, `ConsoleStopEndsEngine`, `ChannelReturns`, `ThreadEnds`,
`OffenderAnswered`), as liveness under fairness and ENABLED are out of the reach of
the provers used here. Of three of them the safety half is proved
(`ReloadsAreCurrent`, `LossNoticed`, `RefusalsHaveCause`). The findings are
counterexamples of TLC.

## 5. The plan

Done: the modules above, in the order of their weight: the rules and the
verdicts, which are what the product is for, then the port, the engine and the
driver they depend on, then the compiler, the events and the cache. Left:

1. A composition of `VerdictPort` and `DriverEvents` with `ServiceLifecycle`, in
   which a thread's end is that of its loop instead of an assumption. Its safety
   half is done by `MonitorThread`; what is left is the end itself, a liveness
   property.
2. Two HostGuards on one host, a console beside the service: both push rules and
   install or unload the driver (a hazard no property covers).

Not modelled, and not planned:

* Logging and log rotation. Each operation is a call on the file system whose
  outcome the code ignores; what the files then hold depends on the file system
  and on the other processes that write them, of which the code shows nothing.
* The wording and layout of logs and events (most of `HandleDriverEventPayload`
  and of the verdict's report), and the one-shot commands.
* The heartbeat thread: a loop that connects, reads and logs; its reaction to the
  stop event is a thread of `ServiceLifecycle`.
* The installation of HostGuard's own service, calls of the kind `DriverService`
  covers, and the PowerShell scripts.
