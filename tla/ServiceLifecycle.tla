-------------------------- MODULE ServiceLifecycle --------------------------
(***************************************************************************)
(* How HostGuard starts and stops (HostGuard.cpp): RunProtectionEngine,    *)
(* run by HostGuardServiceMain or by wmain on a console, and the handler   *)
(* that the system runs on a thread of its own when it wants the program   *)
(* to stop (ServiceControlHandlerEx or ConsoleCtrlHandler).  They share    *)
(* two events, which the engine creates, resets and finally closes, and    *)
(* g_ServiceStatus, which both write field by field, without a lock, before *)
(* they pass it to the service control manager.  Of its fields the state    *)
(* and the exit code are kept; the others show the progress of the state.   *)
(***************************************************************************)
CONSTANTS
  Modes,          \* ways to run the program: "service", "console"
  WorkerThreads,  \* the threads the engine starts
  StartMayFail,   \* a handler may not be registered, the events not created
  DriverMayFail   \* loading, opening or unloading the driver may fail

ASSUME ConstantsAssumption ==
  /\ Modes \subseteq {"service", "console"}
  /\ StartMayFail \in BOOLEAN
  /\ DriverMayFail \in BOOLEAN

VARIABLES
  mode,          \* how the program runs, chosen once
  epc,           \* where the engine is
  exitCode,      \* its exit code
  stopEvent,     \* g_StopEvent
  completeEvent, \* g_ShutdownCompleteEvent
  ctrlHandler,   \* ConsoleCtrlHandler: "none" so far, "registered", "failed"
                 \* to be registered, or "removed"
  tpc,           \* each worker thread
  driver,        \* PebMonitor
  record,        \* g_ServiceStatus
  todo,          \* the fields that each caller of ReportServiceStatus has yet
                 \* to write
  told,          \* what SetServiceStatus passed on last
  overlapping,   \* history: the controls whose report and that of STOPPED
                 \* were under way together
  hpc,           \* where the handler is
  seenStatus,    \* the state that the handler reports
  waitedOut      \* the console handler waited its 15 s

engine == <<epc, exitCode>>
events == <<stopEvent, completeEvent>>
reported == <<record, todo, told, overlapping>>
handler == <<hpc, seenStatus, waitedOut>>
vars == <<mode, engine, events, ctrlHandler, tpc, driver, reported, handler>>

Fields == {"state", "exit"}
States == {"none", "running", "stopPending", "stopped"}
Status(state, exit) == [state |-> state, exit |-> exit]

TypeOK ==
  /\ mode \in Modes
  /\ epc \in {"starting", "create", "reset", "load", "open", "spawn", "wait",
              "request", "join", "unload", "complete", "close", "report",
              "tell", "clear", "ended", "killed"}
  /\ exitCode \in {0, 1}
  /\ stopEvent \in {"null", "clear", "set"}
  /\ completeEvent \in {"null", "clear", "set"}
  /\ stopEvent = "null" <=> completeEvent = "null"
  /\ ctrlHandler \in {"none", "registered", "failed", "removed"}
  /\ tpc \in [WorkerThreads -> {"none", "running", "ended"}]
  /\ driver \in {"absent", "loaded"}
  /\ record \in [state : States, exit : {0, 1}]
  /\ todo \in [{"main", "handler"} -> SUBSET Fields]
  /\ told \in [state : States, exit : {0, 1}]
  /\ overlapping \subseteq {"stop", "interrogate"}
  /\ hpc \in {"idle", "stop", "tellStop", "interrogate", "tellAgain", "set", "await"}
  /\ seenStatus \in States
  /\ waitedOut \in BOOLEAN

\* The driver may still be there from an earlier run.
Init ==
  /\ mode \in Modes
  /\ epc = IF mode = "service" THEN "starting" ELSE "create"
  /\ exitCode = 0
  /\ stopEvent = "null" /\ completeEvent = "null"
  /\ ctrlHandler = "none"
  /\ tpc = [t \in WorkerThreads |-> "none"]
  /\ driver \in {"absent", "loaded"}
  /\ record = Status("none", 0) /\ told = Status("none", 0)
  /\ todo = [c \in {"main", "handler"} |-> {}] /\ overlapping = {}
  /\ hpc = "idle" /\ seenStatus = "none" /\ waitedOut = FALSE

Goto(label) == epc' = label
Set(e) == IF e = "null" THEN "null" ELSE "set"

-----------------------------------------------------------------------------
(* ReportServiceStatus, called by HostGuardServiceMain and by the handler.  *)

\* What a caller reports: HostGuardServiceMain that it has STOPPED, the handler
\* NO_ERROR always.
Argument(caller) ==
  IF caller = "main" THEN Status("stopped", exitCode) ELSE Status(seenStatus, 0)

\* The fields of g_ServiceStatus are plain variables: nothing orders them, and
\* nothing keeps the other caller from writing its own in between.
WriteField(caller) ==
  \E f \in todo[caller] :
    /\ record' = [record EXCEPT ![f] = Argument(caller)[f]]
    /\ todo' = [todo EXCEPT ![caller] = @ \ {f}]
    /\ UNCHANGED <<told, overlapping>>

\* SetServiceStatus, once the caller has written all fields.
SetServiceStatus(caller) ==
  /\ todo[caller] = {}
  /\ told' = record
  /\ UNCHANGED <<record, todo, overlapping>>

-----------------------------------------------------------------------------
(* The engine.                                                             *)

\* HostGuardServiceMain reports START_PENDING and, at once, RUNNING.  Nobody
\* else reports before: no control is sent to a service that has not started.
ReportRunning ==
  /\ epc = "starting"
  /\ record' = Status("running", 0) /\ told' = record'
  /\ Goto("create")
  /\ UNCHANGED <<mode, exitCode, events, ctrlHandler, tpc, driver, todo, overlapping,
                 handler>>

\* Without a control handler the service is not run at all.
RegisterFails ==
  /\ epc = "starting"
  /\ StartMayFail
  /\ Goto("ended")
  /\ UNCHANGED <<mode, exitCode, events, ctrlHandler, tpc, driver, reported, handler>>

\* EnsureRuntimeEvents creates the events,
CreateEvents ==
  /\ epc = "create"
  /\ \/ /\ stopEvent' = "clear" /\ completeEvent' = "clear"
        /\ Goto("reset")
        /\ UNCHANGED exitCode
     \/ /\ StartMayFail
        /\ exitCode' = 1
        /\ Goto("report")
        /\ UNCHANGED events
  /\ UNCHANGED <<mode, ctrlHandler, tpc, driver, reported, handler>>

\* and then resets both.  On a console the handler is registered next; when
\* that fails the program runs without it.
ResetEvents ==
  /\ epc = "reset"
  /\ stopEvent' = "clear" /\ completeEvent' = "clear"
  /\ \/ mode = "service" /\ UNCHANGED ctrlHandler
     \/ mode = "console" /\ ctrlHandler' = "registered"
     \/ mode = "console" /\ StartMayFail /\ ctrlHandler' = "failed"
  /\ Goto("load")
  /\ UNCHANGED <<mode, exitCode, tpc, driver, reported, handler>>

\* LoadKernelDriver.  It may stop and remove a driver that was there before it
\* fails, and a failure is only logged.
LoadDriver ==
  /\ epc = "load"
  /\ driver' \in IF DriverMayFail THEN {"loaded", "absent", driver} ELSE {"loaded"}
  /\ Goto("open")
  /\ UNCHANGED <<mode, exitCode, events, ctrlHandler, tpc, reported, handler>>

\* OpenDriverDevice; without the device the engine goes to Cleanup.
OpenDevice ==
  /\ epc = "open"
  /\ \/ driver = "loaded" /\ Goto("spawn") /\ UNCHANGED exitCode
     \/ /\ driver = "absent" \/ DriverMayFail
        /\ exitCode' = 1
        /\ Goto("request")
  /\ UNCHANGED <<mode, events, ctrlHandler, tpc, driver, reported, handler>>

\* The initial push (RuleSync) and the threads.
SpawnThreads ==
  /\ epc = "spawn"
  /\ tpc' = [t \in WorkerThreads |-> "running"]
  /\ Goto("wait")
  /\ UNCHANGED <<mode, exitCode, events, ctrlHandler, driver, reported, handler>>

\* while (!WaitForShutdown(1000)).
WaitForShutdown ==
  /\ epc = "wait"
  /\ stopEvent = "set"
  /\ Goto("request")
  /\ UNCHANGED <<mode, exitCode, events, ctrlHandler, tpc, driver, reported, handler>>

\* The wait times out after a second and starts again.
WaitTimesOut ==
  /\ epc = "wait"
  /\ stopEvent # "set"
  /\ UNCHANGED vars

\* Cleanup calls RequestShutdown, too, for a start that failed.
RequestShutdown ==
  /\ epc = "request"
  /\ stopEvent' = Set(stopEvent)
  /\ Goto("join")
  /\ UNCHANGED <<mode, exitCode, completeEvent, ctrlHandler, tpc, driver,
                 reported, handler>>

\* Mutant: the console handler is released before the driver is unloaded.
JoinAndSignal ==
  /\ epc = "join"
  /\ \A t \in WorkerThreads : tpc[t] # "running"
  /\ completeEvent' = "set"
  /\ Goto("unload")
  /\ UNCHANGED <<mode, exitCode, stopEvent, ctrlHandler, tpc, driver,
                 reported, handler>>

\* Mutant: one thread is not joined.
JoinAllButOne ==
  /\ epc = "join"
  /\ \E u \in WorkerThreads : \A t \in WorkerThreads \ {u} : tpc[t] # "running"
  /\ Goto("unload")
  /\ UNCHANGED <<mode, exitCode, events, ctrlHandler, tpc, driver, reported, handler>>

JoinThreads ==
  /\ epc = "join"
  /\ \A t \in WorkerThreads : tpc[t] # "running"
  /\ Goto("unload")
  /\ UNCHANGED <<mode, exitCode, events, ctrlHandler, tpc, driver, reported, handler>>

\* Mutant: a driver that stays is not reflected in the exit code.
UnloadIgnoringFailure ==
  /\ epc = "unload"
  /\ driver' = "absent" \/ (DriverMayFail /\ UNCHANGED driver)
  /\ Goto("complete")
  /\ UNCHANGED <<mode, exitCode, events, ctrlHandler, tpc, reported, handler>>

\* UnloadKernelDriver, also of a driver whose device did not open.
UnloadKernelDriver ==
  /\ epc = "unload"
  /\ \/ driver' = "absent" /\ UNCHANGED exitCode
     \/ DriverMayFail /\ exitCode' = 1 /\ UNCHANGED driver
  /\ Goto("complete")
  /\ UNCHANGED <<mode, events, ctrlHandler, tpc, reported, handler>>

\* g_ShutdownCompleteEvent is set and the console handler, if any, unregistered.
SignalComplete ==
  /\ epc = "complete"
  /\ completeEvent' = "set"
  /\ ctrlHandler' = IF ctrlHandler = "registered" THEN "removed" ELSE ctrlHandler
  /\ Goto("close")
  /\ UNCHANGED <<mode, exitCode, stopEvent, tpc, driver, reported, handler>>

\* Mutant: one of the events is kept.
CloseStopEvent ==
  /\ epc = "close"
  /\ stopEvent' = "null"
  /\ Goto("report")
  /\ UNCHANGED <<mode, exitCode, completeEvent, ctrlHandler, tpc, driver,
                 reported, handler>>

\* CleanupRuntimeEvents.
CloseEvents ==
  /\ epc = "close"
  /\ stopEvent' = "null" /\ completeEvent' = "null"
  /\ Goto("report")
  /\ UNCHANGED <<mode, exitCode, ctrlHandler, tpc, driver, reported, handler>>

\* The control that the handler is reporting.
Reporting ==
  CASE hpc = "tellStop" -> {"stop"} [] hpc = "tellAgain" -> {"interrogate"}
    [] OTHER -> {}

\* A console has nothing to report; HostGuardServiceMain begins to report
\* STOPPED with the exit code,
BeginStopped ==
  /\ epc = "report"
  /\ \/ mode = "console" /\ Goto("clear") /\ UNCHANGED reported
     \/ /\ mode = "service"
        /\ Goto("tell")
        /\ todo' = [todo EXCEPT !["main"] = Fields]
        /\ overlapping' = overlapping \cup Reporting
        /\ UNCHANGED <<record, told>>
  /\ UNCHANGED <<mode, exitCode, events, ctrlHandler, tpc, driver, handler>>

WriteStopped ==
  /\ epc = "tell"
  /\ WriteField("main")
  /\ UNCHANGED <<mode, engine, events, ctrlHandler, tpc, driver, handler>>

ReportStopped ==
  /\ epc = "tell"
  /\ SetServiceStatus("main")
  /\ Goto("clear")
  /\ UNCHANGED <<mode, exitCode, events, ctrlHandler, tpc, driver, handler>>

\* and clears g_ServiceStatusHandle; no report is begun afterwards.
ClearStatusHandle ==
  /\ epc = "clear"
  /\ Goto("ended")
  /\ UNCHANGED <<mode, exitCode, events, ctrlHandler, tpc, driver, reported, handler>>

-----------------------------------------------------------------------------
(* A worker thread: HeartbeatMonitorThread, ProcessVerdictMonitorThread    *)
(* (VerdictPort), RulesHotReloadThread (RuleSync), DriverEventMonitorThread. *)

\* Mutant: the thread does not look at the event.
NeverEnds(t) == FALSE /\ UNCHANGED vars

\* Every wait of a thread ends when the stop event is set, and so does it.
ThreadEnds(t) ==
  /\ tpc[t] = "running"
  /\ stopEvent = "set"
  /\ tpc' = [tpc EXCEPT ![t] = "ended"]
  /\ UNCHANGED <<mode, engine, events, ctrlHandler, driver, reported, handler>>

-----------------------------------------------------------------------------
(* The handler.  The system runs one control at a time.                    *)

\* The service control manager sends SERVICE_CONTROL_STOP or _SHUTDOWN to a
\* service that accepts it, that is, one that has reported RUNNING,
SendStop ==
  /\ mode = "service"
  /\ hpc = "idle" /\ told.state = "running"
  /\ hpc' = "stop"
  /\ UNCHANGED <<mode, engine, events, ctrlHandler, tpc, driver, reported, seenStatus,
                 waitedOut>>

\* and SERVICE_CONTROL_INTERROGATE to one that has not reported STOPPED; that it
\* is sent to a service that is stopping is not excluded.
SendInterrogate ==
  /\ mode = "service"
  /\ hpc = "idle" /\ told.state \in {"running", "stopPending"}
  /\ hpc' = "interrogate"
  /\ UNCHANGED <<mode, engine, events, ctrlHandler, tpc, driver, reported, seenStatus,
                 waitedOut>>

\* The handler begins to report a state, unless there is no status handle.
BeginReport(state, control, reporting, unreported) ==
  IF epc = "ended"
  THEN hpc' = unreported /\ UNCHANGED <<seenStatus, reported>>
  ELSE /\ hpc' = reporting
       /\ seenStatus' = state
       /\ todo' = [todo EXCEPT !["handler"] = Fields]
       /\ overlapping' = IF epc \in {"tell", "clear"} THEN overlapping \cup {control}
                                                      ELSE overlapping
       /\ UNCHANGED <<record, told>>

\* ReportServiceStatus(SERVICE_STOP_PENDING, NO_ERROR, 15000).
ReportStopPending ==
  /\ hpc = "stop"
  /\ BeginReport("stopPending", "stop", "tellStop", "set")
  /\ UNCHANGED <<mode, engine, events, ctrlHandler, tpc, driver, waitedOut>>

\* An interrogation reports the state it finds in g_ServiceStatus.
Interrogate ==
  /\ hpc = "interrogate"
  /\ BeginReport(record.state, "interrogate", "tellAgain", "idle")
  /\ UNCHANGED <<mode, engine, events, ctrlHandler, tpc, driver, waitedOut>>

WriteFromHandler ==
  /\ hpc \in {"tellStop", "tellAgain"}
  /\ WriteField("handler")
  /\ UNCHANGED <<mode, engine, events, ctrlHandler, tpc, driver, handler>>

\* The status handle may be cleared after it was tested: the report is lost
\* then, unless the call is made with the value that was read for the test.
ReportFromHandler ==
  /\ hpc \in {"tellStop", "tellAgain"}
  /\ \/ SetServiceStatus("handler")
     \/ epc = "ended" /\ todo["handler"] = {} /\ UNCHANGED reported
  /\ hpc' = IF hpc = "tellStop" THEN "set" ELSE "idle"
  /\ seenStatus' = "none"
  /\ UNCHANGED <<mode, engine, events, ctrlHandler, tpc, driver, waitedOut>>

\* The console sends a control event to the handler.
SendCtrlEvent ==
  /\ mode = "console" /\ epc # "killed"
  /\ hpc = "idle" /\ ctrlHandler = "registered"
  /\ hpc' = "set"
  /\ UNCHANGED <<mode, engine, events, ctrlHandler, tpc, driver, reported, seenStatus,
                 waitedOut>>

\* Without a handler the system terminates the process at once.
TerminateByDefault ==
  /\ mode = "console" /\ epc \notin {"ended", "killed"}
  /\ ctrlHandler # "registered"
  /\ Goto("killed")
  /\ tpc' = [t \in WorkerThreads |-> "ended"]
  /\ hpc' = "idle"
  /\ UNCHANGED <<mode, exitCode, events, ctrlHandler, driver, reported, seenStatus,
                 waitedOut>>

\* The handler's RequestShutdown does nothing while there is no event.
HandlerRequestsShutdown ==
  /\ hpc = "set"
  /\ stopEvent' = Set(stopEvent)
  /\ hpc' = IF mode = "service" THEN "idle" ELSE "await"
  /\ UNCHANGED <<mode, engine, completeEvent, ctrlHandler, tpc, driver, reported,
                 seenStatus, waitedOut>>

\* The console handler waits for the engine, but no longer than 15 s; it does
\* not wait for an event that is closed.
HandlerStopsWaiting ==
  /\ hpc = "await"
  /\ waitedOut' = (waitedOut \/ completeEvent = "clear")
  /\ hpc' = "idle"
  /\ UNCHANGED <<mode, events, ctrlHandler, driver, reported, seenStatus, exitCode>>

\* After Ctrl+C the program goes on;
ReturnToConsole ==
  /\ HandlerStopsWaiting
  /\ UNCHANGED <<epc, tpc>>

\* if the console was closed, or the user logs off, the system terminates the
\* process when the handler returns.
ReturnAndDie ==
  /\ HandlerStopsWaiting
  /\ Goto("killed")
  /\ tpc' = [t \in WorkerThreads |-> "ended"]

-----------------------------------------------------------------------------
Engine ==
  \/ RegisterFails \/ ReportRunning \/ CreateEvents \/ ResetEvents \/ LoadDriver
  \/ OpenDevice
  \/ SpawnThreads \/ WaitForShutdown \/ RequestShutdown \/ JoinThreads
  \/ UnloadKernelDriver \/ SignalComplete \/ CloseEvents
  \/ BeginStopped \/ WriteStopped \/ ReportStopped \/ ClearStatusHandle

Handler ==
  \/ ReportStopPending \/ Interrogate \/ WriteFromHandler \/ ReportFromHandler
  \/ HandlerRequestsShutdown
  \/ ReturnToConsole \/ ReturnAndDie

Ended == epc \in {"ended", "killed"} /\ UNCHANGED vars

Next ==
  \/ Engine \/ WaitTimesOut
  \/ Handler \/ SendStop \/ SendInterrogate \/ SendCtrlEvent \/ TerminateByDefault
  \/ \E t \in WorkerThreads : ThreadEnds(t)
  \/ Ended

Spec == Init /\ [][Next]_vars

\* The engine, its threads and the handler are scheduled.
FairSpec ==
  /\ Spec
  /\ WF_vars(Engine)
  /\ WF_vars(Handler)
  /\ \A t \in WorkerThreads : WF_vars(ThreadEnds(t))

-----------------------------------------------------------------------------
(* Properties.                                                             *)

\* No thread is left when the driver is unloaded and the events are closed:
\* none of them can use a device, a port or an event that is gone.
ThreadsEndBeforeTeardown ==
  epc \in {"unload", "complete", "close", "report", "tell", "clear", "ended"} =>
    \A t \in WorkerThreads : tpc[t] # "running"

\* A service that reports STOPPED with NO_ERROR has unloaded the driver, unless
\* the handler's NO_ERROR has replaced the exit code in g_ServiceStatus.  That
\* takes an interrogation that is answered while STOPPED is reported, or a stop
\* that comes while a start that failed ends by itself: the stop that ends a
\* running engine is reported before the stop event is set (203-204), so it
\* never disturbs the report that follows it.
CleanExitMeansUnloaded ==
  told = Status("stopped", 0) /\ driver = "loaded" =>
    \/ "interrogate" \in overlapping
    \/ "stop" \in overlapping /\ \A t \in WorkerThreads : tpc[t] = "none"

\* A console that is closed does not leave the driver behind, once the engine is
\* past the registration of its handler and the registration has not failed (of
\* which 2404 warns), unless the driver could not be unloaded, or the shutdown
\* takes longer than the handler may wait.
KilledAfterUnload ==
  epc = "killed" /\ ctrlHandler \in {"registered", "removed"} /\ ~waitedOut
    => driver = "absent" \/ exitCode = 1

\* Once the stop event is set on an initialised engine, the engine ends,
\* wherever it is and whichever of its calls fail.
EngineEnds ==
  stopEvent = "set" /\ epc \notin {"create", "reset"} ~> epc \in {"ended", "killed"}

\* A stop that the handler was asked for ends the engine (HostGuard.cpp:2603:
\* "HostGuard.exe stop         停止 HostGuard 服务").
StopEndsEngine == hpc = "set" ~> epc \in {"ended", "killed"}

\* On a console it does: the handler is registered after the events are reset.
ConsoleStopEndsEngine ==
  mode = "console" /\ hpc = "set" ~> epc \in {"ended", "killed"}
=============================================================================
