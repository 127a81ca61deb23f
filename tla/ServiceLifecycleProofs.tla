----------------------- MODULE ServiceLifecycleProofs -----------------------
(***************************************************************************)
(* Proofs about ServiceLifecycle, for any set of worker threads, either    *)
(* way to run the program, and whichever of its calls may fail.            *)
(***************************************************************************)
EXTENDS ServiceLifecycle, TLAPS

\* The events exist from CreateEvents to CloseEvents, and the engine sets
\* g_ShutdownCompleteEvent just before it closes both.
EventsExist ==
  /\ epc \in {"reset", "load", "open", "spawn", "wait", "request", "join",
              "unload", "complete", "close"} => stopEvent # "null"
  /\ completeEvent = "set" => epc \in {"close", "killed"}

\* A worker thread runs only between SpawnThreads and JoinThreads.
ThreadsAreJoined ==
  \A t \in WorkerThreads :
    tpc[t] = "running" => epc \in {"wait", "request", "join"}

\* What the engine has done with the driver when it has tried to unload it.  A
\* service that could not register its handler ends without trying, and without
\* a report.
UnloadAttempted ==
  /\ epc \in {"complete", "close", "report", "tell", "clear", "ended"} =>
       \/ driver = "absent" \/ exitCode = 1
       \/ mode = "service" /\ epc = "ended" /\ told.state = "none"
  /\ epc = "starting" => mode = "service" /\ told.state = "none"

\* The console handler is registered when the events are there, and removed when
\* the driver has been dealt with.
ConsoleHandler ==
  /\ ctrlHandler # "none" \/ hpc = "await" \/ (mode = "console" /\ hpc # "idle") =>
       mode = "console" /\ epc \notin {"starting", "create", "reset"}
  /\ ctrlHandler = "removed" =>
       /\ epc \in {"close", "report", "tell", "clear", "ended", "killed"}
       /\ driver = "absent" \/ exitCode = 1

\* Who reports, and when: HostGuardServiceMain at its end, the handler of a
\* service that has reported RUNNING.
Reporters ==
  /\ todo["main"] # {} => epc = "tell"
  /\ epc = "tell" => mode = "service"
  /\ todo["handler"] # {} => hpc \in {"tellStop", "tellAgain"}
  /\ hpc \in {"stop", "tellStop", "interrogate", "tellAgain"} => mode = "service"
  /\ mode = "service" /\ hpc # "idle" => told.state # "none"
  /\ mode = "console" => told.state = "none"
  /\ told.state # "none" => record.state # "none"
  /\ hpc = "tellStop" => seenStatus = "stopPending"
  /\ hpc = "tellAgain" => seenStatus # "none"

\* Nothing runs in a terminated process.
KilledIsEnd == epc = "killed" => mode = "console" /\ hpc = "idle"

\* No thread is there before SpawnThreads.
NotStarted ==
  epc \in {"starting", "create", "reset", "load", "open", "spawn"} =>
    \A t \in WorkerThreads : tpc[t] = "none"

Inv ==
  /\ TypeOK
  /\ EventsExist
  /\ ThreadsAreJoined
  /\ UnloadAttempted
  /\ ConsoleHandler
  /\ Reporters
  /\ KilledIsEnd
  /\ KilledAfterUnload
  /\ NotStarted

-----------------------------------------------------------------------------
\* Every step of the engine, of the handler, of a thread and of the system keeps
\* the inductive invariant.
LEMMA InvariantStep == Inv /\ [Next]_vars => Inv'
<1> SUFFICES ASSUME Inv, [Next]_vars PROVE Inv'
  OBVIOUS
<1> USE ConstantsAssumption
    DEF Inv, EventsExist, UnloadAttempted, ConsoleHandler, Reporters, KilledIsEnd,
        KilledAfterUnload, NotStarted, TypeOK, ThreadsAreJoined, Fields, States,
        Status, engine, events, reported, handler, Goto
<1>1. CASE RegisterFails
  BY <1>1 DEF RegisterFails
<1>2. CASE ReportRunning
  BY <1>2 DEF ReportRunning
<1>3. CASE CreateEvents
  BY <1>3 DEF CreateEvents
<1>4. CASE ResetEvents
  BY <1>4 DEF ResetEvents
<1>5. CASE LoadDriver
  BY <1>5 DEF LoadDriver
<1>6. CASE OpenDevice
  BY <1>6 DEF OpenDevice
<1>7. CASE SpawnThreads
  BY <1>7 DEF SpawnThreads
<1>8. CASE WaitForShutdown
  BY <1>8 DEF WaitForShutdown
<1>9. CASE WaitTimesOut
  BY <1>9 DEF WaitTimesOut, vars
<1>10. CASE RequestShutdown
  BY <1>10 DEF RequestShutdown, Set
<1>11. CASE JoinThreads
  BY <1>11 DEF JoinThreads
<1>12. CASE UnloadKernelDriver
  BY <1>12 DEF UnloadKernelDriver
<1>13. CASE SignalComplete
  BY <1>13 DEF SignalComplete
<1>14. CASE CloseEvents
  BY <1>14 DEF CloseEvents
<1>15. CASE BeginStopped
  BY <1>15 DEF BeginStopped, Reporting
<1>16. CASE WriteStopped
  BY <1>16 DEF WriteStopped, WriteField, Argument, Status
<1>17. CASE ReportStopped
  BY <1>17 DEF ReportStopped, SetServiceStatus
<1>18. CASE ClearStatusHandle
  BY <1>18 DEF ClearStatusHandle
<1>19. CASE ReportStopPending
  <2> USE <1>19 DEF ReportStopPending, BeginReport
  <2>1. TypeOK'
    <3>1. todo' \in [{"main", "handler"} -> SUBSET Fields]
      OBVIOUS
    <3>2. overlapping' \subseteq {"stop", "interrogate"}
      OBVIOUS
    <3>3. seenStatus' \in States /\ hpc' \in {"tellStop", "tellAgain", "set", "idle"}
      OBVIOUS
    <3>4. record' = record /\ told' = told
      OBVIOUS
    <3> QED
      BY <3>1, <3>2, <3>3, <3>4
  <2>2. EventsExist'
    OBVIOUS
  <2>3. ThreadsAreJoined'
    OBVIOUS
  <2>4. UnloadAttempted'
    OBVIOUS
  <2>5. ConsoleHandler'
    OBVIOUS
  <2>6. Reporters'
    OBVIOUS
  <2>7. KilledIsEnd'
    OBVIOUS
  <2>8. KilledAfterUnload'
    OBVIOUS
  <2>9. NotStarted'
    OBVIOUS
  <2> QED
    BY <2>1, <2>2, <2>3, <2>4, <2>5, <2>6, <2>7, <2>8, <2>9
<1>20. CASE Interrogate
  <2> USE <1>20 DEF Interrogate, BeginReport
  <2>1. TypeOK'
    <3>1. todo' \in [{"main", "handler"} -> SUBSET Fields]
      OBVIOUS
    <3>2. overlapping' \subseteq {"stop", "interrogate"}
      OBVIOUS
    <3>3. seenStatus' \in States /\ hpc' \in {"tellStop", "tellAgain", "set", "idle"}
      OBVIOUS
    <3>4. record' = record /\ told' = told
      OBVIOUS
    <3> QED
      BY <3>1, <3>2, <3>3, <3>4
  <2>2. EventsExist'
    OBVIOUS
  <2>3. ThreadsAreJoined'
    OBVIOUS
  <2>4. UnloadAttempted'
    OBVIOUS
  <2>5. ConsoleHandler'
    OBVIOUS
  <2>6. Reporters'
    OBVIOUS
  <2>7. KilledIsEnd'
    OBVIOUS
  <2>8. KilledAfterUnload'
    OBVIOUS
  <2>9. NotStarted'
    OBVIOUS
  <2> QED
    BY <2>1, <2>2, <2>3, <2>4, <2>5, <2>6, <2>7, <2>8, <2>9
<1>21. CASE WriteFromHandler
  BY <1>21 DEF WriteFromHandler, WriteField, Argument, Status
<1>22. CASE ReportFromHandler
  <2> USE <1>22 DEF ReportFromHandler, SetServiceStatus
  <2>1. TypeOK'
    OBVIOUS
  <2>2. EventsExist'
    OBVIOUS
  <2>3. ThreadsAreJoined'
    OBVIOUS
  <2>4. UnloadAttempted'
    OBVIOUS
  <2>5. ConsoleHandler'
    OBVIOUS
  <2>6. Reporters'
    OBVIOUS
  <2>7. KilledIsEnd'
    OBVIOUS
  <2>8. KilledAfterUnload'
    OBVIOUS
  <2>9. NotStarted'
    OBVIOUS
  <2> QED
    BY <2>1, <2>2, <2>3, <2>4, <2>5, <2>6, <2>7, <2>8, <2>9
<1>23. CASE HandlerRequestsShutdown
  BY <1>23 DEF HandlerRequestsShutdown, Set
<1>24. CASE ReturnToConsole
  BY <1>24 DEF ReturnToConsole, HandlerStopsWaiting
<1>25. CASE ReturnAndDie
  <2> USE <1>25 DEF ReturnAndDie, HandlerStopsWaiting
  <2>1. TypeOK'
    OBVIOUS
  <2>2. EventsExist'
    OBVIOUS
  <2>3. ThreadsAreJoined'
    OBVIOUS
  <2>4. UnloadAttempted'
    OBVIOUS
  <2>5. ConsoleHandler'
    OBVIOUS
  <2>6. Reporters'
    OBVIOUS
  <2>7. KilledIsEnd'
    OBVIOUS
  <2>8. KilledAfterUnload'
    OBVIOUS
  <2>9. NotStarted'
    OBVIOUS
  <2> QED
    BY <2>1, <2>2, <2>3, <2>4, <2>5, <2>6, <2>7, <2>8, <2>9
<1>26. CASE SendStop
  BY <1>26 DEF SendStop
<1>27. CASE SendInterrogate
  BY <1>27 DEF SendInterrogate
<1>28. CASE SendCtrlEvent
  BY <1>28 DEF SendCtrlEvent
<1>29. CASE TerminateByDefault
  BY <1>29 DEF TerminateByDefault
<1>30. ASSUME NEW t \in WorkerThreads, ThreadEnds(t) PROVE Inv'
  BY <1>30 DEF ThreadEnds
<1>31. CASE Ended
  BY <1>31 DEF Ended, vars
<1>32. CASE UNCHANGED vars
  BY <1>32 DEF vars
<1> QED
  BY <1>1, <1>2, <1>3, <1>4, <1>5, <1>6, <1>7, <1>8, <1>9, <1>10, <1>11,
     <1>12, <1>13, <1>14, <1>15, <1>16, <1>17, <1>18, <1>19, <1>20, <1>21,
     <1>22, <1>23, <1>24, <1>25, <1>26, <1>27, <1>28, <1>29, <1>30, <1>31,
     <1>32
  DEF Next, Engine, Handler

\* The program starts with the inductive invariant.
LEMMA InvariantInit == Init => Inv
<1> SUFFICES ASSUME Init PROVE Inv
  OBVIOUS
<1>1. /\ record = Status("none", 0) /\ told = Status("none", 0)
      /\ Status("none", 0) \in [state : States, exit : {0, 1}]
  BY DEF Init, Status, States
<1>2. /\ todo \in [{"main", "handler"} -> SUBSET Fields]
      /\ todo["main"] = {} /\ todo["handler"] = {}
  BY DEF Init
<1>3. TypeOK
  BY <1>1, <1>2, ConstantsAssumption DEF Init, TypeOK, States
<1>4. told.state = "none"
  BY <1>1 DEF Status
<1> QED
  BY <1>2, <1>3, <1>4, ConstantsAssumption
  DEF Init, Inv, EventsExist, ThreadsAreJoined, UnloadAttempted, ConsoleHandler,
      Reporters, KilledIsEnd, KilledAfterUnload, NotStarted

\* The invariant holds of every reachable state.
LEMMA Invariance == Spec => []Inv
  BY InvariantInit, InvariantStep, PTL DEF Spec

-----------------------------------------------------------------------------
\* The engine, the threads, the handler and the reported status keep their
\* types, and the two events exist together.
THEOREM LifecycleTypeCorrect == Spec => []TypeOK
<1>1. Inv => TypeOK
  BY DEF Inv
<1> QED
  BY <1>1, Invariance, PTL

\* However many threads RunProtectionEngine starts, none of them runs when it
\* unloads the driver and closes the events.
THEOREM ThreadsEndFirst == Spec => []ThreadsEndBeforeTeardown
<1>1. Inv => ThreadsEndBeforeTeardown
  BY DEF Inv, ThreadsAreJoined, ThreadsEndBeforeTeardown
<1> QED
  BY <1>1, Invariance, PTL

\* A console whose handler could be registered (2403) and that is closed after
\* that leaves the driver behind only if it could not be unloaded, or if
\* ConsoleCtrlHandler waited its 15 s in vain.
THEOREM KilledLate == Spec => []KilledAfterUnload
<1>1. Inv => KilledAfterUnload
  BY DEF Inv
<1> QED
  BY <1>1, Invariance, PTL

-----------------------------------------------------------------------------
(* What a service reports last.                                            *)

\* Nobody holds RUNNING or is about to report it, and no stop is under way.
StopIsPast ==
  /\ record.state # "running" /\ told.state # "running"
  /\ hpc \notin {"stop", "tellStop"}
  /\ hpc = "tellAgain" => seenStatus # "running"

\* The stop event of a running engine is set after STOP_PENDING was reported; the
\* service control manager accepts no stop from then on.
StopIsReportedFirst ==
  /\ mode = "service" /\ hpc = "set" /\ epc # "ended"
       => record.state # "running" /\ told.state # "running"
  /\ hpc = "tellStop" /\ "state" \notin todo["handler"] /\ epc # "ended"
       => record.state # "running"
  /\ mode = "service" /\ stopEvent = "set" /\ epc \in {"load", "open", "spawn", "wait"}
       => StopIsPast
  /\ mode = "service" /\ (\E t \in WorkerThreads : tpc[t] # "none")
       /\ epc \in {"request", "join", "unload", "complete", "close", "report", "tell",
                   "clear"}
       => StopIsPast

\* STOPPED comes from HostGuardServiceMain,
StoppedIsLast ==
  epc \notin {"tell", "clear", "ended", "killed"} =>
    record.state # "stopped" /\ told.state # "stopped" /\ seenStatus # "stopped"

\* with its exit code, unless the handler reports at the same time,
ExitCodeIsTold ==
  /\ mode = "service" /\ overlapping = {} /\ epc \in {"tell", "clear", "ended"} =>
       hpc \notin {"tellStop", "tellAgain"}
  /\ mode = "service" /\ overlapping = {} /\ epc \in {"tell", "clear"} =>
       /\ "state" \notin todo["main"] => record.state = "stopped"
       /\ "exit" \notin todo["main"] => record.exit = exitCode
  /\ overlapping = {} /\ told.state = "stopped" => told.exit = exitCode

\* which a stop does only when no thread was started.
StopOverlapsFailedStart ==
  "stop" \in overlapping => \A t \in WorkerThreads : tpc[t] = "none"

ReportInv ==
  /\ StopIsReportedFirst
  /\ StoppedIsLast
  /\ ExitCodeIsTold
  /\ overlapping # {} => mode = "service" /\ epc \in {"tell", "clear", "ended"}
  /\ StopOverlapsFailedStart

\* Every step keeps the invariant of the reports.
LEMMA ReportStep == Inv /\ ReportInv /\ [Next]_vars => ReportInv'
<1> SUFFICES ASSUME Inv, ReportInv, [Next]_vars PROVE ReportInv'
  OBVIOUS
<1> USE ConstantsAssumption
    DEF Inv, EventsExist, UnloadAttempted, ConsoleHandler, Reporters, KilledIsEnd,
        NotStarted, TypeOK, Fields, States, Status, Argument,
        ReportInv, StopIsPast, StopIsReportedFirst, StoppedIsLast, ExitCodeIsTold,
        StopOverlapsFailedStart, engine, events, reported, handler, Goto
<1>1. CASE RegisterFails
  BY <1>1 DEF RegisterFails
<1>2. CASE ReportRunning
  BY <1>2 DEF ReportRunning
<1>3. CASE CreateEvents
  BY <1>3 DEF CreateEvents
<1>4. CASE ResetEvents
  BY <1>4 DEF ResetEvents
<1>5. CASE LoadDriver
  BY <1>5 DEF LoadDriver
<1>6. CASE OpenDevice
  BY <1>6 DEF OpenDevice
<1>7. CASE SpawnThreads
  BY <1>7 DEF SpawnThreads
<1>8. CASE WaitForShutdown
  BY <1>8 DEF WaitForShutdown
<1>9. CASE WaitTimesOut
  BY <1>9 DEF WaitTimesOut, vars
<1>10. CASE RequestShutdown
  BY <1>10 DEF RequestShutdown, Set
<1>11. CASE JoinThreads
  BY <1>11 DEF JoinThreads
<1>12. CASE UnloadKernelDriver
  BY <1>12 DEF UnloadKernelDriver
<1>13. CASE SignalComplete
  BY <1>13 DEF SignalComplete
<1>14. CASE CloseEvents
  BY <1>14 DEF CloseEvents
<1>15. CASE BeginStopped
  BY <1>15 DEF BeginStopped, Reporting
<1>16. CASE WriteStopped
  BY <1>16 DEF WriteStopped, WriteField, Argument, Status
<1>17. CASE ReportStopped
  BY <1>17 DEF ReportStopped, SetServiceStatus
<1>18. CASE ClearStatusHandle
  BY <1>18 DEF ClearStatusHandle
<1>19. CASE ReportStopPending
  BY <1>19 DEF ReportStopPending, BeginReport
<1>20. CASE Interrogate
  BY <1>20 DEF Interrogate, BeginReport
<1>21. CASE WriteFromHandler
  BY <1>21 DEF WriteFromHandler, WriteField, Argument, Status
<1>22. CASE ReportFromHandler
  BY <1>22 DEF ReportFromHandler, SetServiceStatus
<1>23. CASE HandlerRequestsShutdown
  BY <1>23 DEF HandlerRequestsShutdown, Set
<1>24. CASE ReturnToConsole
  BY <1>24 DEF ReturnToConsole, HandlerStopsWaiting
<1>25. CASE ReturnAndDie
  BY <1>25 DEF ReturnAndDie, HandlerStopsWaiting
<1>26. CASE SendStop
  BY <1>26 DEF SendStop
<1>27. CASE SendInterrogate
  BY <1>27 DEF SendInterrogate
<1>28. CASE SendCtrlEvent
  BY <1>28 DEF SendCtrlEvent
<1>29. CASE TerminateByDefault
  BY <1>29 DEF TerminateByDefault
<1>30. ASSUME NEW t \in WorkerThreads, ThreadEnds(t) PROVE ReportInv'
  BY <1>30 DEF ThreadEnds
<1>31. CASE Ended
  BY <1>31 DEF Ended, vars
<1>32. CASE UNCHANGED vars
  BY <1>32 DEF vars
<1> QED
  BY <1>1, <1>2, <1>3, <1>4, <1>5, <1>6, <1>7, <1>8, <1>9, <1>10, <1>11,
     <1>12, <1>13, <1>14, <1>15, <1>16, <1>17, <1>18, <1>19, <1>20, <1>21,
     <1>22, <1>23, <1>24, <1>25, <1>26, <1>27, <1>28, <1>29, <1>30, <1>31,
     <1>32
  DEF Next, Engine, Handler

\* A service that reports STOPPED with NO_ERROR has unloaded the driver, unless an
\* interrogation was answered meanwhile, or a stop came while a start that failed
\* ended by itself, although ReportServiceStatus (175-189) takes no lock.
THEOREM CleanExits == Spec => []CleanExitMeansUnloaded
<1>1. Init => ReportInv
  BY ConstantsAssumption
  DEF Init, Status, ReportInv, StopIsPast, StopIsReportedFirst, StoppedIsLast,
      ExitCodeIsTold, StopOverlapsFailedStart, Fields
<1>2. Inv /\ ReportInv => CleanExitMeansUnloaded
  <2> SUFFICES ASSUME Inv, ReportInv, told = Status("stopped", 0), driver = "loaded",
                      overlapping # {} => overlapping = {"stop"}
               PROVE  "stop" \in overlapping /\ \A t \in WorkerThreads : tpc[t] = "none"
    BY DEF CleanExitMeansUnloaded, Inv, TypeOK
  <2>1. told.state = "stopped" /\ told.exit = 0
    BY DEF Status
  <2>2. mode = "service" /\ epc \in {"tell", "clear", "ended"}
    BY <2>1, ConstantsAssumption
    DEF Inv, TypeOK, Reporters, KilledIsEnd, ReportInv, StoppedIsLast
  <2>3. exitCode = 1
    BY <2>1, <2>2 DEF Inv, UnloadAttempted
  <2>4. overlapping # {}
    BY <2>1, <2>3 DEF ReportInv, ExitCodeIsTold
  <2> QED
    BY <2>4 DEF ReportInv, StopOverlapsFailedStart
<1> QED
  BY <1>1, <1>2, ReportStep, Invariance, PTL DEF Spec

-----------------------------------------------------------------------------
\* A worker thread and the stop event as the thread sees them.
Monitor(t) == INSTANCE MonitorThread WITH
  thread <- IF epc = "killed" THEN "killed" ELSE tpc[t],
  stop <- stopEvent = "set"

\* RunProtectionEngine treats each of its threads as MonitorThread says: it starts
\* it once and, from then until it has ended, takes no stop back, neither by
\* EnsureRuntimeEvents nor by CleanupRuntimeEvents (2456-2494).
THEOREM EngineKeepsThreads == \A t \in WorkerThreads : Spec => Monitor(t)!Spec
<1> TAKE t \in WorkerThreads
<1>1. Init => Monitor(t)!Init
  BY ConstantsAssumption DEF Init, Monitor!Init
<1>2. Inv /\ [Next]_vars => [Monitor(t)!Next]_(Monitor(t)!vars)
  <2> SUFFICES ASSUME Inv, [Next]_vars
               PROVE  Monitor(t)!Next \/ UNCHANGED Monitor(t)!vars
    OBVIOUS
  <2> USE DEF Inv, TypeOK, ThreadsAreJoined, EventsExist, KilledIsEnd,
              Monitor!vars, Monitor!Next, engine, events, handler, Goto
  <2>1. CASE CreateEvents \/ ResetEvents \/ CloseEvents
    BY <2>1 DEF CreateEvents, ResetEvents, CloseEvents, Monitor!Reset
  <2>2. CASE SpawnThreads
    BY <2>2 DEF SpawnThreads, NotStarted, Monitor!Start
  <2>3. CASE RequestShutdown
    BY <2>3 DEF RequestShutdown, Set, Monitor!RequestStop
  <2>4. CASE RegisterFails \/ ReportRunning \/ LoadDriver \/ OpenDevice \/ WaitForShutdown
             \/ JoinThreads \/ UnloadKernelDriver \/ SignalComplete
             \/ BeginStopped \/ WriteStopped \/ ReportStopped \/ ClearStatusHandle
    BY <2>4 DEF RegisterFails, ReportRunning, LoadDriver, OpenDevice, WaitForShutdown,
                JoinThreads, UnloadKernelDriver, SignalComplete,
                BeginStopped, WriteStopped, ReportStopped, ClearStatusHandle
  <2>5. CASE HandlerRequestsShutdown
    BY <2>5 DEF HandlerRequestsShutdown, Set, Monitor!RequestStop
  <2>6. CASE ReturnAndDie \/ TerminateByDefault
    BY <2>6 DEF ReturnAndDie, HandlerStopsWaiting, TerminateByDefault, Monitor!Kill
  <2>7. CASE ReturnToConsole \/ ReportStopPending \/ Interrogate \/ WriteFromHandler
             \/ ReportFromHandler
    BY <2>7 DEF ReturnToConsole, HandlerStopsWaiting, ReportStopPending, Interrogate,
                WriteFromHandler, ReportFromHandler
  <2>8. CASE WaitTimesOut \/ SendStop \/ SendInterrogate \/ SendCtrlEvent \/ Ended
             \/ UNCHANGED vars
    BY <2>8 DEF WaitTimesOut, SendStop, SendInterrogate, SendCtrlEvent, Ended, vars
  <2>9. ASSUME NEW u \in WorkerThreads, ThreadEnds(u)
        PROVE  Monitor(t)!Next \/ UNCHANGED Monitor(t)!vars
    BY <2>9 DEF ThreadEnds, Monitor!End
  <2> QED
    BY <2>1, <2>2, <2>3, <2>4, <2>5, <2>6, <2>7, <2>8, <2>9 DEF Next, Engine, Handler
<1> QED
  BY <1>1, <1>2, Invariance, PTL DEF Spec, Monitor!Spec
=============================================================================
