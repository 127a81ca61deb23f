------------------------- MODULE DriverServiceProofs -------------------------
(***************************************************************************)
(* Proofs about DriverService.  The module has no constants, but its       *)
(* behaviours are unbounded in length: loads, unloads, upgrades and kills  *)
(* in any number and any order.                                            *)
(***************************************************************************)
EXTENDS DriverService, TLAPS

\* A call has no result before it returns.
Unfinished == pc # "idle" => result = "none"

\* Only a driver whose service is there, and is to stay, runs.
RunsWithService == service # "present" => run = "stopped"

\* What removes the service comes after the driver has stopped.
StopsFirst ==
  pc \in {"cleanInf", "remove", "unloadInf", "unload"} => run = "stopped"

\* A load creates the service at most once, and only for a driver that is not
\* running.
CreatedOnce ==
  /\ pc \in {"query", "compare", "cleanInf", "remove", "deleteStale", "install",
             "infInstall", "create"} => ~created
  /\ pc \in {"stop", "wait"} /\ task \notin {"unloadInf", "unload"} => ~created
  /\ pc \in {"configure", "startLegacy"} /\ created => run = "stopped"

\* The service that is stopped to be reused names the driver already.
ReusedIsLocal ==
  pc \in {"stop", "wait"} /\ task = "reuse" => service = "present" /\ path = "local"

\* As long as no call fails, a load reaches each of its last steps with all that
\* the driver needs to start in its new version.
ReadyToStart ==
  ~fault =>
    /\ pc = "infInstall" => run = "stopped"
    /\ pc \in {"configure", "startLegacy"} =>
         service = "present" /\ path = "local" /\ run = "stopped"
    /\ pc = "start" =>
         service = "present" /\ path = "system" /\ file = "fresh" /\ run = "stopped"

\* A service is stopped in order to do something with it.
StopHasTask == pc \in {"stop", "wait"} => task # "none"

\* Where HostGuard is in a call, and what it has achieved by then.
Progress ==
  /\ Unfinished
  /\ StopHasTask
  /\ RunsWithService
  /\ StopsFirst
  /\ CreatedOnce
  /\ ReusedIsLocal

\* What a call returns, and what makes it true.
Outcome ==
  /\ ReadyToStart
  /\ CleanLoadIsFresh
  /\ UnloadedMeansGone
  /\ FailureHasCause

Inv == TypeOK /\ Progress /\ Outcome

-----------------------------------------------------------------------------
\* Every step of a load, of an unload and of the environment keeps the inductive
\* invariant.
LEMMA InvariantStep == Inv /\ [Next]_vars => Inv'
<1> SUFFICES ASSUME Inv, [Next]_vars PROVE Inv'
  OBVIOUS
<1> USE DEF Inv, TypeOK, SystemTypeOK, CallTypeOK, Progress, Unfinished,
            StopHasTask, RunsWithService, StopsFirst, CreatedOnce,
            ReusedIsLocal, Outcome, ReadyToStart, CleanLoadIsFresh,
            UnloadedMeansGone, FailureHasCause, Paths, Tasks, Results, To,
            Fault, Fine, StopFor, scm, driver, locals
<1>1. CASE DriverStopped
  BY <1>1 DEF DriverStopped
<1>2. CASE Hold
  BY <1>2 DEF Hold
<1>3. CASE Release
  <2>1. SystemTypeOK'
    BY <1>3 DEF Release
  <2>2. CallTypeOK'
    BY <1>3 DEF Release
  <2>3. Progress'
    BY <1>3 DEF Release
  <2>4. Outcome'
    BY <1>3 DEF Release
  <2> QED
    BY <2>1, <2>2, <2>3, <2>4
<1>4. CASE Upgrade
  BY <1>4 DEF Upgrade
<1>5. CASE Killed
  BY <1>5 DEF Killed
<1>6. CASE BeginLoad
  BY <1>6 DEF BeginLoad
<1>7. CASE BeginUnload
  <2>1. SystemTypeOK'
    BY <1>7 DEF BeginUnload
  <2>2. CallTypeOK'
    BY <1>7 DEF BeginUnload
  <2>3. Progress'
    BY <1>7 DEF BeginUnload
  <2>4. Outcome'
    BY <1>7 DEF BeginUnload
  <2> QED
    BY <2>1, <2>2, <2>3, <2>4
<1>8. CASE Stop
  <2>1. SystemTypeOK'
    BY <1>8 DEF Stop, NotStopped, IfAbsent, IfStopped, IfNotStopped
  <2>2. CallTypeOK'
    BY <1>8 DEF Stop, NotStopped, IfAbsent, IfStopped, IfNotStopped
  <2>3. Progress'
    BY <1>8 DEF Stop, NotStopped, IfAbsent, IfStopped, IfNotStopped
  <2>4. Outcome'
    BY <1>8 DEF Stop, NotStopped, IfAbsent, IfStopped, IfNotStopped
  <2> QED
    BY <2>1, <2>2, <2>3, <2>4
<1>9. CASE Wait
  <2>1. SystemTypeOK'
    BY <1>9 DEF Wait, NotStopped, IfStopped, IfNotStopped
  <2>2. CallTypeOK'
    BY <1>9 DEF Wait, NotStopped, IfStopped, IfNotStopped
  <2>3. Progress'
    BY <1>9 DEF Wait, NotStopped, IfStopped, IfNotStopped
  <2>4. Outcome'
    BY <1>9 DEF Wait, NotStopped, IfStopped, IfNotStopped
  <2> QED
    BY <2>1, <2>2, <2>3, <2>4
<1>10. CASE QueryService
  <2>1. SystemTypeOK'
    BY <1>10 DEF QueryService
  <2>2. CallTypeOK'
    BY <1>10 DEF QueryService
  <2>3. Progress'
    BY <1>10 DEF QueryService
  <2>4. Outcome'
    BY <1>10 DEF QueryService
  <2> QED
    BY <2>1, <2>2, <2>3, <2>4
<1>11. CASE CompareHashes
  <2>1. SystemTypeOK'
    BY <1>11 DEF CompareHashes, Refresh, MustRefresh, Content
  <2>2. CallTypeOK'
    BY <1>11 DEF CompareHashes, Refresh, MustRefresh, Content
  <2>3. Progress'
    BY <1>11 DEF CompareHashes, Refresh, MustRefresh, Content
  <2>4. Outcome'
    BY <1>11 DEF CompareHashes, Refresh, MustRefresh, Content
  <2> QED
    BY <2>1, <2>2, <2>3, <2>4
<1>12. CASE CleanViaInf
  <2>1. SystemTypeOK'
    BY <1>12 DEF CleanViaInf, InfUninstall, Delete
  <2>2. CallTypeOK'
    BY <1>12 DEF CleanViaInf, InfUninstall, Delete
  <2>3. Progress'
    BY <1>12 DEF CleanViaInf, InfUninstall, Delete
  <2>4. Outcome'
    BY <1>12 DEF CleanViaInf, InfUninstall, Delete
  <2> QED
    BY <2>1, <2>2, <2>3, <2>4
<1>13. CASE RemoveService
  <2>1. SystemTypeOK'
    BY <1>13 DEF RemoveService, Delete
  <2>2. CallTypeOK'
    BY <1>13 DEF RemoveService, Delete
  <2>3. Progress'
    BY <1>13 DEF RemoveService, Delete
  <2>4. Outcome'
    BY <1>13 DEF RemoveService, Delete
  <2> QED
    BY <2>1, <2>2, <2>3, <2>4
<1>14. CASE DeleteStaleDriverBinary
  <2>1. SystemTypeOK'
    BY <1>14 DEF DeleteStaleDriverBinary
  <2>2. CallTypeOK'
    BY <1>14 DEF DeleteStaleDriverBinary
  <2>3. Progress'
    BY <1>14 DEF DeleteStaleDriverBinary
  <2>4. Outcome'
    BY <1>14 DEF DeleteStaleDriverBinary
  <2> QED
    BY <2>1, <2>2, <2>3, <2>4
<1>15. CASE Install
  <2>1. SystemTypeOK'
    BY <1>15 DEF Install
  <2>2. CallTypeOK'
    BY <1>15 DEF Install
  <2>3. Progress'
    BY <1>15 DEF Install
  <2>4. Outcome'
    BY <1>15 DEF Install
  <2> QED
    BY <2>1, <2>2, <2>3, <2>4
<1>16. CASE InstallViaInf
  <2>1. SystemTypeOK'
    BY <1>16 DEF InstallViaInf, InfInstall
  <2>2. CallTypeOK'
    BY <1>16 DEF InstallViaInf, InfInstall
  <2>3. Progress'
    BY <1>16 DEF InstallViaInf, InfInstall
  <2>4. Outcome'
    BY <1>16 DEF InstallViaInf, InfInstall
  <2> QED
    BY <2>1, <2>2, <2>3, <2>4
<1>17. CASE StartService
  <2>1. SystemTypeOK'
    BY <1>17 DEF StartService, CanStart, Started, Content
  <2>2. CallTypeOK'
    BY <1>17 DEF StartService, CanStart, Started, Content
  <2>3. Progress'
    BY <1>17 DEF StartService, CanStart, Started, Content
  <2>4. Outcome'
    BY <1>17 DEF StartService, CanStart, Started, Content
  <2> QED
    BY <2>1, <2>2, <2>3, <2>4
<1>18. CASE CreateService
  <2>1. SystemTypeOK'
    BY <1>18 DEF CreateService
  <2>2. CallTypeOK'
    BY <1>18 DEF CreateService
  <2>3. Progress'
    BY <1>18 DEF CreateService
  <2>4. Outcome'
    BY <1>18 DEF CreateService
  <2> QED
    BY <2>1, <2>2, <2>3, <2>4
<1>19. CASE ConfigureInstance
  <2>1. SystemTypeOK'
    BY <1>19 DEF ConfigureInstance
  <2>2. CallTypeOK'
    BY <1>19 DEF ConfigureInstance
  <2>3. Progress'
    BY <1>19 DEF ConfigureInstance
  <2>4. Outcome'
    BY <1>19 DEF ConfigureInstance
  <2> QED
    BY <2>1, <2>2, <2>3, <2>4
<1>20. CASE StartCreated
  <2>1. SystemTypeOK'
    BY <1>20 DEF StartCreated, CanStart, Started, Content, Delete
  <2>2. CallTypeOK'
    BY <1>20 DEF StartCreated, CanStart, Started, Content, Delete
  <2>3. Progress'
    BY <1>20 DEF StartCreated, CanStart, Started, Content, Delete
  <2>4. Outcome'
    BY <1>20 DEF StartCreated, CanStart, Started, Content, Delete
  <2> QED
    BY <2>1, <2>2, <2>3, <2>4
<1>21. CASE UnloadViaInf
  <2>1. SystemTypeOK'
    BY <1>21 DEF UnloadViaInf, InfUninstall, Delete
  <2>2. CallTypeOK'
    BY <1>21 DEF UnloadViaInf, InfUninstall, Delete
  <2>3. Progress'
    BY <1>21 DEF UnloadViaInf, InfUninstall, Delete
  <2>4. Outcome'
    BY <1>21 DEF UnloadViaInf, InfUninstall, Delete
  <2> QED
    BY <2>1, <2>2, <2>3, <2>4
<1>22. CASE UnloadService
  <2>1. SystemTypeOK'
    BY <1>22 DEF UnloadService, Delete
  <2>2. CallTypeOK'
    BY <1>22 DEF UnloadService, Delete
  <2>3. Progress'
    BY <1>22 DEF UnloadService, Delete
  <2>4. Outcome'
    BY <1>22 DEF UnloadService, Delete
  <2> QED
    BY <2>1, <2>2, <2>3, <2>4
<1>23. CASE UNCHANGED vars
  BY <1>23 DEF vars
<1> QED
  BY <1>1, <1>2, <1>3, <1>4, <1>5, <1>6, <1>7, <1>8, <1>9, <1>10, <1>11,
     <1>12, <1>13, <1>14, <1>15, <1>16, <1>17, <1>18, <1>19, <1>20,
     <1>21, <1>22, <1>23
  DEF Next, Load, EnsureFresh, Unload, Environment

\* The invariant holds at the start, when nothing is installed.
LEMMA InvariantInit == Init => Inv
  BY DEF Init, Inv, TypeOK, SystemTypeOK, CallTypeOK, Progress, Unfinished,
         StopHasTask, RunsWithService, StopsFirst, CreatedOnce, ReusedIsLocal,
         Outcome, ReadyToStart, CleanLoadIsFresh, UnloadedMeansGone,
         FailureHasCause, Paths, Tasks, Results

LEMMA Invariance == Spec => []Inv
<1> QED
  BY InvariantInit, InvariantStep, PTL DEF Spec

-----------------------------------------------------------------------------
\* The variables of the service, the driver and the call keep their types, a
\* service that is marked for deletion is held by another program, and only a
\* driver that has not stopped has an image.
THEOREM DriverTypeCorrect == Spec => []TypeOK
<1>1. Inv => TypeOK
  BY DEF Inv
<1> QED
  BY <1>1, Invariance, PTL

\* However earlier loads and unloads ended, a load of LoadKernelDriver in which
\* every call works leaves the driver running in the version next to
\* HostGuard.exe.
THEOREM CleanLoads == Spec => []CleanLoadIsFresh
<1>1. Inv => CleanLoadIsFresh
  BY DEF Inv, Outcome
<1> QED
  BY <1>1, Invariance, PTL

\* When UnloadKernelDriver returns true, the driver has stopped and its service
\* is gone or about to go.
THEOREM UnloadsComplete == Spec => []UnloadedMeansGone
<1>1. Inv => UnloadedMeansGone
  BY DEF Inv, Outcome
<1> QED
  BY <1>1, Invariance, PTL

\* LoadKernelDriver and UnloadKernelDriver fail only when a call of theirs fails
\* for a reason from outside, never because of what an earlier call left.
THEOREM FailuresHaveCauses == Spec => []FailureHasCause
<1>1. Inv => FailureHasCause
  BY DEF Inv, Outcome
<1> QED
  BY <1>1, Invariance, PTL
=============================================================================
