---------------------------- MODULE DriverService ----------------------------
(***************************************************************************)
(* How HostGuard installs, starts, stops and removes the PebMonitor driver *)
(* (LoadKernelDriver and UnloadKernelDriver of DriverUtils.cpp): a series  *)
(* of calls to the service control manager and to SetupAPI, any of which   *)
(* may fail or outlast its wait, and which a killed HostGuard leaves half  *)
(* done for the next one to find.                                          *)
(*                                                                         *)
(* The driver's service names one of two files: the driver next to         *)
(* HostGuard.exe ("local"), which is by definition of the version wanted,  *)
(* or the copy that an INF puts into the system directory ("system").  A   *)
(* file or a loaded image is "fresh" or "old" compared with the local one. *)
(* One HostGuard at a time works on the service.                           *)
(***************************************************************************)
VARIABLES
  inf,      \* an INF lies next to the driver
  service,  \* the service's record: "absent", "present", "marked" for deletion
  path,     \* the file it names
  held,     \* another program has the service open
  run,      \* the driver's state
  image,    \* version of the loaded driver
  origin,   \* the file it was loaded from
  file,     \* version of the system copy
  pc,       \* where HostGuard is in a load or an unload
  task,     \* what a stop of the service is for
  oldPath,  \* resolvedServiceBinaryPath
  created,  \* createdService
  result,   \* what the last call returned, with "none" for a call in progress
  fault     \* history: some step of the current call failed from outside

scm == <<service, path, held>>
driver == <<run, image, origin>>
locals == <<task, oldPath, created>>
vars == <<inf, scm, driver, file, pc, locals, result, fault>>

Paths == {"none", "local", "system"}
Tasks == {"none", "cleanInf", "remove", "install", "reuse", "unloadInf", "unload"}
Results == {"loaded", "unloaded", "failed"}

\* What HostGuard works on: the service, the driver and the copy of its file.
SystemTypeOK ==
  /\ inf \in BOOLEAN /\ held \in BOOLEAN
  /\ service \in {"absent", "present", "marked"} /\ path \in Paths
  /\ service = "absent" <=> path = "none"
  /\ service = "marked" => held
  /\ run \in {"stopped", "running", "stopPending"}
  /\ image \in {"none", "fresh", "old"} /\ origin \in Paths
  /\ run = "stopped" <=> image = "none"
  /\ file \in {"absent", "fresh", "old"}

CallTypeOK ==
  /\ pc \in {"idle", "query", "compare", "stop", "wait", "cleanInf", "remove",
             "deleteStale", "install", "infInstall", "start", "create",
             "configure", "startLegacy", "unloadInf", "unload"}
  /\ task \in Tasks /\ oldPath \in Paths /\ created \in BOOLEAN
  /\ result \in Results \cup {"none"} /\ fault \in BOOLEAN

TypeOK == SystemTypeOK /\ CallTypeOK

\* A computer without the service; a copy may be left from earlier.
Init ==
  /\ inf \in BOOLEAN
  /\ service = "absent" /\ path = "none" /\ held = FALSE
  /\ run = "stopped" /\ image = "none" /\ origin = "none"
  /\ file \in {"absent", "fresh", "old"}
  /\ pc = "idle" /\ task = "none" /\ oldPath = "none" /\ created = FALSE
  /\ result = "none" /\ fault = FALSE

-----------------------------------------------------------------------------
(* The environment.                                                        *)

\* The driver's unload routine returns.
DriverStopped ==
  /\ run = "stopPending"
  /\ run' = "stopped" /\ image' = "none" /\ origin' = "none"
  /\ UNCHANGED <<inf, scm, file, pc, locals, result, fault>>

\* A console, a monitor or another command opens the service, and closes it: a
\* service that is marked for deletion disappears with its last handle.
Hold ==
  /\ service # "absent" /\ ~held
  /\ held' = TRUE
  /\ UNCHANGED <<inf, service, path, driver, file, pc, locals, result, fault>>

Release ==
  /\ held
  /\ held' = FALSE
  /\ IF service = "marked" THEN service' = "absent" /\ path' = "none"
                           ELSE UNCHANGED <<service, path>>
  /\ UNCHANGED <<inf, driver, file, pc, locals, result, fault>>

\* Between two calls HostGuard is replaced by a new version with its driver,
\* unless the file is in use; what was fresh is old now.
Upgrade ==
  /\ pc = "idle" /\ origin # "local"
  /\ inf' \in BOOLEAN
  /\ file' = IF file = "fresh" THEN "old" ELSE file
  /\ image' = IF image = "fresh" THEN "old" ELSE image
  /\ result' = "none"
  /\ UNCHANGED <<scm, run, origin, pc, locals, fault>>

\* HostGuard is terminated in the middle of a call.
Killed ==
  /\ pc # "idle"
  /\ pc' = "idle"
  /\ UNCHANGED <<inf, scm, driver, file, locals, result, fault>>

\* InstallHinfSection, which tells its caller nothing of the outcome: it copies
\* the driver, or puts that off because the file is in use, and registers the
\* service, or fails to.
InfInstall ==
  /\ \/ UNCHANGED file
     \/ origin # "system" /\ file' = "fresh"
  /\ \/ service # "marked" /\ service' = "present" /\ path' = "system"
     \/ UNCHANGED <<service, path>>

\* The service's record goes, at once or when the last handle is closed.
Delete ==
  IF held /\ service # "absent" THEN service' = "marked" /\ UNCHANGED path
                                ELSE service' = "absent" /\ path' = "none"

InfUninstall ==
  /\ file' = "absent" \/ UNCHANGED file
  /\ Delete \/ UNCHANGED <<service, path>>

-----------------------------------------------------------------------------
(* Steps.                                                                  *)

\* The version of the file the service names.
Content == CASE path = "local" -> "fresh"
             [] path = "system" -> file
             [] path = "none" -> "absent"

\* Go on at a label, or return a result.
To(label) ==
  IF label \in Results THEN pc' = "idle" /\ result' = label
                       ELSE pc' = label /\ UNCHANGED result

\* A call fails for a reason outside HostGuard.
Fault(label) == fault' = TRUE /\ To(label)
Fine(label) == UNCHANGED fault /\ To(label)

\* Stop the service in order to do something with it.
StopFor(purpose) == pc' = "stop" /\ task' = purpose /\ UNCHANGED result

BeginLoad ==
  /\ pc = "idle"
  /\ pc' = "query"
  /\ result' = "none" /\ fault' = FALSE
  /\ task' = "none" /\ oldPath' = "none" /\ created' = FALSE
  /\ UNCHANGED <<inf, scm, driver, file>>

BeginUnload ==
  /\ pc = "idle"
  /\ pc' = "stop" /\ task' = IF inf THEN "unloadInf" ELSE "unload"
  /\ result' = "none" /\ fault' = FALSE
  /\ UNCHANGED <<inf, scm, driver, file, oldPath, created>>

\* StopServiceIfRunning: how the calls go on when the service is not there, is
\* stopped, or could not be stopped.
IfAbsent(purpose) ==
  CASE purpose = "remove" -> "deleteStale" [] purpose = "unload" -> "unloaded"
    [] purpose = "install" -> "infInstall" [] OTHER -> purpose
IfStopped(purpose) ==
  CASE purpose = "install" -> "infInstall" [] purpose = "reuse" -> "configure"
    [] OTHER -> purpose
IfNotStopped(purpose) ==
  CASE purpose = "install" -> "create" [] OTHER -> "failed"

NotStopped ==
  /\ fault' = TRUE
  /\ CASE task = "cleanInf"  -> StopFor("remove")
       [] task = "unloadInf" -> StopFor("unload")
       [] OTHER -> To(IfNotStopped(task)) /\ UNCHANGED task

\* Mutant: a service that is about to stop counts as stopped.
StopAsPending ==
  /\ pc = "stop"
  /\ \/ service = "absent" /\ Fine(IfAbsent(task)) /\ UNCHANGED <<run, task>>
     \/ /\ service # "absent"
        /\ run' = IF run = "running" THEN "stopPending" ELSE run
        /\ Fine(IfStopped(task))
        /\ UNCHANGED task
     \/ NotStopped /\ UNCHANGED run
  /\ UNCHANGED <<inf, scm, image, origin, file, oldPath, created>>

Stop ==
  /\ pc = "stop"
  /\ \/ service = "absent" /\ Fine(IfAbsent(task)) /\ UNCHANGED <<run, task>>
     \/ /\ service # "absent" /\ run = "stopped"
        /\ Fine(IfStopped(task))
        /\ UNCHANGED <<run, task>>
     \/ /\ service # "absent" /\ run # "stopped"
        /\ run' = "stopPending"
        /\ Fine("wait")
        /\ UNCHANGED task
     \/ NotStopped /\ UNCHANGED run
  /\ UNCHANGED <<inf, scm, image, origin, file, oldPath, created>>

\* WaitForServiceState(SERVICE_STOPPED, 10000).
Wait ==
  /\ pc = "wait"
  /\ \/ run = "stopped" /\ Fine(IfStopped(task)) /\ UNCHANGED task
     \/ NotStopped
  /\ UNCHANGED <<inf, scm, driver, file, oldPath, created>>

-----------------------------------------------------------------------------
(* EnsureFreshKernelDriverInstall.                                         *)

QueryService ==
  /\ pc = "query"
  /\ \/ service = "absent" /\ Fine("install")
     \/ service # "absent" /\ Fine("compare")
     \/ Fault("failed")
  /\ UNCHANGED <<inf, scm, driver, file, locals>>

\* The installed file is missing or its hash is another than the local one's.
MustRefresh == Content # "fresh"

\* A service whose path or whose file cannot be read is cleaned up, too.
Refresh(namedPath) ==
  /\ oldPath' = namedPath
  /\ StopFor(IF inf THEN "cleanInf" ELSE "remove")

CompareHashes ==
  /\ pc = "compare"
  /\ \/ /\ service # "absent" /\ ~MustRefresh
        /\ Fine("install")
        /\ UNCHANGED <<task, oldPath>>
     \/ /\ service # "absent" /\ MustRefresh
        /\ Refresh(path)
        /\ UNCHANGED fault
     \/ /\ service # "absent"
        /\ \E namedPath \in {path, "none"} : Refresh(namedPath)
        /\ fault' = TRUE
     \/ Fault("failed") /\ UNCHANGED <<task, oldPath>>
  /\ UNCHANGED <<inf, scm, driver, file, created>>

\* The rest of UninstallKernelDriverViaInf; a failure is only logged.
CleanViaInf ==
  /\ pc = "cleanInf"
  /\ InfUninstall
  /\ StopFor("remove")
  /\ UNCHANGED <<inf, held, driver, oldPath, created, fault>>

\* The rest of RemoveWin32Service.
RemoveService ==
  /\ pc = "remove"
  /\ \/ Delete /\ Fine("deleteStale")
     \/ Fault("failed") /\ UNCHANGED <<service, path>>
  /\ UNCHANGED <<inf, held, driver, file, locals>>

DeleteStaleDriverBinary ==
  /\ pc = "deleteStale"
  /\ \/ oldPath # "system" /\ Fine("install") /\ UNCHANGED file
     \/ oldPath = "system" /\ file' = "absent" /\ Fine("install")
     \/ /\ oldPath = "system" /\ file # "absent"
        /\ Fault("failed")
        /\ UNCHANGED file
  /\ UNCHANGED <<inf, scm, driver, locals>>

-----------------------------------------------------------------------------
(* The rest of LoadKernelDriver.                                           *)

\* InstallKernelDriverViaInf first stops a service it finds, if the query that
\* finds it succeeds.
Install ==
  /\ pc = "install"
  /\ \/ ~inf /\ Fine("create") /\ UNCHANGED task
     \/ inf /\ service # "absent" /\ StopFor("install") /\ UNCHANGED fault
     \/ inf /\ service = "absent" /\ Fine("infInstall") /\ UNCHANGED task
     \/ inf /\ Fault("infInstall") /\ UNCHANGED task
  /\ UNCHANGED <<inf, scm, driver, file, oldPath, created>>

\* Then it invokes the INF and looks for the service.  The fallback is the path
\* of the code before there was an INF.
InstallViaInf ==
  /\ pc = "infInstall"
  /\ InfInstall
  /\ \/ /\ service' = "present" /\ path' = "system" /\ file' = "fresh"
        /\ Fine("start")
     \/ Fault(IF service' = "absent" THEN "create" ELSE "start")
     \/ Fault("create")
  /\ UNCHANGED <<inf, held, driver, locals>>

\* StartServiceW: a driver that is running already is a success.
CanStart == service = "present" /\ Content # "absent" /\ run = "stopped"
Started == run' = "running" /\ image' = Content /\ origin' = path

\* StartWin32Service also waits for the driver to run.
StartService ==
  /\ pc = "start"
  /\ \/ CanStart /\ Started /\ Fine("loaded")
     \/ run = "running" /\ Fine("loaded") /\ UNCHANGED driver
     \/ ~CanStart /\ run # "running" /\ Fine("failed") /\ UNCHANGED driver
     \/ Fault("failed") /\ (UNCHANGED driver \/ (CanStart /\ Started))
  /\ UNCHANGED <<inf, scm, file, locals>>

\* Mutant: the service is created without the path of the driver.
CreateWithoutPath ==
  /\ pc = "create"
  /\ service = "absent"
  /\ service' = "present" /\ created' = TRUE
  /\ Fine("configure")
  /\ UNCHANGED <<inf, path, held, driver, file, task, oldPath>>

\* Mutant: the old driver is not stopped.
ReuseWithoutStop ==
  /\ pc = "create"
  /\ service # "marked"
  /\ service' = "present" /\ path' = "local" /\ created' = (service = "absent")
  /\ Fine("configure")
  /\ UNCHANGED <<inf, held, driver, file, task, oldPath>>

\* Mutant: a service that exists already is not reused.
CreateOnly ==
  /\ pc = "create"
  /\ \/ /\ service = "absent"
        /\ service' = "present" /\ path' = "local" /\ created' = TRUE
        /\ Fine("configure")
     \/ /\ service = "present"
        /\ Fine("failed")
        /\ UNCHANGED <<service, path, created>>
  /\ UNCHANGED <<inf, held, driver, file, task, oldPath>>

\* CreateServiceW, or else OpenServiceW and ChangeServiceConfigW, and a stop of
\* the old driver.  A service marked for deletion can be neither created nor
\* changed.
CreateService ==
  /\ pc = "create"
  /\ \/ /\ service = "absent"
        /\ service' = "present" /\ path' = "local" /\ created' = TRUE
        /\ Fine("configure")
        /\ UNCHANGED task
     \/ /\ service = "present"
        /\ path' = "local"
        /\ StopFor("reuse")
        /\ UNCHANGED <<service, created, fault>>
     \/ Fault("failed") /\ UNCHANGED <<service, path, created, task>>
  /\ UNCHANGED <<inf, held, driver, file, oldPath>>

\* ConfigureMinifilterServiceInstance: the results of the last two writes, of the
\* instance's flags and its altitude, are not looked at.
ConfigureInstance ==
  /\ pc = "configure"
  /\ Fine("startLegacy") \/ Fault("startLegacy") \/ Fault("failed")
  /\ UNCHANGED <<inf, scm, driver, file, locals>>

\* A service that was created for this start is deleted when it fails, whatever
\* becomes of the deletion.
StartCreated ==
  /\ pc = "startLegacy"
  /\ \/ /\ CanStart /\ Started
        /\ Fine("loaded")
        /\ UNCHANGED <<service, path>>
     \/ /\ run = "running"
        /\ Fine("loaded")
        /\ UNCHANGED <<service, path, driver>>
     \/ /\ Fault("failed") \/ (~CanStart /\ run # "running" /\ Fine("failed"))
        /\ (created /\ Delete) \/ UNCHANGED <<service, path>>
        /\ UNCHANGED driver
  /\ UNCHANGED <<inf, held, file, locals>>

-----------------------------------------------------------------------------
(* The rest of UnloadKernelDriver.                                         *)

UnloadViaInf ==
  /\ pc = "unloadInf"
  /\ InfUninstall
  /\ \/ service' = "absent" /\ Fine("unloaded") /\ UNCHANGED task
     \/ StopFor("unload") /\ fault' = TRUE
  /\ UNCHANGED <<inf, held, driver, oldPath, created>>

UnloadService ==
  /\ pc = "unload"
  /\ \/ Delete /\ Fine("unloaded")
     \/ Fault("failed") /\ UNCHANGED <<service, path>>
  /\ UNCHANGED <<inf, held, driver, file, locals>>

-----------------------------------------------------------------------------
EnsureFresh ==
  \/ QueryService \/ CompareHashes \/ CleanViaInf \/ RemoveService
  \/ DeleteStaleDriverBinary
Load ==
  \/ BeginLoad \/ EnsureFresh \/ Install \/ InstallViaInf \/ StartService
  \/ CreateService \/ ConfigureInstance \/ StartCreated
Unload == BeginUnload \/ UnloadViaInf \/ UnloadService
Environment == DriverStopped \/ Hold \/ Release \/ Upgrade \/ Killed

Next == Load \/ Unload \/ Stop \/ Wait \/ Environment

Spec == Init /\ [][Next]_vars

-----------------------------------------------------------------------------
(* Properties.                                                             *)

\* A load in which every call works ends with the driver running in the version
\* next to HostGuard.exe, whatever was installed or running before, and however
\* earlier loads and unloads ended or were interrupted.
CleanLoadIsFresh == result = "loaded" /\ ~fault => run = "running" /\ image = "fresh"

\* When UnloadKernelDriver returns true, the driver has stopped, and so has its
\* service, which is gone or goes with the last handle that others have on it.
UnloadedMeansGone ==
  result = "unloaded" => run = "stopped" /\ service # "present"

\* A load or an unload in which every call works succeeds: nothing that a
\* failed or an interrupted call leaves behind stands in the way of the next.
FailureHasCause == result = "failed" => fault

=============================================================================
