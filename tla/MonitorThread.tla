--------------------------- MODULE MonitorThread ---------------------------
(***************************************************************************)
(* What the engine and a thread it starts promise each other: the thread   *)
(* works until it is asked to stop and does not end before; the engine     *)
(* does not take the request back while the thread runs.  VerdictPort and  *)
(* DriverEvents implement it from the side of the thread, ServiceLifecycle *)
(* from the side of the engine.                                            *)
(***************************************************************************)
VARIABLES
  thread,  \* "none", "running", "ended", or "killed" with its process
  stop     \* the thread is asked to stop
vars == <<thread, stop>>

Init == thread \in {"none", "running"} /\ stop \in BOOLEAN

Start == thread = "none" /\ thread' = "running" /\ UNCHANGED stop

RequestStop == stop' = TRUE /\ UNCHANGED thread

\* Only before the thread is started, or when it has ended.
Reset == thread # "running" /\ stop' = FALSE /\ UNCHANGED thread

End == thread = "running" /\ stop /\ thread' = "ended" /\ UNCHANGED stop

\* The system terminates the process.
Kill == thread' = "killed" /\ UNCHANGED stop

Next == Start \/ RequestStop \/ Reset \/ End \/ Kill

Spec == Init /\ [][Next]_vars
=============================================================================
