---------------------------- MODULE VerdictPort ----------------------------
(***************************************************************************)
(* ProcessVerdictMonitorThread (HostGuard.cpp): the thread that connects   *)
(* to the driver's verdict port, posts receives on a completion port, lets *)
(* workers handle the messages and starts over when the connection breaks. *)
(*                                                                         *)
(* A receive is a ProcessPortAsyncContext.  Contexts are interchangeable,  *)
(* so they are counted: posted ones wait in the filter manager, completed  *)
(* ones wait on the completion port as a message, as failed or as          *)
(* cancelled, the others are with a worker or lost for this connection.    *)
(* What a message is answered is the subject of ProcessVerdict, and what a *)
(* reconnection sends to the driver that of RuleSync.                      *)
(***************************************************************************)
EXTENDS Naturals, FiniteSets

CONSTANTS
  Workers,           \* the worker threads of a connection
  ReceivesPerWorker, \* kProcessPortOutstandingPerWorker
  BackoffMin,        \* kProcessPortBackoffMinMs
  BackoffMax,        \* kProcessPortBackoffMaxMs
  DisconnectError,   \* the error with which a lost port fails its calls
  SetupMayFail,      \* the completion port or the first receives may fail
  CallsMayFail       \* the calls of a worker may fail on a port that is up

\* The errors by which the program recognises a lost port.
IsProcessPortDisconnected(hr) == hr \in {"invalidHandle", "deletingObject"}

ASSUME ConstantsAssumption ==
  /\ IsFiniteSet(Workers) /\ Workers # {}
  /\ ReceivesPerWorker \in Nat \ {0}
  /\ BackoffMin \in Nat \ {0} /\ BackoffMax \in Nat
  /\ BackoffMin <= BackoffMax
  /\ IsProcessPortDisconnected(DisconnectError)
  /\ SetupMayFail \in BOOLEAN
  /\ CallsMayFail \in BOOLEAN

VARIABLES
  stop,        \* g_StopEvent is set
  shutdown,    \* progress of a call of RequestShutdown
  server,      \* the driver's port can be connected to
  link,        \* the connection: "none", "up", or "down" once it is lost
  mpc,         \* where ProcessVerdictMonitorThread is
  backoff,     \* reconnectBackoffMs
  broken,      \* connectionBroken
  cancelling,  \* cancellationIssued
  fatal,       \* fatalHr
  wpc,         \* where each worker is
  whr,         \* the error a worker is about to report
  posted, messages, failed, cancelled, lost  \* contexts

contexts == <<posted, messages, failed, cancelled, lost>>
main == <<mpc, backoff>>
shared == <<broken, cancelling, fatal>>
vars == <<stop, shutdown, server, link, main, shared, wpc, whr, contexts>>

Errors == {"invalidHandle", "deletingObject", "aborted", "otherError"}
Outstanding == Cardinality(Workers) * ReceivesPerWorker

TypeOK ==
  /\ stop \in BOOLEAN
  /\ shutdown \in {"none", "cancel", "done"}
  /\ server \in BOOLEAN
  /\ link \in {"none", "up", "down"}
  /\ mpc \in {"connect", "backoff", "setup", "post", "watch", "cancel", "join",
              "close", "exit"}
  /\ backoff \in BackoffMin..BackoffMax
  /\ broken \in BOOLEAN
  /\ cancelling \in BOOLEAN
  /\ fatal \in Errors \cup {"ok"}
  /\ wpc \in [Workers -> {"test", "wait", "handle", "check", "post", "break",
                          "alarm", "cancelIo", "ended"}]
  /\ whr \in [Workers -> Errors \cup {"ok"}]
  /\ posted \in Nat /\ messages \in Nat /\ failed \in Nat
  /\ cancelled \in Nat /\ lost \in Nat

Init ==
  /\ stop = FALSE /\ shutdown = "none"
  /\ server \in BOOLEAN /\ link = "none"
  /\ mpc = "connect" /\ backoff = BackoffMin
  /\ broken = FALSE /\ cancelling = FALSE /\ fatal = "ok"
  /\ wpc = [w \in Workers |-> "ended"]
  /\ whr = [w \in Workers |-> "ok"]
  /\ posted = 0 /\ messages = 0 /\ failed = 0 /\ cancelled = 0 /\ lost = 0

-----------------------------------------------------------------------------
(* Errors.                                                                 *)

\* Mutant: a port that is being deleted counts as a cancellation, too.
CancelledOrDisconnected(hr) == hr \in {"aborted", "invalidHandle", "deletingObject"}

IsPortOperationCancelled(hr) == hr \in {"aborted", "invalidHandle"}

\* Mutant: the wait is doubled without regard to the maximum.
DoubledBackoff == backoff * 2

NextBackoff == IF backoff >= BackoffMax \div 2 THEN BackoffMax ELSE backoff * 2

\* CancelIoEx on the port: every posted receive completes as cancelled.
CancelIoEx ==
  /\ posted' = 0
  /\ cancelled' = cancelled + posted
  /\ UNCHANGED <<messages, failed, lost>>

-----------------------------------------------------------------------------
(* The environment: the driver and RequestShutdown.                        *)

\* The driver (or its port) goes away: posted receives fail.
DriverDown ==
  /\ server
  /\ server' = FALSE
  /\ link' = IF link = "up" THEN "down" ELSE link
  /\ posted' = 0
  /\ failed' = failed + posted
  /\ UNCHANGED <<stop, shutdown, main, shared, wpc, whr, messages, cancelled, lost>>

DriverUp ==
  /\ ~server
  /\ server' = TRUE
  /\ UNCHANGED <<stop, shutdown, link, main, shared, wpc, whr, contexts>>

\* The driver asks about a process and a posted receive takes the message.
Deliver ==
  /\ link = "up" /\ posted > 0
  /\ posted' = posted - 1
  /\ messages' = messages + 1
  /\ UNCHANGED <<stop, shutdown, server, link, main, shared, wpc, whr, failed,
                 cancelled, lost>>

\* RequestShutdown sets the stop event and then cancels what is pending on the
\* tracked handles.
SetStopEvent ==
  /\ shutdown = "none"
  /\ shutdown' = "cancel"
  /\ stop' = TRUE
  /\ UNCHANGED <<server, link, main, shared, wpc, whr, contexts>>

CancelTrackedPort ==
  /\ shutdown = "cancel"
  /\ shutdown' = "done"
  /\ IF link # "none" THEN CancelIoEx ELSE UNCHANGED contexts
  /\ UNCHANGED <<stop, server, link, main, shared, wpc, whr>>

-----------------------------------------------------------------------------
(* The monitor thread.                                                     *)

\* The outer loop: leave on shutdown, or try to connect.  Every connection
\* resets the backoff, whatever becomes of it.
Connect ==
  /\ mpc = "connect"
  /\ \/ /\ stop
        /\ mpc' = "exit"
        /\ UNCHANGED <<link, backoff>>
     \/ /\ ~stop /\ server
        /\ link' = "up"
        /\ backoff' = BackoffMin
        /\ mpc' = "setup"
     \/ /\ ~stop /\ ~server
        /\ mpc' = "backoff"
        /\ UNCHANGED <<link, backoff>>
  /\ UNCHANGED <<stop, shutdown, server, shared, wpc, whr, contexts>>

\* WaitForShutdown(reconnectBackoffMs).
Backoff ==
  /\ mpc = "backoff"
  /\ IF stop THEN mpc' = "exit" /\ UNCHANGED backoff
             ELSE mpc' = "connect" /\ backoff' = NextBackoff
  /\ UNCHANGED <<stop, shutdown, server, link, shared, wpc, whr, contexts>>

\* CreateIoCompletionPort.
CreateCompletionPort ==
  /\ mpc = "setup"
  /\ \/ mpc' = "post" /\ UNCHANGED link
     \/ SetupMayFail /\ mpc' = "backoff" /\ link' = "none"
  /\ UNCHANGED <<stop, shutdown, server, backoff, shared, wpc, whr, contexts>>

\* The loop that posts a receive per context.  The first failure cancels the
\* receives posted so far and drops the connection.
PostFirstReceives ==
  /\ mpc = "post"
  /\ posted + messages + failed + cancelled < Outstanding
  /\ \/ /\ link = "up"
        /\ posted' = posted + 1
        /\ UNCHANGED <<mpc, link, messages, failed, cancelled, lost>>
     \/ /\ link = "down" \/ SetupMayFail
        /\ link' = "none"
        /\ mpc' = "backoff"
        /\ posted' = 0 /\ messages' = 0 /\ failed' = 0 /\ cancelled' = 0 /\ lost' = 0
  /\ UNCHANGED <<stop, shutdown, server, backoff, shared, wpc, whr>>

SpawnWorkers ==
  /\ mpc = "post"
  /\ posted + messages + failed + cancelled = Outstanding
  /\ mpc' = "watch"
  /\ broken' = FALSE /\ cancelling' = FALSE /\ fatal' = "ok"
  /\ wpc' = [w \in Workers |-> "test"]
  /\ UNCHANGED <<stop, shutdown, server, link, backoff, whr, contexts>>

\* while (!IsShutdownRequested() && !connectionBroken) Sleep(200).
Watch ==
  /\ mpc = "watch"
  /\ stop \/ broken
  /\ mpc' = "cancel"
  /\ UNCHANGED <<stop, shutdown, server, link, backoff, shared, wpc, whr, contexts>>

CancelOnce ==
  /\ mpc = "cancel"
  /\ mpc' = "join"
  /\ cancelling' = TRUE
  /\ IF cancelling THEN UNCHANGED contexts ELSE CancelIoEx
  /\ UNCHANGED <<stop, shutdown, server, link, backoff, broken, fatal, wpc, whr>>

\* Mutant: the workers are not waited for.
JoinNobody ==
  /\ mpc = "join"
  /\ mpc' = "close"
  /\ UNCHANGED <<stop, shutdown, server, link, backoff, shared, wpc, whr, contexts>>

Join ==
  /\ mpc = "join"
  /\ \A w \in Workers : wpc[w] = "ended"
  /\ mpc' = "close"
  /\ UNCHANGED <<stop, shutdown, server, link, backoff, shared, wpc, whr, contexts>>

\* The completion port and the verdict port are closed and the contexts, local
\* to the iteration, are destroyed.
Close ==
  /\ mpc = "close"
  /\ mpc' = "connect"
  /\ link' = "none"
  /\ posted' = 0 /\ messages' = 0 /\ failed' = 0 /\ cancelled' = 0 /\ lost' = 0
  /\ UNCHANGED <<stop, shutdown, server, backoff, shared, wpc, whr>>

-----------------------------------------------------------------------------
(* A worker.                                                               *)

At(w, label) == wpc' = [wpc EXCEPT ![w] = label]

\* Mutant: a worker looks at the connection only.
TestBrokenOnly(w) ==
  /\ wpc[w] = "test"
  /\ At(w, IF broken THEN "ended" ELSE "wait")
  /\ UNCHANGED <<stop, shutdown, server, link, main, shared, whr, contexts>>

\* The condition of the worker's loop.
Test(w) ==
  /\ wpc[w] = "test"
  /\ At(w, IF stop \/ broken THEN "ended" ELSE "wait")
  /\ UNCHANGED <<stop, shutdown, server, link, main, shared, whr, contexts>>

\* What a worker does with the error hr of a call on its context: a
\* cancellation is dropped with the context, any other error breaks the
\* connection.
Abandon(w, hr) ==
  IF IsPortOperationCancelled(hr)
  THEN /\ At(w, "test")
       /\ lost' = lost + 1
       /\ UNCHANGED whr
  ELSE /\ At(w, "break")
       /\ whr' = [whr EXCEPT ![w] = hr]
       /\ UNCHANGED lost

\* GetQueuedCompletionStatus with its time-out of 500 ms.  It may fail itself, and
\* a receive may fail on a port that is up.
Dequeue(w) ==
  /\ wpc[w] = "wait"
  /\ \/ /\ messages + failed + cancelled = 0
        /\ At(w, "test")
        /\ UNCHANGED <<whr, contexts>>
     \/ /\ CallsMayFail
        /\ At(w, "alarm")
        /\ whr' = [whr EXCEPT ![w] = "otherError"]
        /\ UNCHANGED contexts
     \/ /\ CallsMayFail /\ link = "up" /\ posted > 0
        /\ posted' = posted - 1
        /\ Abandon(w, "otherError")
        /\ UNCHANGED <<messages, failed, cancelled>>
     \/ /\ messages > 0
        /\ messages' = messages - 1
        /\ At(w, "handle")
        /\ UNCHANGED <<whr, posted, failed, cancelled, lost>>
     \/ /\ failed > 0
        /\ failed' = failed - 1
        /\ Abandon(w, DisconnectError)
        /\ UNCHANGED <<posted, messages, cancelled>>
     \/ /\ cancelled > 0
        /\ cancelled' = cancelled - 1
        /\ Abandon(w, "aborted")
        /\ UNCHANGED <<posted, messages, failed>>
  /\ UNCHANGED <<stop, shutdown, server, link, main, shared>>

\* The errors with which a reply may fail.
ReplyErrors ==
  {hr \in Errors :
     \/ hr = DisconnectError /\ link = "down"
     \/ hr = "aborted" /\ (stop \/ cancelling)
     \/ hr = "otherError" /\ link = "up" /\ CallsMayFail}

\* HandleProcessVerdictMessage: the reply is taken or has expired (which a port
\* that is down may tell, too), or fails.  A
\* reply that is cancelled during shutdown returns false and no error, which
\* the worker takes for a broken connection.
Handle(w) ==
  /\ wpc[w] = "handle"
  /\ \/ /\ At(w, "check")
        /\ UNCHANGED <<whr, lost>>
     \/ \E hr \in ReplyErrors :
          IF stop /\ IsPortOperationCancelled(hr)
          THEN /\ At(w, "break")
               /\ whr' = [whr EXCEPT ![w] = "ok"]
               /\ UNCHANGED lost
          ELSE Abandon(w, hr)
  /\ UNCHANGED <<stop, shutdown, server, link, main, shared, posted, messages,
                 failed, cancelled>>

\* The context is reused unless the connection is about to end.
CheckBeforeRepost(w) ==
  /\ wpc[w] = "check"
  /\ IF stop \/ broken THEN At(w, "test") /\ lost' = lost + 1
                       ELSE At(w, "post") /\ UNCHANGED lost
  /\ UNCHANGED <<stop, shutdown, server, link, main, shared, whr, posted, messages,
                 failed, cancelled>>

PostProcessPortReceive(w) ==
  /\ wpc[w] = "post"
  /\ \/ /\ link = "up"
        /\ posted' = posted + 1
        /\ At(w, "test")
        /\ UNCHANGED <<whr, lost>>
     \/ /\ \/ link = "down" /\ Abandon(w, DisconnectError)
           \/ link = "up" /\ CallsMayFail /\ Abandon(w, "otherError")
        /\ UNCHANGED posted
  /\ UNCHANGED <<stop, shutdown, server, link, main, shared, messages, failed,
                 cancelled>>

\* Mutant: the error is recorded but the flag is not raised.
RecordOnly(w) ==
  /\ wpc[w] \in {"break", "alarm"}
  /\ fatal' = IF fatal = "ok" THEN whr[w] ELSE fatal
  /\ lost' = IF wpc[w] = "break" THEN lost + 1 ELSE lost
  /\ At(w, "cancelIo")
  /\ UNCHANGED <<stop, shutdown, server, link, main, broken, cancelling, whr,
                 posted, messages, failed, cancelled>>

\* setConnectionBroken: the first error is recorded and the flag is raised (the
\* worker drops the receive, unless it has none);
SetConnectionBroken(w) ==
  /\ wpc[w] \in {"break", "alarm"}
  /\ fatal' = IF fatal = "ok" THEN whr[w] ELSE fatal
  /\ broken' = TRUE
  /\ lost' = IF wpc[w] = "break" THEN lost + 1 ELSE lost
  /\ At(w, "cancelIo")
  /\ UNCHANGED <<stop, shutdown, server, link, main, cancelling, whr, posted,
                 messages, failed, cancelled>>

\* then the first to come cancels what is pending.
CancelPending(w) ==
  /\ wpc[w] = "cancelIo"
  /\ cancelling' = TRUE
  /\ IF cancelling THEN UNCHANGED contexts ELSE CancelIoEx
  /\ At(w, "test")
  /\ UNCHANGED <<stop, shutdown, server, link, main, broken, fatal, whr>>

-----------------------------------------------------------------------------
Main ==
  \/ Connect \/ Backoff \/ CreateCompletionPort \/ PostFirstReceives
  \/ SpawnWorkers \/ Watch \/ CancelOnce \/ Join \/ Close
Worker(w) ==
  \/ Test(w) \/ Dequeue(w) \/ Handle(w) \/ CheckBeforeRepost(w)
  \/ PostProcessPortReceive(w) \/ SetConnectionBroken(w) \/ CancelPending(w)
Environment == DriverDown \/ DriverUp \/ Deliver \/ SetStopEvent
Exited == mpc = "exit" /\ UNCHANGED vars

Next ==
  Main \/ (\E w \in Workers : Worker(w)) \/ CancelTrackedPort \/ Environment \/ Exited

Spec == Init /\ [][Next]_vars

\* The threads are scheduled, their waits have time-outs and their calls return.
FairSpec ==
  /\ Spec
  /\ WF_vars(Main)
  /\ WF_vars(CancelTrackedPort)
  /\ \A w \in Workers : WF_vars(Worker(w))

-----------------------------------------------------------------------------
(* Properties.                                                             *)

\* While the monitor thread believes in the connection, no receive is lost: a
\* pipeline that is neither broken nor shut down keeps its full capacity.
CapacityKept == mpc = "watch" /\ ~broken /\ ~stop => lost = 0

\* The workers that have a receive in their hands.
Holding == {w \in Workers : wpc[w] \in {"handle", "check", "post", "break"}}

\* A connection that the driver has dropped does not go unnoticed: until the flag
\* is raised, a failed receive, a message whose reply cannot be sent or a worker
\* with a receive to post again is left that will meet the error (1893-1968).
LossNoticed ==
  link = "down" /\ mpc = "watch" /\ ~broken /\ ~stop
    => failed > 0 \/ messages > 0 \/ Holding # {}

\* The contexts, the flags and the two ports are locals of one iteration of the
\* monitor thread: no worker is left to use them when the iteration ends.
WorkersWithinConnection ==
  mpc \notin {"watch", "cancel", "join"} => \A w \in Workers : wpc[w] = "ended"

\* A connection that the driver has dropped is noticed by some worker and the
\* monitor thread connects again (HostGuard.cpp:2013, "准备重连").
Reconnects == link = "down" /\ mpc = "watch" ~> mpc \in {"connect", "exit"}

\* The monitor thread ends when shutdown is requested, wherever it and its
\* workers are, so that the join in RunProtectionEngine returns.
ShutdownEnds == stop ~> mpc = "exit"
=============================================================================
