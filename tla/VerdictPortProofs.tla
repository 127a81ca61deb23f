-------------------------- MODULE VerdictPortProofs --------------------------
(***************************************************************************)
(* Proofs about VerdictPort, for any number of workers and receives and any *)
(* limits of the backoff.                                                   *)
(***************************************************************************)
EXTENDS VerdictPort, FiniteSetTheorems, TLAPS

\* RequestShutdown cancels only after it has set the stop event.
ShutdownStops == shutdown # "none" => stop

\* The first cancellation of a connection that is watched comes from the worker
\* that breaks it, which raises the flag before.
BrokenFirst ==
  /\ mpc = "watch" /\ cancelling => broken
  /\ mpc \in {"watch", "cancel", "join"} =>
       \A w \in Workers : wpc[w] = "cancelIo" => broken

\* A connection starts with all of its receives, and nothing cancels or loses
\* one before the connection is broken or the program stops.
NothingLostYet ==
  /\ mpc \in {"connect", "backoff", "setup", "post"} => lost = 0
  /\ \/ mpc \in {"connect", "backoff", "setup", "post"}
     \/ mpc = "watch" /\ ~broken
     => stop \/ (cancelled = 0 /\ lost = 0)

-----------------------------------------------------------------------------
\* The types: every count of contexts stays a natural number, and the backoff
\* between its limits.
LEMMA TypeStep == TypeOK /\ [Next]_vars => TypeOK'
<1> SUFFICES ASSUME TypeOK, [Next]_vars PROVE TypeOK'
  OBVIOUS
<1> USE ConstantsAssumption
    DEF TypeOK, main, shared, contexts, Errors, IsProcessPortDisconnected
<1>1. CASE Connect
  BY <1>1 DEF Connect
<1>2. CASE Backoff
  <2>1. NextBackoff \in BackoffMin..BackoffMax
    BY DEF NextBackoff
  <2> QED
    BY <2>1, <1>2 DEF Backoff
<1>3. CASE CreateCompletionPort
  BY <1>3 DEF CreateCompletionPort
<1>4. CASE PostFirstReceives
  BY <1>4 DEF PostFirstReceives
<1>5. CASE SpawnWorkers
  BY <1>5 DEF SpawnWorkers
<1>6. CASE Watch
  BY <1>6 DEF Watch
<1>7. CASE CancelOnce
  BY <1>7 DEF CancelOnce, CancelIoEx
<1>8. CASE Join
  BY <1>8 DEF Join
<1>9. CASE Close
  BY <1>9 DEF Close
<1>10. ASSUME NEW w \in Workers, Test(w) PROVE TypeOK'
  BY <1>10 DEF Test, At
<1>11. ASSUME NEW w \in Workers, Dequeue(w) PROVE TypeOK'
  BY <1>11 DEF Dequeue, Abandon, At
<1>12. ASSUME NEW w \in Workers, Handle(w) PROVE TypeOK'
  BY <1>12 DEF Handle, Abandon, At, ReplyErrors
<1>13. ASSUME NEW w \in Workers, CheckBeforeRepost(w) PROVE TypeOK'
  BY <1>13 DEF CheckBeforeRepost, At
<1>14. ASSUME NEW w \in Workers, PostProcessPortReceive(w) PROVE TypeOK'
  BY <1>14 DEF PostProcessPortReceive, Abandon, At
<1>15. ASSUME NEW w \in Workers, SetConnectionBroken(w) PROVE TypeOK'
  BY <1>15 DEF SetConnectionBroken, At
<1>16. ASSUME NEW w \in Workers, CancelPending(w) PROVE TypeOK'
  BY <1>16 DEF CancelPending, CancelIoEx, At
<1>17. CASE CancelTrackedPort
  BY <1>17 DEF CancelTrackedPort, CancelIoEx
<1>18. CASE DriverDown
  <2>1. link' \in {"none", "up", "down"} /\ server' \in BOOLEAN
    BY <1>18 DEF DriverDown
  <2>2. posted' \in Nat /\ failed' \in Nat
    BY <1>18 DEF DriverDown
  <2> QED
    BY <1>18, <2>1, <2>2 DEF DriverDown
<1>19. CASE DriverUp
  BY <1>19 DEF DriverUp
<1>20. CASE Deliver
  BY <1>20 DEF Deliver
<1>21. CASE SetStopEvent
  BY <1>21 DEF SetStopEvent
<1>22. CASE Exited \/ UNCHANGED vars
  BY <1>22 DEF Exited, vars
<1> QED
  BY <1>1, <1>2, <1>3, <1>4, <1>5, <1>6, <1>7, <1>8, <1>9, <1>10, <1>11, <1>12,
     <1>13, <1>14, <1>15, <1>16, <1>17, <1>18, <1>19, <1>20, <1>21, <1>22
  DEF Next, Main, Worker, Environment

\* The thread starts without a connection and with the shortest backoff.
LEMMA InitialTypes == Init => TypeOK
<1> SUFFICES ASSUME Init PROVE TypeOK
  OBVIOUS
<1>1. backoff \in BackoffMin..BackoffMax
  BY ConstantsAssumption DEF Init
<1>2. whr \in [Workers -> Errors \cup {"ok"}] /\ fatal \in Errors \cup {"ok"}
  BY DEF Init
<1> QED
  BY <1>1, <1>2 DEF Init, TypeOK

\* Type correctness of the monitor thread, its workers and its contexts.
THEOREM PortTypeCorrect == Spec => []TypeOK
<1> QED
  BY InitialTypes, TypeStep, PTL DEF Spec

-----------------------------------------------------------------------------
\* Workers start only in SpawnWorkers, and Join waits for each of them.
LEMMA ConnectionStep ==
  TypeOK /\ WorkersWithinConnection /\ [Next]_vars => WorkersWithinConnection'
<1> SUFFICES ASSUME TypeOK, WorkersWithinConnection, [Next]_vars
             PROVE  WorkersWithinConnection'
  OBVIOUS
<1> USE DEF TypeOK, WorkersWithinConnection, main
<1>1. CASE Main
  BY <1>1 DEF Main, Connect, Backoff, CreateCompletionPort, PostFirstReceives,
              SpawnWorkers, Watch, CancelOnce, Join, Close
<1>2. ASSUME NEW w \in Workers, Worker(w) PROVE WorkersWithinConnection'
  BY <1>2 DEF Worker, Test, Dequeue, Handle, CheckBeforeRepost,
              PostProcessPortReceive, SetConnectionBroken, CancelPending
<1>3. CASE CancelTrackedPort \/ Environment
  BY <1>3 DEF CancelTrackedPort, Environment, DriverDown, DriverUp, Deliver,
              SetStopEvent
<1>4. CASE Exited \/ UNCHANGED vars
  BY <1>4 DEF Exited, vars
<1> QED
  BY <1>1, <1>2, <1>3, <1>4 DEF Next

\* For any number of workers: none of them runs when ProcessVerdictMonitorThread
\* destroys the contexts and closes the ports of a connection.
THEOREM WorkersStayWithin == Spec => []WorkersWithinConnection
<1>1. Init => WorkersWithinConnection
  BY DEF Init, WorkersWithinConnection
<1> QED
  BY <1>1, ConnectionStep, PortTypeCorrect, PTL DEF Spec

-----------------------------------------------------------------------------
CapacityInv ==
  /\ TypeOK
  /\ WorkersWithinConnection
  /\ ShutdownStops
  /\ BrokenFirst
  /\ NothingLostYet

\* The shutdown and the cancellations, whatever error a lost port gives.
LEMMA FlagsStep ==
  TypeOK /\ ShutdownStops /\ BrokenFirst /\ [Next]_vars => ShutdownStops' /\ BrokenFirst'
<1> SUFFICES ASSUME TypeOK, ShutdownStops, BrokenFirst, [Next]_vars
             PROVE  ShutdownStops' /\ BrokenFirst'
  OBVIOUS
<1> USE DEF TypeOK, ShutdownStops, BrokenFirst, main, shared
<1>1. CASE Main
  BY <1>1 DEF Main, Connect, Backoff, CreateCompletionPort, PostFirstReceives,
              SpawnWorkers, Watch, CancelOnce, Join, Close
<1>2. ASSUME NEW w \in Workers, Worker(w) PROVE ShutdownStops' /\ BrokenFirst'
  <2>1. CASE Test(w) \/ CheckBeforeRepost(w)
    BY <2>1 DEF Test, CheckBeforeRepost, At
  <2>2. CASE Dequeue(w) \/ PostProcessPortReceive(w)
    BY <2>2 DEF Dequeue, PostProcessPortReceive, Abandon, At
  <2>3. CASE Handle(w)
    BY <2>3 DEF Handle, Abandon, At
  <2>4. CASE SetConnectionBroken(w)
    BY <2>4 DEF SetConnectionBroken, At
  <2>5. CASE CancelPending(w)
    BY <2>5 DEF CancelPending, At
  <2> QED
    BY <1>2, <2>1, <2>2, <2>3, <2>4, <2>5 DEF Worker
<1>3. CASE CancelTrackedPort \/ Environment
  BY <1>3 DEF CancelTrackedPort, Environment, DriverDown, DriverUp, Deliver,
              SetStopEvent
<1>4. CASE Exited \/ UNCHANGED vars
  BY <1>4 DEF Exited, vars
<1> QED
  BY <1>1, <1>2, <1>3, <1>4 DEF Next

\* Where a lost port is told from a cancellation, a worker that meets an error
\* breaks the connection instead of dropping its receive.
LEMMA LossStep ==
  ASSUME ~IsPortOperationCancelled(DisconnectError), CapacityInv, [Next]_vars
  PROVE  NothingLostYet'
<1> USE DEF CapacityInv, TypeOK, NothingLostYet, main, shared, contexts
<1>0. ~IsPortOperationCancelled("otherError")
  BY DEF IsPortOperationCancelled
<1>1. CASE Main
  <2>1. CASE Connect \/ Backoff \/ CreateCompletionPort \/ Watch \/ Join
    BY <2>1 DEF Connect, Backoff, CreateCompletionPort, Watch, Join
  <2>2. CASE PostFirstReceives \/ SpawnWorkers \/ Close
    BY <2>2 DEF PostFirstReceives, SpawnWorkers, Close
  <2>3. CASE CancelOnce
    BY <2>3 DEF CancelOnce
  <2> QED
    BY <1>1, <2>1, <2>2, <2>3 DEF Main
<1>2. ASSUME NEW w \in Workers, Worker(w) PROVE NothingLostYet'
  <2> USE DEF WorkersWithinConnection, At
  <2>1. CASE Test(w)
    BY <2>1 DEF Test
  <2>2. CASE Dequeue(w)
    BY <1>0, <2>2 DEF Dequeue, Abandon
  <2>3. CASE Handle(w)
    BY <2>3 DEF Handle, Abandon, ReplyErrors, IsPortOperationCancelled, Errors,
                BrokenFirst
  <2>4. CASE CheckBeforeRepost(w)
    BY <2>4 DEF CheckBeforeRepost
  <2>5. CASE PostProcessPortReceive(w)
    BY <1>0, <2>5 DEF PostProcessPortReceive, Abandon
  <2>6. CASE SetConnectionBroken(w)
    BY <2>6 DEF SetConnectionBroken
  <2>7. CASE CancelPending(w)
    BY <2>7 DEF CancelPending, CancelIoEx, BrokenFirst
  <2> QED
    BY <1>2, <2>1, <2>2, <2>3, <2>4, <2>5, <2>6, <2>7 DEF Worker
<1>3. CASE CancelTrackedPort
  BY <1>3 DEF CancelTrackedPort, CancelIoEx, ShutdownStops
<1>4. CASE Environment
  BY <1>4 DEF Environment, DriverDown, DriverUp, Deliver, SetStopEvent
<1>5. CASE Exited \/ UNCHANGED vars
  BY <1>5 DEF Exited, vars
<1> QED
  BY <1>1, <1>2, <1>3, <1>4, <1>5 DEF Next

\* For any number of workers and receives: if a lost port fails its calls with
\* an error that IsPortOperationCancelled does not take for a cancellation, a
\* connection that is neither broken nor shut down has lost no receive.
THEOREM KeepsCapacity ==
  ASSUME ~IsPortOperationCancelled(DisconnectError)
  PROVE  Spec => []CapacityKept
<1>1. Init => CapacityInv
  BY InitialTypes
  DEF Init, CapacityInv, WorkersWithinConnection, ShutdownStops, BrokenFirst,
      NothingLostYet
<1>2. CapacityInv /\ [Next]_vars => CapacityInv'
  BY TypeStep, ConnectionStep, FlagsStep, LossStep DEF CapacityInv
<1>3. CapacityInv => CapacityKept
  BY DEF CapacityInv, NothingLostYet, CapacityKept
<1> QED
  BY <1>1, <1>2, <1>3, PTL DEF Spec

-----------------------------------------------------------------------------
(* Where the receives are.                                                 *)

Holders == {"handle", "check", "post", "break"}
Accounted == posted + messages + failed + cancelled + lost + Cardinality(Holding)

\* Every receive of a connection is in one place until its contexts are freed.
ContextsConserved ==
  /\ mpc \in {"connect", "backoff", "setup", "exit"} => Accounted = 0
  /\ mpc = "post" => Accounted <= Outstanding /\ lost = 0
  /\ mpc \in {"watch", "cancel", "join", "close"} => Accounted = Outstanding

\* A connection has at least one receive.
LEMMA SomeReceives == Outstanding \in Nat /\ Outstanding >= 1
<1>1. Cardinality(Workers) \in Nat /\ Cardinality(Workers) >= 1
  <2>1. Cardinality(Workers) \in Nat /\ Cardinality(Workers) # 0
    BY ConstantsAssumption, FS_CardinalityType, FS_EmptySet
  <2> QED
    BY <2>1
<1>2. ReceivesPerWorker \in Nat /\ ReceivesPerWorker >= 1
  BY ConstantsAssumption
<1>3. \A m, n \in Nat : m >= 1 /\ n >= 1 => m * n \in Nat /\ m * n >= 1
  OBVIOUS
<1> QED
  BY <1>1, <1>2, <1>3 DEF Outstanding

\* A worker takes a receive, or lets go of it, or does neither.
LEMMA HoldingStep ==
  ASSUME TypeOK, NEW w \in Workers, NEW label, At(w, label)
  PROVE  /\ Cardinality(Holding) \in Nat /\ Cardinality(Holding') \in Nat
         /\ wpc[w] \in Holders /\ label \notin Holders
              => Cardinality(Holding') + 1 = Cardinality(Holding)
         /\ wpc[w] \notin Holders /\ label \in Holders
              => Cardinality(Holding') = Cardinality(Holding) + 1
         /\ (wpc[w] \in Holders <=> label \in Holders)
              => Cardinality(Holding') = Cardinality(Holding)
<1>1. wpc'[w] = label /\ \A v \in Workers \ {w} : wpc'[v] = wpc[v]
  BY DEF TypeOK, At
<1>2. IsFiniteSet(Holding) /\ IsFiniteSet(Holding')
  BY ConstantsAssumption, FS_Subset DEF Holding
<1>3. Cardinality(Holding) \in Nat /\ Cardinality(Holding') \in Nat
  BY <1>2, FS_CardinalityType
<1>4. \A v \in Workers : v \in Holding <=> wpc[v] \in Holders
  BY DEF Holding, Holders
<1>5. Holding \subseteq Workers /\ Holding' \subseteq Workers
      /\ \A v \in Workers : v \in Holding' <=> wpc'[v] \in Holders
  BY DEF Holding, Holders
<1>6. ASSUME wpc[w] \in Holders, label \notin Holders
      PROVE  Cardinality(Holding') + 1 = Cardinality(Holding)
  <2>1. Holding' = Holding \ {w} /\ w \in Holding
    BY <1>1, <1>4, <1>5, <1>6
  <2>2. Cardinality(Holding \ {w}) = Cardinality(Holding) - 1
    BY <1>2, <2>1, FS_RemoveElement
  <2> QED
    BY <1>3, <2>1, <2>2
<1>7. ASSUME wpc[w] \notin Holders, label \in Holders
      PROVE  Cardinality(Holding') = Cardinality(Holding) + 1
  <2>1. Holding' = Holding \cup {w} /\ w \notin Holding
    BY <1>1, <1>4, <1>5, <1>7
  <2>2. Cardinality(Holding \cup {w}) = Cardinality(Holding) + 1
    BY <1>2, <2>1, FS_AddElement
  <2> QED
    BY <2>1, <2>2
<1>8. ASSUME wpc[w] \in Holders <=> label \in Holders
      PROVE  Cardinality(Holding') = Cardinality(Holding)
  <2>1. Holding' = Holding
    BY <1>1, <1>4, <1>5, <1>8
  <2> QED
    BY <2>1
<1> QED
  BY <1>3, <1>6, <1>7, <1>8

\* A worker passes a receive on or drops it, and never makes one.
LEMMA WorkerConserves ==
  ASSUME TypeOK, NEW w \in Workers, Worker(w)
  PROVE  Accounted' = Accounted /\ wpc[w] # "ended" /\ mpc' = mpc
<1>1. /\ posted \in Nat /\ messages \in Nat /\ failed \in Nat
      /\ cancelled \in Nat /\ lost \in Nat
  BY DEF TypeOK
<1>2. wpc[w] # "ended" /\ mpc' = mpc
  BY DEF Worker, Test, Dequeue, Handle, CheckBeforeRepost, PostProcessPortReceive,
         SetConnectionBroken, CancelPending, main
<1> DEFINE n == Cardinality(Holding)
           m == Cardinality(Holding')
<1>3. ASSUME NEW label, At(w, label)
      PROVE  /\ n \in Nat /\ m \in Nat
             /\ wpc[w] \in Holders /\ label \notin Holders => m + 1 = n
             /\ wpc[w] \notin Holders /\ label \in Holders => m = n + 1
             /\ (wpc[w] \in Holders <=> label \in Holders) => m = n
  BY <1>3, HoldingStep
<1>4. Accounted = posted + messages + failed + cancelled + lost + n
      /\ Accounted' = posted' + messages' + failed' + cancelled' + lost' + m
  BY DEF Accounted
<1> HIDE DEF n, m
<1> USE DEF Holders, contexts
<1>5. CASE Test(w)
  <2>1. \E label \in {"ended", "wait"} : At(w, label)
    BY <1>5 DEF Test
  <2>2. m = n /\ wpc[w] = "test"
    BY <1>3, <1>5, <2>1 DEF Test
  <2> QED
    BY <1>2, <1>4, <1>5, <2>2 DEF Test
<1>6. CASE Dequeue(w)
  <2>1. wpc[w] = "wait"
    BY <1>6 DEF Dequeue
  <2>2. CASE \E label \in {"test", "alarm"} : At(w, label) /\ UNCHANGED contexts
    BY <1>2, <1>3, <1>4, <2>1, <2>2
  <2>3. CASE At(w, "handle") /\ messages > 0 /\ messages' = messages - 1
             /\ UNCHANGED <<posted, failed, cancelled, lost>>
    <3>1. m = n + 1 /\ n \in Nat
      BY <1>3, <2>1, <2>3
    <3> QED
      BY <1>1, <1>2, <1>4, <2>3, <3>1
  <2>4. ASSUME At(w, "test"), lost' = lost + 1,
               \/ posted > 0 /\ posted' = posted - 1 /\ UNCHANGED <<messages, failed, cancelled>>
               \/ failed > 0 /\ failed' = failed - 1 /\ UNCHANGED <<posted, messages, cancelled>>
               \/ cancelled > 0 /\ cancelled' = cancelled - 1 /\ UNCHANGED <<posted, messages, failed>>
        PROVE  Accounted' = Accounted
    <3>1. m = n /\ n \in Nat
      BY <1>3, <2>1, <2>4
    <3> QED
      BY <1>1, <1>4, <2>4, <3>1
  <2>5. ASSUME At(w, "break"), lost' = lost,
               \/ posted > 0 /\ posted' = posted - 1 /\ UNCHANGED <<messages, failed, cancelled>>
               \/ failed > 0 /\ failed' = failed - 1 /\ UNCHANGED <<posted, messages, cancelled>>
               \/ cancelled > 0 /\ cancelled' = cancelled - 1 /\ UNCHANGED <<posted, messages, failed>>
        PROVE  Accounted' = Accounted
    <3>1. m = n + 1 /\ n \in Nat
      BY <1>3, <2>1, <2>5
    <3> QED
      BY <1>1, <1>4, <2>5, <3>1
  <2> QED
    BY <1>2, <1>6, <2>2, <2>3, <2>4, <2>5 DEF Dequeue, Abandon
<1>7. ASSUME wpc[w] \in Holders, NEW hr, Abandon(w, hr),
             UNCHANGED <<posted, messages, failed, cancelled>>
      PROVE  Accounted' = Accounted
  <2>1. CASE At(w, "test") /\ lost' = lost + 1
    <3>1. m + 1 = n /\ n \in Nat /\ m \in Nat
      BY <1>3, <1>7, <2>1
    <3> QED
      BY <1>1, <1>4, <1>7, <2>1, <3>1
  <2>2. CASE At(w, "break") /\ lost' = lost
    <3>1. m = n
      BY <1>3, <1>7, <2>2
    <3> QED
      BY <1>4, <1>7, <2>2, <3>1
  <2> QED
    BY <1>7, <2>1, <2>2 DEF Abandon
<1>8. CASE Handle(w)
  <2>1. wpc[w] \in Holders /\ UNCHANGED <<posted, messages, failed, cancelled>>
    BY <1>8 DEF Handle
  <2>2. CASE \E label \in {"check", "break"} : At(w, label) /\ lost' = lost
    <3>1. m = n
      BY <1>3, <2>1, <2>2
    <3> QED
      BY <1>2, <1>4, <2>1, <2>2, <3>1
  <2>3. CASE \E hr \in ReplyErrors : Abandon(w, hr)
    BY <1>2, <1>7, <2>1, <2>3
  <2> QED
    BY <1>8, <2>2, <2>3 DEF Handle
<1>9. CASE CheckBeforeRepost(w)
  <2>1. wpc[w] \in Holders /\ UNCHANGED <<posted, messages, failed, cancelled>>
    BY <1>9 DEF CheckBeforeRepost
  <2>2. CASE At(w, "test") /\ lost' = lost + 1
    <3>1. m + 1 = n /\ n \in Nat /\ m \in Nat
      BY <1>3, <2>1, <2>2
    <3> QED
      BY <1>1, <1>2, <1>4, <2>1, <2>2, <3>1
  <2>3. CASE At(w, "post") /\ lost' = lost
    <3>1. m = n
      BY <1>3, <2>1, <2>3
    <3> QED
      BY <1>2, <1>4, <2>1, <2>3, <3>1
  <2> QED
    BY <1>9, <2>2, <2>3 DEF CheckBeforeRepost
<1>10. CASE PostProcessPortReceive(w)
  <2>1. wpc[w] \in Holders /\ UNCHANGED <<messages, failed, cancelled>>
    BY <1>10 DEF PostProcessPortReceive
  <2>2. CASE At(w, "test") /\ posted' = posted + 1 /\ lost' = lost
    <3>1. m + 1 = n /\ n \in Nat /\ m \in Nat
      BY <1>3, <2>1, <2>2
    <3> QED
      BY <1>1, <1>2, <1>4, <2>1, <2>2, <3>1
  <2>3. CASE \E hr \in {DisconnectError, "otherError"} :
               Abandon(w, hr) /\ posted' = posted
    BY <1>2, <1>7, <2>1, <2>3
  <2> QED
    BY <1>10, <2>2, <2>3 DEF PostProcessPortReceive
<1>11. CASE SetConnectionBroken(w)
  <2>1. At(w, "cancelIo") /\ UNCHANGED <<posted, messages, failed, cancelled>>
    BY <1>11 DEF SetConnectionBroken
  <2>2. CASE wpc[w] = "break"
    <3>1. lost' = lost + 1
      BY <1>11, <2>2 DEF SetConnectionBroken
    <3>2. m + 1 = n /\ n \in Nat /\ m \in Nat
      BY <1>3, <2>1, <2>2
    <3> QED
      BY <1>1, <1>2, <1>4, <2>1, <3>1, <3>2
  <2>3. CASE wpc[w] = "alarm"
    <3>1. lost' = lost
      BY <1>11, <2>3 DEF SetConnectionBroken
    <3>2. m = n
      BY <1>3, <2>1, <2>3
    <3> QED
      BY <1>2, <1>4, <2>1, <3>1, <3>2
  <2> QED
    BY <1>11, <2>2, <2>3 DEF SetConnectionBroken
<1>12. CASE CancelPending(w)
  <2>1. wpc[w] = "cancelIo" /\ At(w, "test")
    BY <1>12 DEF CancelPending
  <2>2. m = n /\ n \in Nat
    BY <1>3, <2>1
  <2>3. UNCHANGED contexts \/ CancelIoEx
    BY <1>12 DEF CancelPending
  <2> QED
    BY <1>1, <1>2, <1>4, <2>2, <2>3 DEF CancelIoEx
<1> QED
  BY <1>5, <1>6, <1>8, <1>9, <1>10, <1>11, <1>12 DEF Worker

\* The driver and RequestShutdown move receives, and the monitor thread makes
\* them before its workers start and frees them when they have ended.
LEMMA ConservedStep ==
  TypeOK /\ WorkersWithinConnection /\ ContextsConserved /\ [Next]_vars => ContextsConserved'
<1> SUFFICES ASSUME TypeOK, WorkersWithinConnection, ContextsConserved, [Next]_vars
             PROVE  ContextsConserved'
  OBVIOUS
<1>1. /\ posted \in Nat /\ messages \in Nat /\ failed \in Nat
      /\ cancelled \in Nat /\ lost \in Nat
  BY DEF TypeOK
<1>2. Outstanding \in Nat
  BY SomeReceives
<1>3. Cardinality({}) = 0
  BY FS_EmptySet
<1>4. mpc \notin {"watch", "cancel", "join"} => Holding = {}
  BY DEF WorkersWithinConnection, Holding
<1>5. Cardinality(Holding) \in Nat
  <2>1. IsFiniteSet(Holding)
    BY ConstantsAssumption, FS_Subset DEF Holding
  <2> QED
    BY <2>1, FS_CardinalityType
<1>6. ASSUME UNCHANGED <<mpc, lost>>, Accounted' = Accounted PROVE ContextsConserved'
  BY <1>6 DEF ContextsConserved, Outstanding
<1>7. ASSUME NEW w \in Workers, Worker(w) PROVE ContextsConserved'
  <2>1. Accounted' = Accounted /\ wpc[w] # "ended" /\ mpc' = mpc
    BY <1>7, WorkerConserves
  <2>2. mpc \in {"watch", "cancel", "join"}
    BY <2>1 DEF WorkersWithinConnection
  <2> QED
    BY <2>1, <2>2 DEF ContextsConserved, Outstanding
<1>8. ASSUME UNCHANGED <<mpc, wpc, lost>>,
             posted' + messages' + failed' + cancelled' = posted + messages + failed + cancelled,
             posted' \in Nat, messages' \in Nat, failed' \in Nat, cancelled' \in Nat
      PROVE  ContextsConserved'
  <2>1. Holding' = Holding
    BY <1>8 DEF Holding
  <2>2. Accounted' = Accounted
    BY <1>1, <1>5, <1>8, <2>1 DEF Accounted
  <2> QED
    BY <1>6, <1>8, <2>2
<1>9. CASE CancelTrackedPort \/ DriverDown \/ Deliver
  <2>1. UNCHANGED <<mpc, wpc, lost>>
    BY <1>9 DEF CancelTrackedPort, DriverDown, Deliver, CancelIoEx, contexts, main
  <2>2. posted' + messages' + failed' + cancelled' = posted + messages + failed + cancelled
        /\ posted' \in Nat /\ messages' \in Nat /\ failed' \in Nat /\ cancelled' \in Nat
    BY <1>1, <1>9 DEF CancelTrackedPort, DriverDown, Deliver, CancelIoEx, contexts
  <2> QED
    BY <1>8, <2>1, <2>2
<1>10. CASE DriverUp \/ SetStopEvent \/ Exited \/ UNCHANGED vars
  <2>1. UNCHANGED <<mpc, wpc, contexts>>
    BY <1>10 DEF DriverUp, SetStopEvent, Exited, vars, main
  <2> QED
    BY <1>1, <1>8, <2>1 DEF contexts
<1>11. CASE Connect \/ Backoff \/ CreateCompletionPort
  <2>1. UNCHANGED <<wpc, contexts>>
        /\ mpc \in {"connect", "backoff", "setup"}
        /\ mpc' \in {"connect", "backoff", "setup", "exit", "post"}
    BY <1>11 DEF Connect, Backoff, CreateCompletionPort
  <2>2. Accounted' = Accounted /\ Accounted = 0
    BY <2>1 DEF Accounted, Holding, contexts, ContextsConserved
  <2>3. lost = 0
    BY <1>1, <1>5, <2>2 DEF Accounted
  <2> QED
    BY <1>2, <2>1, <2>2, <2>3 DEF ContextsConserved, Outstanding, contexts
<1>12. CASE PostFirstReceives
  <2>1. mpc = "post" /\ Holding = {} /\ Holding' = {} /\ lost = 0
    BY <1>4, <1>12 DEF PostFirstReceives, Holding, ContextsConserved
  <2>2. Accounted' = posted' + messages' + failed' + cancelled' + lost'
    <3>1. Accounted' = posted' + messages' + failed' + cancelled' + lost' + 0
      BY <1>3, <2>1 DEF Accounted
    <3>2. /\ posted' \in Nat /\ messages' \in Nat /\ failed' \in Nat
          /\ cancelled' \in Nat /\ lost' \in Nat
      BY <1>1, <1>12 DEF PostFirstReceives
    <3> QED
      BY <3>1, <3>2
  <2>3. CASE mpc' = mpc /\ posted' = posted + 1 /\ UNCHANGED <<messages, failed, cancelled, lost>>
    <3>1. posted + messages + failed + cancelled < Outstanding
      BY <1>12 DEF PostFirstReceives
    <3> QED
      BY <1>1, <1>2, <2>1, <2>2, <2>3, <3>1 DEF ContextsConserved, Outstanding
  <2>4. CASE /\ mpc' = "backoff" /\ posted' = 0 /\ messages' = 0 /\ failed' = 0
             /\ cancelled' = 0 /\ lost' = 0
    BY <2>2, <2>4 DEF ContextsConserved
  <2> QED
    BY <1>12, <2>3, <2>4 DEF PostFirstReceives
<1>13. CASE SpawnWorkers
  <2>1. mpc = "post" /\ Holding = {} /\ Holding' = {} /\ lost = 0
    BY <1>4, <1>13 DEF SpawnWorkers, Holding, ContextsConserved
  <2>2. /\ posted + messages + failed + cancelled = Outstanding
        /\ mpc' = "watch" /\ UNCHANGED contexts
    BY <1>13 DEF SpawnWorkers
  <2>3. Accounted' = posted + messages + failed + cancelled + 0 + 0
    BY <1>3, <2>1, <2>2 DEF Accounted, contexts
  <2> QED
    BY <1>1, <2>2, <2>3 DEF ContextsConserved, Outstanding
<1>14. CASE Watch \/ Join
  <2>1. UNCHANGED <<wpc, contexts>> /\ mpc \in {"watch", "join"} /\ mpc' \in {"cancel", "close"}
    BY <1>14 DEF Watch, Join
  <2>2. Accounted' = Accounted
    BY <2>1 DEF Accounted, Holding, contexts
  <2> QED
    BY <2>1, <2>2 DEF ContextsConserved, Outstanding
<1>15. CASE CancelOnce
  <2>1. UNCHANGED wpc /\ mpc = "cancel" /\ mpc' = "join" /\ (UNCHANGED contexts \/ CancelIoEx)
    BY <1>15 DEF CancelOnce
  <2>2. Holding' = Holding
    BY <2>1 DEF Holding
  <2>3. Accounted' = Accounted
    BY <1>1, <1>5, <2>1, <2>2 DEF Accounted, contexts, CancelIoEx
  <2> QED
    BY <2>1, <2>3 DEF ContextsConserved, Outstanding
<1>16. CASE Close
  <2>1. Holding' = {} /\ mpc' = "connect"
    BY <1>4, <1>16 DEF Close, Holding
  <2>2. Accounted' = 0
    BY <1>3, <1>16, <2>1 DEF Close, Accounted
  <2> QED
    BY <2>1, <2>2 DEF ContextsConserved
<1> QED
  BY <1>7, <1>9, <1>10, <1>11, <1>12, <1>13, <1>14, <1>15, <1>16
  DEF Next, Main, Environment

\* At the start there is no connection.
LEMMA ConservedInit == Init => ContextsConserved
<1> SUFFICES ASSUME Init PROVE ContextsConserved
  OBVIOUS
<1>1. Holding = {} /\ Cardinality({}) = 0
  BY FS_EmptySet DEF Init, Holding
<1> QED
  BY <1>1 DEF Init, Accounted, ContextsConserved

\* For any number of workers and receives, and whatever error a lost port gives:
\* from the first receive to the end of a connection each context is posted,
\* completed, with one worker or dropped, and none of them twice (1855-2011).
THEOREM NoContextTwice == Spec => []ContextsConserved
<1> QED
  BY ConservedInit, ConservedStep, PortTypeCorrect, WorkersStayWithin, PTL DEF Spec

-----------------------------------------------------------------------------
\* Only a connection that is up has receives the driver can take.
PostedUp == link # "up" => posted = 0

\* A receive is posted on a port that is up, fails when the port goes down and is
\* freed when it is closed.
LEMMA PostedUpStep ==
  TypeOK /\ ContextsConserved /\ PostedUp /\ [Next]_vars => PostedUp'
<1> SUFFICES ASSUME TypeOK, ContextsConserved, PostedUp, [Next]_vars PROVE PostedUp'
  OBVIOUS
<1> USE DEF TypeOK, PostedUp, contexts, main, CancelIoEx
<1>1. CASE Main
  <2>1. CASE Connect \/ Backoff \/ SpawnWorkers \/ Watch \/ Join
    BY <2>1 DEF Connect, Backoff, SpawnWorkers, Watch, Join
  <2>2. CASE PostFirstReceives \/ Close \/ CancelOnce
    BY <2>2 DEF PostFirstReceives, Close, CancelOnce
  <2>3. CASE CreateCompletionPort
    <3>1. Accounted = 0 /\ posted' = posted
      BY <2>3 DEF CreateCompletionPort, ContextsConserved
    <3>2. Cardinality(Holding) \in Nat
      BY ConstantsAssumption, FS_Subset, FS_CardinalityType DEF Holding
    <3> QED
      BY <3>1, <3>2 DEF Accounted
  <2> QED
    BY <1>1, <2>1, <2>2, <2>3 DEF Main
<1>2. ASSUME NEW w \in Workers, Worker(w) PROVE PostedUp'
  <2>1. CASE Test(w) \/ Dequeue(w) \/ Handle(w)
    BY <2>1 DEF Test, Dequeue, Handle
  <2>2. CASE CheckBeforeRepost(w) \/ PostProcessPortReceive(w)
    BY <2>2 DEF CheckBeforeRepost, PostProcessPortReceive
  <2>3. CASE SetConnectionBroken(w) \/ CancelPending(w)
    BY <2>3 DEF SetConnectionBroken, CancelPending
  <2> QED
    BY <1>2, <2>1, <2>2, <2>3 DEF Worker
<1>3. CASE CancelTrackedPort \/ Environment
  BY <1>3 DEF CancelTrackedPort, Environment, DriverDown, DriverUp, Deliver,
              SetStopEvent
<1>4. CASE Exited \/ UNCHANGED vars
  BY <1>4 DEF Exited, vars
<1> QED
  BY <1>1, <1>2, <1>3, <1>4 DEF Next

\* For any number of workers and receives: if a lost port fails its calls with
\* an error that IsPortOperationCancelled does not take for a cancellation, the
\* loss does not go unnoticed.  All receives are there, none is posted any more,
\* cancelled or dropped, so one is on its way to a worker or with it.
THEOREM LossesNoticed ==
  ASSUME ~IsPortOperationCancelled(DisconnectError)
  PROVE  Spec => []LossNoticed
<1>1. Init => CapacityInv /\ PostedUp
  BY InitialTypes
  DEF Init, CapacityInv, WorkersWithinConnection, ShutdownStops, BrokenFirst,
      NothingLostYet, PostedUp
<1>2. /\ CapacityInv /\ ContextsConserved /\ PostedUp /\ [Next]_vars
      => CapacityInv' /\ PostedUp'
  BY TypeStep, ConnectionStep, FlagsStep, LossStep, PostedUpStep DEF CapacityInv
<1>3. CapacityInv /\ ContextsConserved /\ PostedUp => LossNoticed
  <2> SUFFICES ASSUME CapacityInv, ContextsConserved, PostedUp, link = "down",
                      mpc = "watch", ~broken, ~stop, failed = 0, messages = 0,
                      Holding = {}
               PROVE  FALSE
    BY DEF LossNoticed, CapacityInv, TypeOK
  <2>1. posted = 0 /\ cancelled = 0 /\ lost = 0
    BY DEF PostedUp, CapacityInv, NothingLostYet
  <2>2. Accounted = 0
    BY <2>1, FS_EmptySet DEF Accounted
  <2> QED
    BY <2>2, SomeReceives DEF ContextsConserved
<1> QED
  BY <1>1, <1>2, <1>3, NoContextTwice, PTL DEF Spec

-----------------------------------------------------------------------------
\* The monitor thread as the engine sees it.
Monitor == INSTANCE MonitorThread WITH
  thread <- IF mpc = "exit" THEN "ended" ELSE "running"

\* ProcessVerdictMonitorThread is a thread as RunProtectionEngine expects it: it
\* does not end before the stop event is set, whatever becomes of its connections.
THEOREM PortIsThread == Spec => Monitor!Spec
<1>1. Init => Monitor!Init
  BY DEF Init, Monitor!Init
<1>2. TypeOK /\ [Next]_vars => [Monitor!Next]_Monitor!vars
  <2> SUFFICES ASSUME TypeOK, [Next]_vars
               PROVE  Monitor!Next \/ UNCHANGED Monitor!vars
    OBVIOUS
  <2> USE DEF Monitor!vars, Monitor!Next, Monitor!RequestStop, Monitor!End, main
  <2>1. CASE Main
    <3>1. CASE Connect \/ Backoff
      BY <3>1 DEF Connect, Backoff
    <3>2. CASE ~(Connect \/ Backoff)
      <4>1. stop' = stop /\ mpc # "exit" /\ mpc' # "exit"
        BY <2>1, <3>2 DEF Main, CreateCompletionPort, PostFirstReceives, SpawnWorkers,
                          Watch, CancelOnce, Join, Close
      <4> QED
        BY <4>1
    <3> QED
      BY <3>1, <3>2
  <2>2. ASSUME NEW w \in Workers, Worker(w) PROVE UNCHANGED <<mpc, stop>>
    BY <2>2 DEF Worker, Test, Dequeue, Handle, CheckBeforeRepost,
                PostProcessPortReceive, SetConnectionBroken, CancelPending
  <2>3. CASE CancelTrackedPort \/ Environment
    BY <2>3 DEF CancelTrackedPort, Environment, DriverDown, DriverUp, Deliver,
                SetStopEvent
  <2>4. CASE Exited \/ UNCHANGED vars
    BY <2>4 DEF Exited, vars
  <2> QED
    BY <2>1, <2>2, <2>3, <2>4 DEF Next
<1> QED
  BY <1>1, <1>2, PortTypeCorrect, PTL DEF Spec, Monitor!Spec
=============================================================================
