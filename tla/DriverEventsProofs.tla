------------------------- MODULE DriverEventsProofs -------------------------
(***************************************************************************)
(* Proofs about DriverEvents, for any set of processes, events and          *)
(* configurations, and any retention, size and cooldown.                    *)
(***************************************************************************)
EXTENDS DriverEvents, FiniteSetTheorems, TLAPS

\* The event buffer is used by the receive until it completes and by the
\* handler from then until the next receive is posted.
EventHeld ==
  /\ receive # "none" => pc \in {"test", "wait", "close"}
  /\ receive # "none" /\ pc = "close" => stop
  /\ receive = "event" \/ pc \in {"metadata", "decide"} => event \in Events
  /\ pc \in {"reserve", "openDevice", "terminate"} => event \in Events /\ event.pid \in Pids

\* What is owed is the event in the buffer, until the handler takes it; only a
\* shutdown drops one.
OwedHeld ==
  /\ receive = "event" \/ pc = "metadata" => owed = <<event>>
  /\ receive # "event" /\ pc # "metadata" => owed = <<>> \/ (stop /\ pc \in {"open", "exit"})

\* The history knows the last attempt on a process, unless that is older than
\* the retention or was pushed out by as many as the history holds.
Forgotten(p) ==
  \/ since[p] > Retention
  \/ Cardinality({q \in Pids \ {p} : since[q] <= since[p]}) >= MaxHistory

Remembered ==
  \A p \in Pids : IF p \in DOMAIN history THEN history[p] = since[p] ELSE Forgotten(p)

\* An attempt that slips through was decided before the response was turned off.
SlipsBefore ==
  /\ TerminateOn[config] \/ pc = "reserve" => slips = 0
  /\ slips <= 1

-----------------------------------------------------------------------------
\* The handler always has an event whose process it may answer.
LEMMA HeldStep == TypeOK /\ EventHeld /\ [Next]_vars => EventHeld'
<1> SUFFICES ASSUME TypeOK, EventHeld, [Next]_vars PROVE EventHeld'
  OBVIOUS
<1> USE ConstantsAssumption DEF TypeOK, EventHeld, channel, io, response
<1>1. CASE Thread
  <2>1. CASE OpenChannel \/ Backoff \/ CreateCompletionPort \/ Close
    BY <2>1 DEF OpenChannel, Backoff, CreateCompletionPort, Close
  <2>2. CASE PostFirstReceive \/ Repost
    BY <2>2 DEF PostFirstReceive, Repost, PostReceive
  <2>3. CASE Test
    BY <2>3 DEF Test
  <2>4. CASE Wait
    BY <2>4 DEF Wait
  <2>5. CASE Metadata
    BY <2>5 DEF Metadata
  <2>6. CASE Decide
    BY <2>6 DEF Decide
  <2>7. CASE Reserve
    BY <2>7 DEF Reserve
  <2>8. CASE OpenDevice \/ Terminate
    BY <2>8 DEF OpenDevice, Terminate
  <2> QED
    BY <1>1, <2>1, <2>2, <2>3, <2>4, <2>5, <2>6, <2>7, <2>8 DEF Thread
<1>2. CASE Tick
  BY <1>2 DEF Tick
<1>3. CASE CancelTrackedDevice
  BY <1>3 DEF CancelTrackedDevice
<1>4. CASE Environment
  <2>1. ASSUME NEW d \in {"up", "faulty", "down"}, DriverChanges(d) PROVE EventHeld'
    BY <2>1 DEF DriverChanges
  <2>2. ASSUME NEW e \in Events, Deliver(e) PROVE EventHeld'
    BY <2>2 DEF Deliver
  <2>3. CASE DeliverShort \/ SetStopEvent
    BY <2>3 DEF DeliverShort, SetStopEvent
  <2>4. ASSUME NEW c \in Configs, Reload(c) PROVE EventHeld'
    BY <2>4 DEF Reload
  <2> QED
    BY <1>4, <2>1, <2>2, <2>3, <2>4 DEF Environment
<1>5. CASE UNCHANGED vars
  BY <1>5 DEF vars
<1> QED
  BY <1>1, <1>2, <1>3, <1>4, <1>5 DEF Next

\* The event that is owed is the one in the buffer, at every step.
LEMMA OwedStep == TypeOK /\ EventHeld /\ OwedHeld /\ [Next]_vars => OwedHeld'
<1> SUFFICES ASSUME TypeOK, EventHeld, OwedHeld, [Next]_vars PROVE OwedHeld'
  OBVIOUS
<1> USE DEF EventHeld, OwedHeld, channel, io, response
<1>1. CASE Thread
  <2>1. CASE OpenChannel \/ Backoff \/ CreateCompletionPort
    BY <2>1 DEF OpenChannel, Backoff, CreateCompletionPort
  <2>2. CASE PostFirstReceive \/ Repost
    BY <2>2 DEF PostFirstReceive, Repost, PostReceive
  <2>3. CASE Test \/ Wait
    BY <2>3 DEF Test, Wait
  <2>4. CASE Close
    BY <2>4 DEF Close
  <2>5. CASE Metadata
    <3>1. owed = <<event>>
      BY <2>5 DEF Metadata
    <3>2. Tail(<<event>>) = <<>>
      OBVIOUS
    <3> QED
      BY <2>5, <3>1, <3>2 DEF Metadata
  <2>6. CASE Decide \/ OpenDevice \/ Terminate
    BY <2>6 DEF Decide, OpenDevice, Terminate
  <2>7. CASE Reserve
    BY <2>7 DEF Reserve
  <2> QED
    BY <1>1, <2>1, <2>2, <2>3, <2>4, <2>5, <2>6, <2>7 DEF Thread
<1>2. CASE Tick \/ CancelTrackedDevice
  BY <1>2 DEF Tick, CancelTrackedDevice
<1>3. ASSUME NEW d \in {"up", "faulty", "down"}, DriverChanges(d) PROVE OwedHeld'
  BY <1>3 DEF DriverChanges
<1>4. ASSUME NEW e \in Events, Deliver(e) PROVE OwedHeld'
  <2>1. owed = <<>>
    BY <1>4 DEF Deliver
  <2>2. owed' = <<e>>
    BY <1>4, <2>1 DEF Deliver
  <2> QED
    BY <1>4, <2>2 DEF Deliver
<1>5. CASE DeliverShort \/ SetStopEvent
  BY <1>5 DEF DeliverShort, SetStopEvent
<1>6. ASSUME NEW c \in Configs, Reload(c) PROVE OwedHeld'
  BY <1>6 DEF Reload
<1>7. CASE UNCHANGED vars
  BY <1>7 DEF vars
<1> QED
  BY <1>1, <1>2, <1>3, <1>4, <1>5, <1>6, <1>7 DEF Next, Environment

\* Ages stay below the bound.
LEMMA OlderIsAge ==
  ASSUME NEW age \in Ages
  PROVE  Older(age) \in Ages /\ age <= Older(age)
  BY ConstantsAssumption DEF Ages, Older

LEMMA OlderKeepsOrder ==
  ASSUME NEW a \in Ages, NEW b \in Ages, a <= b
  PROVE  Older(a) <= Older(b)
  BY ConstantsAssumption DEF Ages, Older

\* What pruning leaves is part of the history, no more than fits, and everything
\* that it takes has expired or is no newer than what it leaves.
LEMMA KeptFacts ==
  ASSUME TypeOK, NEW S \in Kept
  PROVE  /\ S \subseteq DOMAIN history
         /\ IsFiniteSet(S) /\ Cardinality(S) \in Nat /\ Cardinality(S) <= MaxHistory
         /\ \A p \in DOMAIN history \ S :
              \/ history[p] > Retention
              \/ Cardinality(S) = MaxHistory /\ \A q \in S : history[q] <= history[p]
<1>1. IsFiniteSet(DOMAIN history)
  BY FS_Subset, ConstantsAssumption DEF TypeOK
<1>2. Unexpired \subseteq DOMAIN history /\ S \subseteq Unexpired
  BY DEF Unexpired, Kept
<1>3. IsFiniteSet(Unexpired) /\ IsFiniteSet(S)
  BY <1>1, <1>2, FS_Subset
<1>4. Cardinality(S) \in Nat /\ Cardinality(Unexpired) \in Nat
  BY <1>3, FS_CardinalityType
<1>5. Cardinality(S) <= MaxHistory
  BY <1>4, ConstantsAssumption DEF Kept
<1>6. ASSUME NEW p \in DOMAIN history \ S, ~(history[p] > Retention)
      PROVE  Cardinality(S) = MaxHistory /\ \A q \in S : history[q] <= history[p]
  <2>1. history[p] <= Retention
    BY <1>6, ConstantsAssumption DEF TypeOK, Ages
  <2>2. p \in Unexpired \ S
    BY <1>6, <2>1 DEF Unexpired
  <2> QED
    BY <2>2 DEF Kept
<1> QED
  BY <1>2, <1>3, <1>4, <1>5, <1>6

-----------------------------------------------------------------------------
\* The types of the channel and of the handler.
LEMMA TypeStep == TypeOK /\ EventHeld /\ OwedHeld /\ [Next]_vars => TypeOK'
<1> SUFFICES ASSUME TypeOK, EventHeld, OwedHeld, [Next]_vars PROVE TypeOK'
  OBVIOUS
<1> USE ConstantsAssumption DEF TypeOK, Labels, channel, io, response
<1>1. CASE OpenChannel
  BY <1>1 DEF OpenChannel
<1>2. CASE Backoff
  <2>1. NextBackoff \in BackoffMin..BackoffMax
    BY DEF NextBackoff
  <2> QED
    BY <2>1, <1>2 DEF Backoff
<1>3. CASE CreateCompletionPort
  BY <1>3 DEF CreateCompletionPort
<1>4. CASE PostFirstReceive
  BY <1>4 DEF PostFirstReceive, PostReceive
<1>5. CASE Test
  BY <1>5 DEF Test
<1>6. CASE Wait
  BY <1>6 DEF Wait
<1>7. CASE Repost
  <2>1. cooldown' \in 0..AgeCap
    BY <1>7 DEF Repost
  <2> QED
    BY <1>7, <2>1 DEF Repost, PostReceive
<1>8. CASE Close
  BY <1>8 DEF Close
<1>9. CASE Metadata
  <2>1. severity' \in Nat
    BY <1>9 DEF Metadata, EventHeld
  <2>2. owed' = <<>>
    <3>1. owed = <<event>>
      BY <1>9 DEF Metadata, OwedHeld
    <3>2. Tail(<<event>>) = <<>>
      OBVIOUS
    <3> QED
      BY <1>9, <3>1, <3>2 DEF Metadata
  <2>3. owed' \in Seq(Events)
    BY <2>2
  <2> QED
    BY <1>9, <2>1, <2>3 DEF Metadata
<1>10. CASE Decide
  <2>1. cooldown' \in 0..AgeCap
    BY <1>10 DEF Decide
  <2> QED
    BY <1>10, <2>1 DEF Decide
<1>11. CASE Reserve
  <2>1. event.pid \in Pids
    BY <1>11 DEF Reserve, EventHeld
  <2>2. DOMAIN history' \subseteq Pids /\ \A p \in DOMAIN history' : history'[p] \in Ages
    <3>1. ASSUME NEW S \in Kept PROVE S \subseteq DOMAIN history
      BY <3>1, KeptFacts
    <3>2. 0 \in Ages
      BY DEF Ages
    <3>3. CASE history' = history
      BY <3>3
    <3>4. ASSUME NEW S \in Kept, history' = [q \in S |-> history[q]]
          PROVE  DOMAIN history' \subseteq Pids /\ \A p \in DOMAIN history' : history'[p] \in Ages
      BY <3>1, <3>4
    <3>5. ASSUME NEW S \in Kept,
                 history' = [q \in S \cup {event.pid} |->
                               IF q = event.pid THEN 0 ELSE history[q]]
          PROVE  DOMAIN history' \subseteq Pids /\ \A p \in DOMAIN history' : history'[p] \in Ages
      BY <2>1, <3>1, <3>2, <3>5
    <3> QED
      BY <1>11, <3>3, <3>4, <3>5 DEF Reserve
  <2>3. since' \in [Pids -> Ages]
    <3>1. 0 \in Ages
      BY DEF Ages
    <3>2. since' = since \/ since' = [since EXCEPT ![event.pid] = 0]
      BY <1>11 DEF Reserve
    <3> QED
      BY <3>1, <3>2
  <2>4. slips' \in Nat
    BY <1>11 DEF Reserve
  <2> QED
    BY <1>11, <2>2, <2>3, <2>4 DEF Reserve
<1>12. CASE OpenDevice \/ Terminate
  BY <1>12 DEF OpenDevice, Terminate
<1>13. CASE Tick
  <2>1. \A p \in DOMAIN history' : history'[p] \in Ages
    BY <1>13, OlderIsAge DEF Tick
  <2>2. since' \in [Pids -> Ages]
    BY <1>13, OlderIsAge DEF Tick
  <2> QED
    BY <1>13, <2>1, <2>2 DEF Tick
<1>14. CASE CancelTrackedDevice
  BY <1>14 DEF CancelTrackedDevice
<1>15. ASSUME NEW d \in {"up", "faulty", "down"}, DriverChanges(d) PROVE TypeOK'
  BY <1>15 DEF DriverChanges
<1>16. ASSUME NEW e \in Events, Deliver(e) PROVE TypeOK'
  BY <1>16 DEF Deliver
<1>17. CASE DeliverShort \/ SetStopEvent
  BY <1>17 DEF DeliverShort, SetStopEvent
<1>18. ASSUME NEW c \in Configs, Reload(c) PROVE TypeOK'
  BY <1>18 DEF Reload
<1>19. CASE UNCHANGED vars
  BY <1>19 DEF vars
<1> QED
  BY <1>1, <1>2, <1>3, <1>4, <1>5, <1>6, <1>7, <1>8, <1>9, <1>10, <1>11, <1>12,
     <1>13, <1>14, <1>15, <1>16, <1>17, <1>18, <1>19
  DEF Next, Thread, Environment

\* The channel and the handler begin with nothing owed and nobody remembered.
LEMMA InitialTypes == Init => TypeOK /\ EventHeld /\ OwedHeld
<1> SUFFICES ASSUME Init PROVE TypeOK /\ EventHeld /\ OwedHeld
  OBVIOUS
<1>1. backoff \in BackoffMin..BackoffMax /\ cooldown \in 0..AgeCap
  BY ConstantsAssumption DEF Init
<1>2. since \in [Pids -> Ages] /\ DOMAIN history = {}
  BY ConstantsAssumption DEF Init, Ages
<1>3. owed \in Seq(Events)
  BY DEF Init
<1> QED
  BY <1>1, <1>2, <1>3, ConstantsAssumption DEF Init, TypeOK, EventHeld, OwedHeld, Labels

\* The invariant on which the rest is built.
THEOREM EventsInvariant == Spec => [](TypeOK /\ EventHeld /\ OwedHeld)
  BY InitialTypes, TypeStep, HeldStep, OwedStep, PTL DEF Spec

\* Type correctness of the channel, the handler and the history.
THEOREM EventsTypeCorrect == Spec => []TypeOK
  BY EventsInvariant, PTL

\* No event is lost, dropped for another or handled twice, however the driver
\* fails and comes back, until shutdown.
THEOREM EventsHandled == Spec => []NoEventLost
<1>1. TypeOK /\ EventHeld /\ OwedHeld => NoEventLost
  BY DEF EventHeld, OwedHeld, NoEventLost
<1> QED
  BY <1>1, EventsInvariant, PTL

-----------------------------------------------------------------------------
(* The history and the cooldown.                                           *)

\* The history holds at most one entry more than its limit after each step.
LEMMA BoundStep ==
  TypeOK /\ EventHeld /\ HistoryBounded /\ [Next]_vars => HistoryBounded'
<1> SUFFICES ASSUME TypeOK, EventHeld, HistoryBounded, [Next]_vars PROVE HistoryBounded'
  OBVIOUS
<1> USE DEF channel, io, response
<1>1. CASE DOMAIN history' = DOMAIN history
  BY <1>1 DEF HistoryBounded
<1>2. CASE Reserve
  <2>1. ASSUME NEW S \in Kept, history' = [q \in S |-> history[q]] PROVE HistoryBounded'
    <3>1. Cardinality(S) \in Nat /\ Cardinality(S) <= MaxHistory
      BY KeptFacts
    <3>2. DOMAIN history' = S
      BY <2>1
    <3> QED
      BY <3>1, <3>2, ConstantsAssumption DEF HistoryBounded
  <2>2. ASSUME NEW S \in Kept,
               history' = [q \in S \cup {event.pid} |->
                             IF q = event.pid THEN 0 ELSE history[q]]
        PROVE  HistoryBounded'
    <3>1. IsFiniteSet(S) /\ Cardinality(S) \in Nat /\ Cardinality(S) <= MaxHistory
      BY KeptFacts
    <3>2. DOMAIN history' = S \cup {event.pid}
      BY <2>2
    <3>3. \/ Cardinality(S \cup {event.pid}) = Cardinality(S)
          \/ Cardinality(S \cup {event.pid}) = Cardinality(S) + 1
      BY <3>1, FS_AddElement
    <3> QED
      BY <3>1, <3>2, <3>3, ConstantsAssumption DEF HistoryBounded
  <2> QED
    BY <1>1, <1>2, <2>1, <2>2 DEF Reserve
<1>3. CASE Tick
  BY <1>1, <1>3 DEF Tick
<1>4. CASE Thread /\ ~Reserve
  BY <1>1, <1>4 DEF Thread, OpenChannel, Backoff, CreateCompletionPort, PostFirstReceive,
     Test, Wait, Repost, Close, Metadata, Decide, OpenDevice, Terminate
<1>5. CASE CancelTrackedDevice \/ Environment
  BY <1>1, <1>5 DEF CancelTrackedDevice, Environment, DriverChanges, Deliver, DeliverShort,
     SetStopEvent, Reload
<1>6. CASE UNCHANGED vars
  BY <1>1, <1>6 DEF vars
<1> QED
  BY <1>2, <1>3, <1>4, <1>5, <1>6 DEF Next

\* For any number of processes and any limit, the history exceeds its limit by
\* one entry at most.
THEOREM HistoryStaysBounded == Spec => []HistoryBounded
<1>1. Init => HistoryBounded
  <2> SUFFICES ASSUME Init PROVE HistoryBounded
    OBVIOUS
  <2>1. DOMAIN history = {}
    BY DEF Init
  <2> QED
    BY <2>1, FS_EmptySet, ConstantsAssumption DEF HistoryBounded
<1> QED
  BY <1>1, BoundStep, EventsInvariant, PTL DEF Spec

\* A response that was turned off lets one attempt through at most.
LEMMA SlipStep == TypeOK /\ SlipsBefore /\ [Next]_vars => SlipsBefore'
<1> SUFFICES ASSUME TypeOK, SlipsBefore, [Next]_vars PROVE SlipsBefore'
  OBVIOUS
<1> USE DEF SlipsBefore, channel, io, response
<1>1. CASE Decide
  <2>1. pc' = "reserve" => TerminateOn[config]
    BY <1>1 DEF Decide
  <2> QED
    BY <1>1, <2>1 DEF Decide
<1>2. CASE Reserve
  <2>1. slips = 0 /\ pc' # "reserve" /\ config' = config
    BY <1>2 DEF Reserve
  <2>2. slips' = IF pc' = "openDevice" /\ ~TerminateOn[config] THEN slips + 1 ELSE slips
    BY <1>2 DEF Reserve
  <2> QED
    BY <2>1, <2>2
<1>3. CASE Thread /\ ~Decide /\ ~Reserve
  BY <1>3 DEF Thread, OpenChannel, Backoff, CreateCompletionPort, PostFirstReceive, Test,
     Wait, Repost, Close, Metadata, OpenDevice, Terminate
<1>4. ASSUME NEW c \in Configs, Reload(c) PROVE SlipsBefore'
  BY <1>4 DEF Reload
<1>5. CASE Tick \/ CancelTrackedDevice
  BY <1>5 DEF Tick, CancelTrackedDevice
<1>6. CASE Environment /\ ~(\E c \in Configs : Reload(c))
  BY <1>6 DEF Environment, DriverChanges, Deliver, DeliverShort, SetStopEvent
<1>7. CASE UNCHANGED vars
  BY <1>7 DEF vars
<1> QED
  BY <1>1, <1>2, <1>3, <1>4, <1>5, <1>6, <1>7 DEF Next

\* Whatever configurations are loaded, and however often, one attempt at most
\* follows the reload that turns the response off.
THEOREM SlipsBounded == Spec => []OneSlipAfterOff
<1>1. Init => SlipsBefore
  BY DEF Init, SlipsBefore
<1>2. Spec => []SlipsBefore
  BY <1>1, SlipStep, EventsTypeCorrect, PTL DEF Spec
<1>3. SlipsBefore => OneSlipAfterOff
  BY DEF SlipsBefore, OneSlipAfterOff
<1> QED
  BY <1>2, <1>3, PTL
-----------------------------------------------------------------------------
(* What the history remembers.                                             *)

\* Those whose last attempt is no older than that on p.
NoOlder(p) == {q \in Pids \ {p} : since[q] <= since[p]}

\* Their number is a number.
LEMMA NoOlderFinite ==
  ASSUME NEW p \in Pids
  PROVE  IsFiniteSet(NoOlder(p)) /\ Cardinality(NoOlder(p)) \in Nat
<1>1. NoOlder(p) \subseteq Pids
  BY DEF NoOlder
<1> QED
  BY <1>1, FS_Subset, FS_CardinalityType, ConstantsAssumption

\* Pruning forgets an attempt only if it is old or as many as fit are no older.
LEMMA PrunedIsForgotten ==
  ASSUME TypeOK, Remembered, NEW S \in Kept, NEW p \in Pids \ S
  PROVE  Forgotten(p)
<1>1. CASE p \notin DOMAIN history
  BY <1>1 DEF Remembered
<1>2. CASE p \in DOMAIN history /\ history[p] > Retention
  BY <1>2 DEF Remembered, Forgotten
<1>3. CASE p \in DOMAIN history /\ ~(history[p] > Retention)
  <2>1. Cardinality(S) = MaxHistory /\ \A q \in S : history[q] <= history[p]
    BY <1>3, KeptFacts
  <2>2. S \subseteq DOMAIN history /\ DOMAIN history \subseteq Pids
    BY KeptFacts DEF TypeOK
  <2>3. S \subseteq NoOlder(p)
    BY <1>3, <2>1, <2>2 DEF Remembered, NoOlder
  <2>4. Cardinality(S) <= Cardinality(NoOlder(p))
    BY <2>3, NoOlderFinite, FS_Subset
  <2> QED
    BY <2>1, <2>4, NoOlderFinite, ConstantsAssumption DEF Forgotten, NoOlder
<1> QED
  BY <1>1, <1>2, <1>3

\* What is forgotten stays so as long as p is not attempted and the others only
\* come closer.
LEMMA StaysForgotten ==
  ASSUME TypeOK, TypeOK', NEW p \in Pids, Forgotten(p),
         since[p] <= since'[p],
         \A q \in Pids \ {p} : since[q] <= since[p] => since'[q] <= since'[p]
  PROVE  Forgotten(p)'
<1>1. CASE since[p] > Retention
  BY <1>1, ConstantsAssumption DEF TypeOK, Ages, Forgotten
<1>2. CASE Cardinality(NoOlder(p)) >= MaxHistory
  <2>1. NoOlder(p) \subseteq NoOlder(p)'
    BY DEF NoOlder
  <2>2. NoOlder(p)' \subseteq Pids
    BY DEF NoOlder
  <2>3. IsFiniteSet(NoOlder(p)') /\ Cardinality(NoOlder(p)') \in Nat
    BY <2>2, FS_Subset, FS_CardinalityType, ConstantsAssumption
  <2>4. Cardinality(NoOlder(p)) <= Cardinality(NoOlder(p)')
    BY <2>1, <2>3, FS_Subset
  <2>5. Cardinality(NoOlder(p)') >= MaxHistory
    BY <1>2, <2>3, <2>4, NoOlderFinite, ConstantsAssumption
  <2> QED
    BY <2>5 DEF Forgotten, NoOlder
<1> QED
  BY <1>1, <1>2 DEF Forgotten, NoOlder

\* An attempt is in the history until pruning may forget it.
LEMMA RememberedStep ==
  TypeOK /\ TypeOK' /\ EventHeld /\ Remembered /\ [Next]_vars => Remembered'
<1> SUFFICES ASSUME TypeOK, TypeOK', EventHeld, Remembered, [Next]_vars,
                    NEW p \in Pids
             PROVE  IF p \in DOMAIN history' THEN history'[p] = since'[p] ELSE Forgotten(p)'
  BY DEF Remembered
<1> USE DEF channel, io, response
<1>1. CASE history' = history /\ since' = since
  BY <1>1 DEF Remembered, Forgotten
<1>2. CASE Tick
  <2>1. DOMAIN history' = DOMAIN history /\ since' = [q \in Pids |-> Older(since[q])]
    BY <1>2 DEF Tick
  <2>2. CASE p \in DOMAIN history
    <3>1. history[p] = since[p]
      BY <2>2 DEF Remembered
    <3>2. history'[p] = Older(history[p])
      BY <1>2, <2>2 DEF Tick
    <3> QED
      BY <2>1, <2>2, <3>1, <3>2
  <2>3. CASE p \notin DOMAIN history
    <3>1. \A q \in Pids : since[q] \in Ages /\ since'[q] = Older(since[q])
      BY <2>1 DEF TypeOK
    <3>2. since[p] <= since'[p]
      BY <3>1, OlderIsAge
    <3>3. \A q \in Pids \ {p} : since[q] <= since[p] => since'[q] <= since'[p]
      BY <3>1, OlderKeepsOrder
    <3>4. Forgotten(p)
      BY <2>3 DEF Remembered
    <3> QED
      BY <2>1, <2>3, <3>2, <3>3, <3>4, StaysForgotten
  <2> QED
    BY <2>2, <2>3
<1>3. CASE Reserve
  <2>1. ASSUME NEW S \in Kept, history' = [q \in S |-> history[q]], since' = since
        PROVE  IF p \in DOMAIN history' THEN history'[p] = since'[p] ELSE Forgotten(p)'
    <3>1. CASE p \in S
      BY <2>1, <3>1, KeptFacts DEF Remembered
    <3>2. CASE p \notin S
      <4>1. Forgotten(p)
        BY <3>2, PrunedIsForgotten
      <4> QED
        BY <2>1, <3>2, <4>1 DEF Forgotten
    <3> QED
      BY <3>1, <3>2
  <2>2. ASSUME NEW S \in Kept, event.pid \in Pids,
               history' = [q \in S \cup {event.pid} |->
                             IF q = event.pid THEN 0 ELSE history[q]],
               since' = [since EXCEPT ![event.pid] = 0]
        PROVE  IF p \in DOMAIN history' THEN history'[p] = since'[p] ELSE Forgotten(p)'
    <3>1. \A q \in Pids : since'[q] = IF q = event.pid THEN 0 ELSE since[q]
      BY <2>2 DEF TypeOK
    <3>2. CASE p \in S \cup {event.pid}
      <4>1. p # event.pid => p \in DOMAIN history /\ history[p] = since[p]
        BY <3>2, KeptFacts DEF Remembered
      <4> QED
        BY <2>2, <3>1, <3>2, <4>1
    <3>3. CASE p \notin S \cup {event.pid}
      <4>1. Forgotten(p)
        BY <3>3, PrunedIsForgotten
      <4>2. \A q \in Pids : since[q] \in Nat
        BY ConstantsAssumption DEF TypeOK, Ages
      <4>3. since[p] <= since'[p]
        BY <3>1, <3>3, <4>2
      <4>4. \A q \in Pids \ {p} : since[q] <= since[p] => since'[q] <= since'[p]
        BY <3>1, <3>3, <4>2
      <4>5. Forgotten(p)'
        BY <4>1, <4>3, <4>4, StaysForgotten
      <4> QED
        BY <2>2, <3>3, <4>5
    <3> QED
      BY <3>2, <3>3
  <2>3. event.pid \in Pids
    BY <1>3 DEF Reserve, EventHeld
  <2> QED
    BY <1>1, <1>3, <2>1, <2>2, <2>3 DEF Reserve
<1>4. CASE Thread /\ ~Reserve
  BY <1>1, <1>4 DEF Thread, OpenChannel, Backoff, CreateCompletionPort, PostFirstReceive,
     Test, Wait, Repost, Close, Metadata, Decide, OpenDevice, Terminate
<1>5. CASE CancelTrackedDevice \/ Environment
  BY <1>1, <1>5 DEF CancelTrackedDevice, Environment, DriverChanges, Deliver, DeliverShort,
     SetStopEvent, Reload
<1>6. CASE UNCHANGED vars
  BY <1>1, <1>6 DEF vars
<1> QED
  BY <1>2, <1>3, <1>4, <1>5, <1>6 DEF Next

\* At the start nobody was attempted for longer than anything is remembered.
LEMMA InitiallyForgotten == Init => Remembered
<1> SUFFICES ASSUME Init, NEW p \in Pids
             PROVE  p \notin DOMAIN history /\ Forgotten(p)
  BY DEF Remembered
<1>1. DOMAIN history = {} /\ since[p] = AgeCap
  BY DEF Init
<1> QED
  BY <1>1, ConstantsAssumption DEF Forgotten

\* An attempt that goes through meets no cooldown that the history remembers.
LEMMA AttemptStep ==
  TypeOK /\ EventHeld /\ Remembered /\ [Next]_vars
    => [pc = "reserve" /\ pc' = "openDevice" => CooldownHolds(event.pid)]_vars
<1> SUFFICES ASSUME TypeOK, EventHeld, Remembered, Next,
                    pc = "reserve", pc' = "openDevice"
             PROVE  CooldownHolds(event.pid)
  OBVIOUS
<1> USE DEF channel, io, response
<1>1. Reserve
  BY DEF Next, Thread, Environment, OpenChannel, Backoff, CreateCompletionPort,
     PostFirstReceive, Test, Wait, Repost, Close, Metadata, Decide, OpenDevice, Terminate,
     Tick, CancelTrackedDevice, DriverChanges, Deliver, DeliverShort, SetStopEvent, Reload
<1>2. event.pid \in Pids
  BY DEF EventHeld
<1>3. since[event.pid] \in Nat /\ cooldown \in Nat
  BY <1>2, ConstantsAssumption DEF TypeOK, Ages
<1>4. CASE cooldown = 0
  BY <1>3, <1>4 DEF CooldownHolds
<1>5. ASSUME NEW S \in Kept, ~(event.pid \in S /\ history[event.pid] < cooldown)
      PROVE  CooldownHolds(event.pid)
  <2>1. CASE event.pid \in S
    <3>1. history[event.pid] = since[event.pid]
      BY <1>2, <2>1, KeptFacts DEF Remembered
    <3> QED
      BY <1>3, <1>5, <2>1, <3>1 DEF CooldownHolds
  <2>2. CASE event.pid \notin S
    <3>1. Forgotten(event.pid)
      BY <1>2, <2>2, PrunedIsForgotten
    <3> QED
      BY <3>1 DEF Forgotten, CooldownHolds
  <2> QED
    BY <2>1, <2>2
<1> QED
  BY <1>1, <1>4, <1>5 DEF Reserve

\* For any cooldown, retention and limit, and whatever is reloaded in between, a
\* process is answered again too early only if the retention or the limit made
\* the history forget it.
THEOREM CooldownObserved == Spec => CooldownKept
<1>1. Spec => []Remembered
  BY InitiallyForgotten, RememberedStep, EventsInvariant, PTL DEF Spec
<1> QED
  BY <1>1, AttemptStep, EventsInvariant, PTL DEF Spec, CooldownKept

-----------------------------------------------------------------------------
(* The safety half of OffenderAnswered.                                    *)

\* A process is let off only within the cooldown of an attempt on it.
RefusedForCause ==
  [][pc = "reserve" /\ pc' = "repost" => since[event.pid] < cooldown]_vars

\* The entry that refuses an attempt is as old as the last attempt.
LEMMA RefusedStep ==
  TypeOK /\ EventHeld /\ Remembered /\ [Next]_vars
    => [pc = "reserve" /\ pc' = "repost" => since[event.pid] < cooldown]_vars
<1> SUFFICES ASSUME TypeOK, EventHeld, Remembered, Next,
                    pc = "reserve", pc' = "repost"
             PROVE  since[event.pid] < cooldown
  OBVIOUS
<1> USE DEF channel, io, response
<1>1. Reserve
  BY DEF Next, Thread, Environment, OpenChannel, Backoff, CreateCompletionPort,
     PostFirstReceive, Test, Wait, Repost, Close, Metadata, Decide, OpenDevice, Terminate,
     Tick, CancelTrackedDevice, DriverChanges, Deliver, DeliverShort, SetStopEvent, Reload
<1>2. event.pid \in Pids
  BY DEF EventHeld
<1>3. PICK S \in Kept : event.pid \in S /\ history[event.pid] < cooldown
  BY <1>1 DEF Reserve
<1>4. history[event.pid] = since[event.pid]
  BY <1>2, <1>3, KeptFacts DEF Remembered
<1> QED
  BY <1>3, <1>4

\* For any cooldown, retention and limit: what the history has kept of earlier
\* attempts never lets a process off longer than its cooldown (819-841).
THEOREM RefusalsHaveCause == Spec => RefusedForCause
<1>1. Spec => []Remembered
  BY InitiallyForgotten, RememberedStep, EventsInvariant, PTL DEF Spec
<1> QED
  BY <1>1, RefusedStep, EventsInvariant, PTL DEF Spec, RefusedForCause

-----------------------------------------------------------------------------
\* The thread of the driver events as the engine sees it.
Monitor == INSTANCE MonitorThread WITH
  thread <- IF pc = "exit" THEN "ended" ELSE "running"

\* DriverEventMonitorThread is a thread as RunProtectionEngine expects it: it does
\* not end before the stop event is set, however often its channel breaks and
\* whatever the automatic response meets.
THEOREM EventsAreThread == Spec => Monitor!Spec
<1>1. Init => Monitor!Init
  BY DEF Init, Monitor!Init
<1>2. TypeOK /\ [Next]_vars => [Monitor!Next]_Monitor!vars
  <2> SUFFICES ASSUME TypeOK, [Next]_vars
               PROVE  Monitor!Next \/ UNCHANGED Monitor!vars
    OBVIOUS
  <2> USE DEF Monitor!vars, Monitor!Next, Monitor!RequestStop, Monitor!End, channel
  <2>1. CASE Thread
    <3>1. CASE OpenChannel \/ Backoff
      BY <3>1 DEF OpenChannel, Backoff
    <3>2. CASE ~(OpenChannel \/ Backoff)
      <4>1. stop' = stop /\ pc # "exit" /\ pc' # "exit"
        <5>1. CASE CreateCompletionPort \/ PostFirstReceive \/ Test \/ Wait
          BY <5>1 DEF CreateCompletionPort, PostFirstReceive, Test, Wait
        <5>2. CASE Repost \/ Close \/ Metadata \/ Decide
          BY <5>2 DEF Repost, Close, Metadata, Decide
        <5>3. CASE Reserve \/ OpenDevice \/ Terminate
          BY <5>3 DEF Reserve, OpenDevice, Terminate
        <5> QED
          BY <2>1, <3>2, <5>1, <5>2, <5>3 DEF Thread
      <4> QED
        BY <4>1
    <3> QED
      BY <3>1, <3>2
  <2>2. CASE Tick \/ CancelTrackedDevice
    BY <2>2 DEF Tick, CancelTrackedDevice
  <2>3. CASE Environment
    BY <2>3 DEF Environment, DriverChanges, Deliver, DeliverShort, SetStopEvent, Reload
  <2>4. CASE UNCHANGED vars
    BY <2>4 DEF vars
  <2> QED
    BY <2>1, <2>2, <2>3, <2>4 DEF Next
<1> QED
  BY <1>1, <1>2, EventsTypeCorrect, PTL DEF Spec, Monitor!Spec
=============================================================================
