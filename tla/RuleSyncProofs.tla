--------------------------- MODULE RuleSyncProofs ---------------------------
(***************************************************************************)
(* Proofs about RuleSync for every set of configurations, every driver and *)
(* every number of changes of the file: type correctness, and that trusted *)
(* pushes leave the driver with the active configuration.                  *)
(***************************************************************************)
EXTENDS RuleSync, SequenceTheorems, TLAPS

LEMMA NoRules == <<>> \in Seq(Rules)
  BY EmptySeq

\* A push that begins taints threads only.
LEMMA BeginTaintsThreads ==
  ASSUME NEW t \in Threads, tainted \subseteq Threads, Begin(t)
  PROVE  tainted' \subseteq Threads
  BY DEF Begin, Pushing

\* Moving the head of the second list to the end of the first one, which is
\* what one AddRegistryRule does, keeps their concatenation.
LEMMA AddMovesOne ==
  ASSUME NEW S, NEW s \in Seq(S), NEW u \in Seq(S), u # <<>>
  PROVE  /\ Head(u) \in S
         /\ Tail(u) \in Seq(S)
         /\ Append(s, Head(u)) \in Seq(S)
         /\ Append(s, Head(u)) \o Tail(u) = s \o u
<1>1. Head(u) \in S /\ Tail(u) \in Seq(S)
  BY HeadTailProperties
<1>2. Append(s, Head(u)) \in Seq(S)
  BY <1>1, AppendProperties
<1>3. Append(s, Head(u)) \o Tail(u) = s \o u
  BY <1>1, <1>2
<1> QED BY <1>1, <1>2, <1>3

-----------------------------------------------------------------------------
(* Type correctness.                                                       *)

\* Every variable keeps its type: in particular no push ever carries, and the
\* driver never receives, a file content that did not parse.
THEOREM TypeCorrect == Spec => []TypeOK
<1>1. Init => TypeOK
  <2> SUFFICES ASSUME Init PROVE TypeOK
    OBVIOUS
  <2>1. pc \in [Threads -> Labels]
    BY DEF Init, Labels
  <2>2. pushing \in [Threads -> Configs] /\ todo \in [Threads -> Seq(Rules)]
    BY ConstantsAssumption, NoRules DEF Init
  <2>3. /\ handle \in [Threads -> {"closed", "open", "stale"}]
        /\ ok \in [Threads -> BOOLEAN]
    BY DEF Init
  <2> QED
    BY <2>1, <2>2, <2>3, ConstantsAssumption, NoRules DEF Init, TypeOK
<1>2. TypeOK /\ [Next]_vars => TypeOK'
  <2> SUFFICES ASSUME TypeOK, [Next]_vars PROVE TypeOK'
    OBVIOUS
  <2> USE ConstantsAssumption DEF TypeOK, Labels, PushLabels, Goto, history, store, file
  <2>1. ASSUME NEW t \in Threads, OpenDevice(t) PROVE TypeOK'
    <3>1. GiveUp(t) \in Labels
      BY DEF GiveUp, Threads
    <3>2. pc' \in [Threads -> Labels]
      BY <2>1, <3>1 DEF OpenDevice
    <3>3. ok' \in [Threads -> BOOLEAN]
      BY <2>1 DEF OpenDevice
    <3>4. handle' \in [Threads -> {"closed", "open", "stale"}]
      BY <2>1 DEF OpenDevice
    <3>5. /\ tainted' \subseteq Threads
          /\ trusted' \in BOOLEAN
          /\ deferred' \in Configs \cup {NoConfig}
      BY <2>1 DEF OpenDevice
    <3> QED
      BY <2>1, <3>2, <3>3, <3>4, <3>5 DEF OpenDevice
  <2>2. ASSUME NEW t \in Threads, ReplaceRegistryRules(t) PROVE TypeOK'
    <3>1. pc' \in [Threads -> Labels]
      BY <2>2 DEF ReplaceRegistryRules, Fail
    <3>2. ok' \in [Threads -> BOOLEAN]
      BY <2>2 DEF ReplaceRegistryRules, Fail
    <3>3. block' \in Seq(Rules)
      BY <2>2 DEF ReplaceRegistryRules, Fail
    <3> QED
      BY <2>2, <3>1, <3>2, <3>3 DEF ReplaceRegistryRules
  <2>3. ASSUME NEW t \in Threads, ReplaceRegistryAllowRules(t) PROVE TypeOK'
    <3>1. pc' \in [Threads -> Labels]
      BY <2>3 DEF ReplaceRegistryAllowRules, Fail
    <3>2. ok' \in [Threads -> BOOLEAN]
      BY <2>3 DEF ReplaceRegistryAllowRules, Fail
    <3>3. allow' \in Seq(Rules)
      BY <2>3 DEF ReplaceRegistryAllowRules, Fail
    <3> QED
      BY <2>3, <3>1, <3>2, <3>3 DEF ReplaceRegistryAllowRules
  <2>4. ASSUME NEW t \in Threads, ClearRegistryRules(t) PROVE TypeOK'
    <3>1. pc' \in [Threads -> Labels]
      BY <2>4 DEF ClearRegistryRules
    <3>2. block' \in Seq(Rules)
      BY <2>4, NoRules DEF ClearRegistryRules
    <3>3. tainted' \subseteq Threads
      BY <2>4 DEF ClearRegistryRules
    <3> QED
      BY <2>4, <3>1, <3>2, <3>3 DEF ClearRegistryRules
  <2>5. ASSUME NEW t \in Threads, ClearRegistryAllowRules(t) PROVE TypeOK'
    <3>1. pc' \in [Threads -> Labels]
      BY <2>5 DEF ClearRegistryAllowRules
    <3>2. allow' \in Seq(Rules)
      BY <2>5, NoRules DEF ClearRegistryAllowRules
    <3>3. tainted' \subseteq Threads
      BY <2>5 DEF ClearRegistryAllowRules
    <3>4. todo' \in [Threads -> Seq(Rules)]
      BY <2>5 DEF ClearRegistryAllowRules
    <3> QED
      BY <2>5, <3>1, <3>2, <3>3, <3>4 DEF ClearRegistryAllowRules
  <2>6. ASSUME NEW t \in Threads, AddRegistryRule(t) PROVE TypeOK'
    <3>1. pc' \in [Threads -> Labels]
      <4>1. "addAllow" \in Labels
        OBVIOUS
      <4> QED BY <2>6, <4>1 DEF AddRegistryRule
    <3>2. ok' \in [Threads -> BOOLEAN]
      BY <2>6 DEF AddRegistryRule, Fail
    <3>3. todo[t] \in Seq(Rules)
      OBVIOUS
    <3>4. block' \in Seq(Rules) /\ todo' \in [Threads -> Seq(Rules)]
      <4>1. CASE todo[t] = <<>>
        <5>1. AllowRules[pushing[t]] \in Seq(Rules)
          OBVIOUS
        <5> QED BY <2>6, <4>1, <5>1 DEF AddRegistryRule
      <4>2. CASE todo[t] # <<>>
        <5>1. /\ Tail(todo[t]) \in Seq(Rules)
              /\ Append(block, Head(todo[t])) \in Seq(Rules)
          BY <3>3, <4>2, AddMovesOne
        <5>2. block' \in Seq(Rules)
          BY <2>6, <4>2, <5>1 DEF AddRegistryRule
        <5>3. todo' = [todo EXCEPT ![t] = Tail(todo[t])]
          BY <2>6, <4>2 DEF AddRegistryRule
        <5>4. todo' \in [Threads -> Seq(Rules)]
          BY <5>1, <5>3
        <5> QED BY <5>2, <5>4
      <4> QED BY <4>1, <4>2
    <3> QED
      BY <2>6, <3>1, <3>2, <3>4 DEF AddRegistryRule
  <2>7. ASSUME NEW t \in Threads, AddRegistryAllowRule(t) PROVE TypeOK'
    <3>1. pc' \in [Threads -> Labels]
      <4>1. "setInfo" \in Labels
        OBVIOUS
      <4> QED BY <2>7, <4>1 DEF AddRegistryAllowRule
    <3>2. ok' \in [Threads -> BOOLEAN]
      BY <2>7 DEF AddRegistryAllowRule, Fail
    <3>3. todo[t] \in Seq(Rules)
      OBVIOUS
    <3>4. allow' \in Seq(Rules) /\ todo' \in [Threads -> Seq(Rules)]
      <4>1. CASE todo[t] = <<>>
        BY <2>7, <4>1 DEF AddRegistryAllowRule
      <4>2. CASE todo[t] # <<>>
        <5>1. /\ Tail(todo[t]) \in Seq(Rules)
              /\ Append(allow, Head(todo[t])) \in Seq(Rules)
          BY <3>3, <4>2, AddMovesOne
        <5>2. allow' \in Seq(Rules)
          BY <2>7, <4>2, <5>1 DEF AddRegistryAllowRule
        <5>3. todo' = [todo EXCEPT ![t] = Tail(todo[t])]
          BY <2>7, <4>2 DEF AddRegistryAllowRule
        <5>4. todo' \in [Threads -> Seq(Rules)]
          BY <5>1, <5>3
        <5> QED BY <5>2, <5>4
      <4> QED BY <4>1, <4>2
    <3> QED
      BY <2>7, <3>1, <3>2, <3>4 DEF AddRegistryAllowRule
  <2>8. ASSUME NEW t \in Threads, SetActiveDriverConfigInfo(t) PROVE TypeOK'
    BY <2>8 DEF SetActiveDriverConfigInfo, Fail
  <2>9. CASE LoadAtStartup
    BY <2>9 DEF LoadAtStartup, Begin, Pushing, Parses, Threads
  <2>10. CASE StartThreads
    <3>1. pc' \in [Threads -> Labels]
      BY <2>10 DEF StartThreads, Return, Threads
    <3>2. handle' \in [Threads -> {"closed", "open", "stale"}]
      BY <2>10 DEF StartThreads, Return, Threads
    <3>3. tainted' \subseteq Threads /\ trusted' \in BOOLEAN
      BY <2>10 DEF StartThreads, Return, Threads
    <3> QED
      BY <2>10, <3>1, <3>2, <3>3 DEF StartThreads, Return
  <2>11. CASE TakeBaseline
    BY <2>11 DEF TakeBaseline, FileState, Threads
  <2>12. CASE PollFile
    BY <2>12 DEF PollFile, FileState, Threads
  <2>13. CASE LoadCandidate
    <3>1. pc' \in [Threads -> Labels]
      BY <2>13 DEF LoadCandidate, Begin, Pushing, Parses, Threads
    <3>2. pushing' \in [Threads -> Configs]
      BY <2>13 DEF LoadCandidate, Begin, Pushing, Parses, Threads
    <3>3. tainted' \subseteq Threads
      BY <2>13, BeginTaintsThreads DEF LoadCandidate, Threads
    <3> QED
      BY <2>13, <3>1, <3>2, <3>3 DEF LoadCandidate
  <2>14. CASE ActivateCandidate
    BY <2>14 DEF ActivateCandidate, Return, Threads
  <2>15. CASE RollBack
    BY <2>15 DEF RollBack, Return, Threads
  <2>16. CASE ConnectPort
    <3>1. pc' \in [Threads -> Labels]
      BY <2>16 DEF ConnectPort, Begin, Pushing, Threads
    <3>2. pushing' \in [Threads -> Configs]
      BY <2>16 DEF ConnectPort, Begin, Pushing, Threads
    <3>3. tainted' \subseteq Threads
      BY <2>16, BeginTaintsThreads DEF ConnectPort, Threads
    <3> QED
      BY <2>16, <3>1, <3>2, <3>3 DEF ConnectPort
  <2>17. CASE FinishResync
    BY <2>17 DEF FinishResync, Return, Threads
  <2>18. CASE ChangeFile
    BY <2>18 DEF ChangeFile
  <2>19. CASE DriverStop
    BY <2>19, NoRules DEF DriverStop, Pushing
  <2>20. CASE DriverStart
    BY <2>20 DEF DriverStart
  <2>21. CASE PortDrop
    BY <2>21 DEF PortDrop, Threads
  <2>22. CASE UNCHANGED vars
    BY <2>22 DEF vars
  <2> QED
    BY <2>1, <2>2, <2>3, <2>4, <2>5, <2>6, <2>7, <2>8, <2>9, <2>10, <2>11,
       <2>12, <2>13, <2>14, <2>15, <2>16, <2>17, <2>18, <2>19, <2>20, <2>21,
       <2>22
    DEF Next, Main, Reload, Verdict, Environment, Exited, Push, Threads
<1> QED
  BY <1>1, <1>2, PTL DEF Spec

-----------------------------------------------------------------------------
(* The inductive invariant behind TrustedMeansInSync.                      *)

InPush(t) == pc[t] \in PushLabels

\* Before the first load nothing has been pushed and no thread was started.
Startup ==
  pc["main"] = "load" => pc["reload"] = "off" /\ pc["verdict"] = "off" /\ ~trusted

\* An untainted push is the only one in progress.
Alone ==
  \A t, u \in Threads : InPush(t) /\ InPush(u) /\ t \notin tainted => u = t

\* An untainted push of "main" or "verdict" carries the active configuration.
Current ==
  \A t \in Threads :
    InPush(t) /\ t \notin tainted /\ t # "reload" => pushing[t] = active

\* How far thread t's push has brought the driver if no call of it failed.
Progress(t) ==
  LET B == BlockRules[pushing[t]]
      A == AllowRules[pushing[t]]
  IN /\ pc[t] = "replaceAllow" => block = B
     /\ pc[t] = "clearAllow" => block = <<>>
     /\ pc[t] = "addBlock" => block \o todo[t] = B /\ allow = <<>>
     /\ pc[t] = "addAllow" => block = B /\ allow \o todo[t] = A
     /\ pc[t] = "setInfo" => block = B /\ allow = A
     /\ pc[t] = "finish" => block = B /\ allow = A /\ info = pushing[t]

PushesProgress ==
  \A t \in Threads : InPush(t) /\ t \notin tainted /\ ok[t] => Progress(t)

\* While the driver is trusted no push has made its first call.
TrustHolds ==
  trusted => InSync /\ \A t \in Threads : InPush(t) => pc[t] = "open"

Inv == Startup /\ Alone /\ Current /\ PushesProgress /\ TrustHolds

\* A call of a push preserves Inv if it preserves the progress of that push.
LEMMA CallPreservesInv ==
  ASSUME TypeOK, Inv, NEW t \in Threads, InPush(t), pc[t] # "open",
         NEW label \in PushLabels \ {"open"}, pc' = [pc EXCEPT ![t] = label],
         tainted \subseteq tainted', UNCHANGED <<active, pushing, trusted>>,
         \A u \in Threads \ {t} : ok'[u] = ok[u],
         t \notin tainted' /\ ok'[t] => Progress(t)'
  PROVE  Inv'
<1> USE DEF Inv
<1>1. pc \in [Threads -> Labels] /\ t \in DOMAIN pc
  BY DEF TypeOK
<1>2. /\ pc'[t] = label /\ InPush(t)'
      /\ \A u \in Threads \ {t} : pc'[u] = pc[u] /\ InPush(u)' = InPush(u)
  BY <1>1 DEF InPush
<1>3. \A u \in Threads : InPush(u)' => InPush(u)
  BY <1>2
<1>4. ~trusted
  BY DEF TrustHolds
<1>5. \A u \in Threads : InPush(u)' /\ u \notin tainted' => u = t
  BY <1>3 DEF Alone
<1>6. Startup'
  BY <1>2 DEF Startup, Threads, InPush, PushLabels
<1>7. Alone'
  BY <1>3 DEF Alone
<1>8. Current'
  BY <1>3, <1>5 DEF Current
<1>9. PushesProgress'
  BY <1>5 DEF PushesProgress
<1>10. TrustHolds'
  BY <1>4 DEF TrustHolds
<1> QED BY <1>6, <1>7, <1>8, <1>9, <1>10

\* So does the end of a push, whatever it does to the active configuration
\* when it returns true.
LEMMA ReturnPreservesInv ==
  ASSUME TypeOK, Inv, NEW t \in Threads, Return(t),
         NEW label \in Labels \ PushLabels, label # "load", pc'[t] = label,
         \A u \in Threads \ {t} : InPush(u)' => pc'[u] = pc[u],
         pc'["main"] = "load" => t # "main" /\ pc["main"] = "load",
         active' = IF t = "reload" /\ ok[t] THEN pushing[t] ELSE active
  PROVE  Inv'
<1> USE DEF Inv
<1>1. InPush(t) /\ pc[t] = "finish" /\ ~InPush(t)'
  BY DEF Return, InPush, PushLabels
<1>2. \A u \in Threads : InPush(u)' => InPush(u) /\ u # t
  BY <1>1 DEF InPush
<1>3. \A u \in Threads : InPush(u)' => u \in tainted'
  <2>1. \A u \in Threads : InPush(u)' => u \in tainted
    BY <1>1, <1>2 DEF Alone
  <2> QED BY <2>1, <1>2 DEF Return
<1>4. Startup'
  BY <1>1 DEF Startup, Threads, InPush, PushLabels
<1>5. Alone' /\ Current' /\ PushesProgress'
  BY <1>3 DEF Alone, Current, PushesProgress
<1>6. TrustHolds'
  <2> SUFFICES ASSUME trusted'
               PROVE  InSync' /\ \A u \in Threads : ~InPush(u)'
    BY DEF TrustHolds
  <2>1. ok[t] /\ t \notin tainted
    BY DEF Return
  <2>2. block = BlockRules[pushing[t]] /\ allow = AllowRules[pushing[t]]
        /\ info = pushing[t]
    BY <1>1, <2>1 DEF PushesProgress, Progress
  <2>3. active' = pushing[t]
    BY <1>1, <2>1 DEF Current
  <2>4. InSync'
    BY <2>2, <2>3 DEF InSync, Image, Return, store
  <2>5. \A u \in Threads : ~InPush(u)'
    BY <1>1, <1>2, <2>1 DEF Alone
  <2> QED BY <2>4, <2>5
<1> QED BY <1>4, <1>5, <1>6

\* And so does the beginning of one.
LEMMA BeginPreservesInv ==
  ASSUME TypeOK, Inv, NEW t \in Threads, ~InPush(t), Begin(t),
         t # "main" => pc["main"] # "load",
         pc' = [pc EXCEPT ![t] = "open"],
         \A u \in Threads \ {t} : pushing'[u] = pushing[u],
         t # "reload" => pushing'[t] = active',
         UNCHANGED <<store, ok, trusted>>,
         active' = active \/ (pc["main"] = "load" /\ t = "main")
  PROVE  Inv'
<1> USE DEF Inv
<1>1. pc \in [Threads -> Labels] /\ t \in DOMAIN pc
  BY DEF TypeOK
<1>2. /\ pc'[t] = "open" /\ InPush(t)'
      /\ \A u \in Threads \ {t} : pc'[u] = pc[u] /\ InPush(u)' = InPush(u)
  BY <1>1 DEF InPush, PushLabels
<1>3. \A u \in Threads : InPush(u)' /\ u \notin tainted' => u = t /\ Pushing = {}
  <2>1. CASE Pushing = {}
    BY <2>1, <1>2 DEF Pushing, InPush
  <2>2. CASE Pushing # {}
    BY <2>2, <1>2 DEF Pushing, InPush, Begin
  <2> QED BY <2>1, <2>2
<1>4. Startup'
  <2>1. pc'["main"] # "load"
    BY <1>2 DEF Threads
  <2> QED BY <2>1 DEF Startup
<1>5. Alone'
  BY <1>2, <1>3 DEF Alone, Pushing, InPush
<1>6. Current'
  BY <1>3 DEF Current
<1>7. PushesProgress'
  BY <1>2, <1>3 DEF PushesProgress, Progress
<1>8. TrustHolds'
  BY <1>2 DEF TrustHolds, InSync, Image, store, Startup
<1> QED BY <1>4, <1>5, <1>6, <1>7, <1>8

\* Opening the device, or giving up on it.
LEMMA OpenPreservesInv ==
  ASSUME TypeOK, Inv, NEW t \in Threads, OpenDevice(t)
  PROVE  Inv'
<1> USE DEF Inv
<1>1. pc \in [Threads -> Labels] /\ ok \in [Threads -> BOOLEAN]
  BY DEF TypeOK
<1>2. \A u \in Threads \ {t} : /\ pc'[u] = pc[u] /\ ok'[u] = ok[u]
                               /\ InPush(u)' = InPush(u)
  BY <1>1 DEF OpenDevice, Goto, InPush
<1>3. pc[t] = "open" /\ InPush(t)
  BY DEF OpenDevice, InPush, PushLabels
<1>4. UNCHANGED <<active, pushing, block, allow, info>>
  BY DEF OpenDevice, store
<1>5. CASE pc'[t] = "replaceBlock" /\ ~trusted' /\ tainted' = tainted
  <2>1. \A u \in Threads : InPush(u)' => InPush(u)
    BY <1>2, <1>3
  <2>2. Startup'
    BY <1>2, <1>3, <1>5 DEF Startup, Threads
  <2>3. Alone' /\ Current'
    BY <2>1, <1>4, <1>5 DEF Alone, Current
  <2>4. PushesProgress'
    <3>1. Progress(t)'
      BY <1>5 DEF Progress
    <3>2. \A u \in Threads \ {t} : Progress(u) => Progress(u)'
      BY <1>2, <1>4 DEF Progress, OpenDevice
    <3> QED BY <3>1, <3>2, <2>1, <1>2, <1>5 DEF PushesProgress
  <2> QED BY <2>2, <2>3, <2>4, <1>5 DEF TrustHolds
<1>6. CASE /\ pc'[t] \in {"exited", "poll", "serving"}
           /\ trusted' = trusted /\ tainted' = tainted \ {t}
  <2>1. ~InPush(t)'
    BY <1>6 DEF InPush, PushLabels
  <2>2. \A u \in Threads : InPush(u)' =>
          InPush(u) /\ u # t /\ (u \notin tainted' => u \notin tainted)
    BY <1>2, <1>6, <2>1
  <2>3. Startup'
    BY <1>2, <1>3, <1>6 DEF Startup, Threads
  <2>4. Alone' /\ Current'
    BY <2>2, <1>4 DEF Alone, Current
  <2>5. PushesProgress'
    <3>1. \A u \in Threads \ {t} : Progress(u) => Progress(u)'
      BY <1>2, <1>4 DEF Progress, OpenDevice
    <3> QED BY <3>1, <2>2, <1>2 DEF PushesProgress
  <2>6. TrustHolds'
    BY <2>2, <1>2, <1>4, <1>6 DEF TrustHolds, InSync, Image, store
  <2> QED BY <2>3, <2>4, <2>5, <2>6
<1>7. \/ pc'[t] = "replaceBlock" /\ ~trusted' /\ tainted' = tainted
      \/ /\ pc'[t] \in {"exited", "poll", "serving"}
         /\ trusted' = trusted /\ tainted' = tainted \ {t}
  <2>1. GiveUp(t) \in {"exited", "poll", "serving"}
    BY DEF GiveUp, Threads
  <2> QED BY <2>1, <1>1 DEF OpenDevice, Goto
<1> QED BY <1>5, <1>6, <1>7

\* A thread that goes from one place outside a push to another.
LEMMA IdlePreservesInv ==
  ASSUME Inv, NEW t \in Threads, ~InPush(t), ~InPush(t)',
         pc' = pc \/ (pc["main"] # "load" /\ pc'["main"] # "load"),
         \A u \in Threads \ {t} : pc'[u] = pc[u],
         UNCHANGED <<active, block, allow, info, pushing, todo, ok, tainted,
                     trusted>>
  PROVE  Inv'
<1> USE DEF Inv
<1>1. \A u \in Threads : InPush(u)' => InPush(u) /\ pc'[u] = pc[u]
  BY DEF InPush
<1>2. Startup'
  BY DEF Startup
<1>3. Alone' /\ Current'
  BY <1>1 DEF Alone, Current
<1>4. PushesProgress'
  <2>1. \A u \in Threads : InPush(u)' /\ Progress(u) => Progress(u)'
    BY <1>1 DEF Progress
  <2> QED BY <2>1, <1>1 DEF PushesProgress
<1>5. TrustHolds'
  BY <1>1 DEF TrustHolds, InSync, Image, store
<1> QED BY <1>2, <1>3, <1>4, <1>5

\* The calls of a push: each one moves the driver's lists as Progress says, or
\* fails the push, or taints it.
LEMMA CallsPreserveInv ==
  ASSUME TypeOK, Inv, NEW t \in Threads,
         \/ ReplaceRegistryRules(t) \/ ReplaceRegistryAllowRules(t)
         \/ ClearRegistryRules(t) \/ ClearRegistryAllowRules(t)
         \/ AddRegistryRule(t) \/ AddRegistryAllowRule(t)
         \/ SetActiveDriverConfigInfo(t)
  PROVE  Inv'
<1> DEFINE B == BlockRules[pushing[t]]
           A == AllowRules[pushing[t]]
           Step(label) == /\ pc' = [pc EXCEPT ![t] = label]
                          /\ label \in PushLabels \ {"open"}
                          /\ InPush(t) /\ pc[t] # "open"
                          /\ tainted \subseteq tainted'
                          /\ UNCHANGED <<active, pushing, trusted>>
                          /\ \A u \in Threads \ {t} : ok'[u] = ok[u]
           Good == t \notin tainted /\ ok[t]
           Good1 == t \notin tainted' /\ ok'[t]
<1>1. /\ pc \in [Threads -> Labels] /\ ok \in [Threads -> BOOLEAN]
      /\ todo \in [Threads -> Seq(Rules)] /\ todo[t] \in Seq(Rules)
      /\ block \in Seq(Rules) /\ allow \in Seq(Rules)
      /\ A \in Seq(Rules) /\ B \in Seq(Rules)
  BY ConstantsAssumption DEF TypeOK
<1>2. InPush(t) /\ Good => Progress(t)
  BY DEF Inv, PushesProgress
<1>3. ASSUME NEW label, Step(label), Good1 => Progress(t)'
      PROVE  Inv'
  BY <1>3, CallPreservesInv
<1> USE DEF history, store, file, Goto, Fail, InPush, PushLabels
<1>4. CASE ReplaceRegistryRules(t)
  <2>1. CASE pc' = [pc EXCEPT ![t] = "replaceAllow"] /\ block' = B
    <3>1. Step("replaceAllow")
      BY <1>4, <2>1, <1>1 DEF ReplaceRegistryRules
    <3>2. Progress(t)'
      BY <1>1, <2>1, <3>1 DEF Progress
    <3> HIDE DEF Step
    <3> QED BY <3>1, <3>2, <1>3
  <2>2. CASE pc' = [pc EXCEPT ![t] = "clearBlock"]
    <3>1. Step("clearBlock")
      BY <1>4, <2>2, <1>1 DEF ReplaceRegistryRules
    <3>2. Progress(t)'
      BY <1>1, <2>2 DEF Progress
    <3> HIDE DEF Step
    <3> QED BY <3>1, <3>2, <1>3
  <2>3. CASE pc' = [pc EXCEPT ![t] = "setInfo"] /\ Fail(t)
    <3>1. Step("setInfo")
      BY <1>4, <2>3, <1>1 DEF ReplaceRegistryRules
    <3>2. ~Good1
      BY <1>1, <2>3
    <3> HIDE DEF Step, Good1
    <3> QED BY <3>1, <3>2, <1>3
  <2> QED BY <1>4, <2>1, <2>2, <2>3 DEF ReplaceRegistryRules
<1>5. CASE ReplaceRegistryAllowRules(t)
  <2>1. CASE pc' = [pc EXCEPT ![t] = "setInfo"] /\ allow' = A /\ UNCHANGED ok
    <3>1. Step("setInfo")
      BY <1>5, <2>1, <1>1 DEF ReplaceRegistryAllowRules
    <3>2. Good1 => block = B
      BY <1>5, <1>2, <2>1 DEF Progress, ReplaceRegistryAllowRules
    <3>3. Good1 => Progress(t)'
      BY <1>1, <1>5, <2>1, <3>2 DEF Progress, ReplaceRegistryAllowRules
    <3> HIDE DEF Step, Good1
    <3> QED BY <3>1, <3>3, <1>3
  <2>2. CASE pc' = [pc EXCEPT ![t] = "clearBlock"]
    <3>1. Step("clearBlock")
      BY <1>5, <2>2, <1>1 DEF ReplaceRegistryAllowRules
    <3>2. Progress(t)'
      BY <1>1, <2>2 DEF Progress
    <3> HIDE DEF Step
    <3> QED BY <3>1, <3>2, <1>3
  <2>3. CASE pc' = [pc EXCEPT ![t] = "setInfo"] /\ Fail(t)
    <3>1. Step("setInfo")
      BY <1>5, <2>3, <1>1 DEF ReplaceRegistryAllowRules
    <3>2. ~Good1
      BY <1>1, <2>3
    <3> HIDE DEF Step, Good1
    <3> QED BY <3>1, <3>2, <1>3
  <2> QED BY <1>5, <2>1, <2>2, <2>3 DEF ReplaceRegistryAllowRules
<1>6. CASE ClearRegistryRules(t)
  <2>1. Step("clearAllow")
    BY <1>6, <1>1 DEF ClearRegistryRules
  <2>2. Good1 => block' = <<>>
    BY <1>6 DEF ClearRegistryRules
  <2>3. Good1 => Progress(t)'
    BY <1>1, <2>1, <2>2 DEF Progress
  <2> HIDE DEF Step, Good1
  <2> QED BY <2>1, <2>3, <1>3
<1>7. CASE ClearRegistryAllowRules(t)
  <2>1. Step("addBlock")
    BY <1>7, <1>1 DEF ClearRegistryAllowRules
  <2>2. Good1 => block' = <<>> /\ allow' = <<>> /\ todo'[t] = B
    BY <1>7, <1>1, <1>2 DEF Progress, ClearRegistryAllowRules
  <2>3. <<>> \o B = B
    BY <1>1, ConcatEmptySeq
  <2>4. Good1 => Progress(t)'
    BY <1>1, <2>1, <2>2, <2>3 DEF Progress
  <2> HIDE DEF Step, Good1
  <2> QED BY <2>1, <2>4, <1>3
<1>8. CASE AddRegistryRule(t)
  <2>1. CASE todo[t] = <<>>
    <3>1. Step("addAllow")
      BY <1>8, <2>1, <1>1 DEF AddRegistryRule
    <3>2. Good1 => block' \o <<>> = B /\ allow' = <<>> /\ todo'[t] = A
      BY <1>8, <2>1, <1>1, <1>2 DEF Progress, AddRegistryRule
    <3>3. block' = block
      BY <1>8, <2>1 DEF AddRegistryRule
    <3>4. block \o <<>> = block /\ <<>> \o A = A
      BY <1>1, ConcatEmptySeq
    <3>5. Good1 => Progress(t)'
      BY <1>1, <3>1, <3>2, <3>3, <3>4 DEF Progress
    <3> HIDE DEF Step, Good1
    <3> QED BY <3>1, <3>5, <1>3
  <2>2. CASE todo[t] # <<>>
    <3>1. pc' = [pc EXCEPT ![t] = "addBlock"] /\ pc[t] = "addBlock"
      BY <1>8, <2>2, <1>1 DEF AddRegistryRule
    <3>2. Step("addBlock")
      BY <1>8, <2>2, <3>1, <1>1 DEF AddRegistryRule
    <3>3. Good1 => /\ Good /\ allow' = allow
                   /\ block' = Append(block, Head(todo[t]))
                   /\ todo'[t] = Tail(todo[t])
      BY <1>8, <2>2, <1>1 DEF AddRegistryRule
    <3>4. Append(block, Head(todo[t])) \o Tail(todo[t]) = block \o todo[t]
      BY <1>1, <2>2, AddMovesOne
    <3>5. Good => block \o todo[t] = B /\ allow = <<>>
      BY <1>2, <3>1 DEF Progress
    <3>6. Good1 => block' \o todo'[t] = B /\ allow' = <<>>
      BY <3>3, <3>4, <3>5
    <3>7. Good1 => Progress(t)'
      BY <1>1, <3>2, <3>6 DEF Progress
    <3> HIDE DEF Step, Good1
    <3> QED BY <3>2, <3>7, <1>3
  <2> QED BY <2>1, <2>2
<1>9. CASE AddRegistryAllowRule(t)
  <2>1. CASE todo[t] = <<>>
    <3>1. Step("setInfo")
      BY <1>9, <2>1, <1>1 DEF AddRegistryAllowRule
    <3>2. Good1 => block' = B /\ allow \o <<>> = A
      BY <1>9, <2>1, <1>1, <1>2 DEF Progress, AddRegistryAllowRule
    <3>3. allow' = allow
      BY <1>9, <2>1 DEF AddRegistryAllowRule
    <3>4. allow \o <<>> = allow
      BY <1>1, ConcatEmptySeq
    <3>5. Good1 => Progress(t)'
      BY <1>1, <3>1, <3>2, <3>3, <3>4 DEF Progress
    <3> HIDE DEF Step, Good1
    <3> QED BY <3>1, <3>5, <1>3
  <2>2. CASE todo[t] # <<>>
    <3>1. pc' = [pc EXCEPT ![t] = "addAllow"] /\ pc[t] = "addAllow"
      BY <1>9, <2>2, <1>1 DEF AddRegistryAllowRule
    <3>2. Step("addAllow")
      BY <1>9, <2>2, <3>1, <1>1 DEF AddRegistryAllowRule
    <3>3. Good1 => /\ Good /\ block' = block
                   /\ allow' = Append(allow, Head(todo[t]))
                   /\ todo'[t] = Tail(todo[t])
      BY <1>9, <2>2, <1>1 DEF AddRegistryAllowRule
    <3>4. Append(allow, Head(todo[t])) \o Tail(todo[t]) = allow \o todo[t]
      BY <1>1, <2>2, AddMovesOne
    <3>5. Good => block = B /\ allow \o todo[t] = A
      BY <1>2, <3>1 DEF Progress
    <3>6. Good1 => block' = B /\ allow' \o todo'[t] = A
      BY <3>3, <3>4, <3>5
    <3>7. Good1 => Progress(t)'
      BY <1>1, <3>2, <3>6 DEF Progress
    <3> HIDE DEF Step, Good1
    <3> QED BY <3>2, <3>7, <1>3
  <2> QED BY <2>1, <2>2
<1>10. CASE SetActiveDriverConfigInfo(t)
  <2>1. Step("finish")
    BY <1>10, <1>1 DEF SetActiveDriverConfigInfo
  <2>2. Good1 => Good /\ info' = pushing[t] /\ block' = block /\ allow' = allow
    BY <1>10, <1>1 DEF SetActiveDriverConfigInfo
  <2>3. Good => block = B /\ allow = A
    BY <1>10, <1>2 DEF Progress, SetActiveDriverConfigInfo
  <2>4. Good1 => Progress(t)'
    BY <1>1, <2>1, <2>2, <2>3 DEF Progress
  <2> HIDE DEF Step, Good1
  <2> QED BY <2>1, <2>4, <1>3
<1> QED BY <1>4, <1>5, <1>6, <1>7, <1>8, <1>9, <1>10

\* For every set of configurations, with or without batch support, and
\* whatever calls fail, whenever the driver stops and however the pushes of
\* ApplyKernelRules interleave: a push that returned true, met no other push
\* and no failed clear, left the driver with the active configuration.
THEOREM TrustedPushes == Spec => []TrustedMeansInSync
<1>1. Init => Inv
  <2> SUFFICES ASSUME Init PROVE Inv
    OBVIOUS
  <2>1. \A t \in Threads : ~InPush(t)
    BY DEF Init, InPush, PushLabels
  <2> QED
    BY <2>1 DEF Init, Inv, Startup, Alone, Current, PushesProgress, TrustHolds, Threads
<1>2. TypeOK /\ Inv /\ [Next]_vars => Inv'
  <2> SUFFICES ASSUME TypeOK, Inv, [Next]_vars PROVE Inv'
    OBVIOUS
  <2> USE DEF history, store, file, Goto
  <2>0. pc \in [Threads -> Labels] /\ pushing \in [Threads -> Configs]
    BY DEF TypeOK
  <2>1. ASSUME NEW t \in Threads, Push(t) PROVE Inv'
    BY <2>1, OpenPreservesInv, CallsPreserveInv DEF Push
  <2>2. CASE LoadAtStartup
    <3>1. ~InPush("main") /\ "main" \in Threads /\ pc["main"] = "load"
      BY <2>2 DEF LoadAtStartup, InPush, PushLabels, Threads
    <3>2. /\ Begin("main") /\ pc' = [pc EXCEPT !["main"] = "open"]
          /\ \A u \in Threads \ {"main"} : pushing'[u] = pushing[u]
          /\ pushing'["main"] = active'
          /\ UNCHANGED <<store, ok, trusted>>
      BY <2>0, <2>2, <3>1 DEF LoadAtStartup
    <3> QED BY <3>1, <3>2, BeginPreservesInv
  <2>3. CASE StartThreads
    <3>1. /\ "main" \in Threads /\ "running" \in Labels \ PushLabels
          /\ Return("main") /\ pc'["main"] = "running" /\ active' = active
      BY <2>3 DEF StartThreads, Threads, Labels, PushLabels
    <3>2. \A u \in Threads \ {"main"} : ~InPush(u)'
      BY <2>3 DEF StartThreads, InPush, PushLabels, Threads
    <3> QED BY <3>1, <3>2, ReturnPreservesInv
  <2>4. CASE TakeBaseline \/ PollFile \/ PortDrop
    <3>1. PICK t \in {"reload", "verdict"} :
            /\ ~InPush(t) /\ ~InPush(t)' /\ pc[t] # "off"
            /\ \A u \in Threads \ {t} : pc'[u] = pc[u]
      BY <2>4, <2>0 DEF TakeBaseline, PollFile, PortDrop, InPush, PushLabels
    <3>2. pc["main"] # "load" /\ pc'["main"] = pc["main"]
      BY <3>1 DEF Inv, Startup, Threads
    <3>3. UNCHANGED <<active, block, allow, info, pushing, todo, ok, tainted, trusted>>
      BY <2>4 DEF TakeBaseline, PollFile, PortDrop
    <3> QED BY <3>1, <3>2, <3>3, IdlePreservesInv DEF Threads
  <2>5. CASE LoadCandidate
    <3>1. /\ "reload" \in Threads /\ ~InPush("reload") /\ "main" # "reload"
          /\ pc["main"] # "load"
      BY <2>5 DEF LoadCandidate, InPush, PushLabels, Threads, Inv, Startup
    <3>2. CASE Parses
      <4>1. /\ Begin("reload") /\ pc' = [pc EXCEPT !["reload"] = "open"]
            /\ \A u \in Threads \ {"reload"} : pushing'[u] = pushing[u]
            /\ active' = active /\ UNCHANGED <<store, ok, trusted>>
        BY <2>0, <2>5, <3>2 DEF LoadCandidate
      <4> QED BY <3>1, <4>1, BeginPreservesInv
    <3>3. CASE ~Parses
      <4>1. /\ ~InPush("reload")' /\ pc'["main"] # "load"
            /\ \A u \in Threads \ {"reload"} : pc'[u] = pc[u]
        BY <2>0, <2>5, <3>1, <3>3 DEF LoadCandidate, InPush, PushLabels, Threads
      <4>2. UNCHANGED <<active, block, allow, info, pushing, todo, ok, tainted, trusted>>
        BY <2>5, <3>3 DEF LoadCandidate
      <4> QED BY <3>1, <4>1, <4>2, IdlePreservesInv
    <3> QED BY <3>2, <3>3
  <2>6. CASE ActivateCandidate \/ RollBack
    <3>1. /\ "reload" \in Threads /\ "poll" \in Labels \ PushLabels
          /\ Return("reload") /\ pc'["reload"] = "poll"
          /\ \A u \in Threads \ {"reload"} : pc'[u] = pc[u]
          /\ active' = IF ok["reload"] THEN pushing["reload"] ELSE active
      BY <2>0, <2>6 DEF ActivateCandidate, RollBack, Threads, Labels, PushLabels
    <3>2. pc["reload"] # "off" /\ pc["main"] # "load" /\ pc'["main"] = pc["main"]
      BY <3>1 DEF Return, Inv, Startup, Threads
    <3> QED BY <3>1, <3>2, ReturnPreservesInv
  <2>7. CASE ConnectPort
    <3>1. /\ "verdict" \in Threads /\ ~InPush("verdict") /\ "verdict" # "reload"
          /\ pc["main"] # "load"
      BY <2>7 DEF ConnectPort, InPush, PushLabels, Threads, Inv, Startup
    <3>2. CASE reconnect
      <4>1. /\ Begin("verdict") /\ pc' = [pc EXCEPT !["verdict"] = "open"]
            /\ \A u \in Threads \ {"verdict"} : pushing'[u] = pushing[u]
            /\ pushing'["verdict"] = active'
            /\ active' = active /\ UNCHANGED <<store, ok, trusted>>
        BY <2>0, <2>7, <3>1, <3>2 DEF ConnectPort
      <4> QED BY <3>1, <4>1, BeginPreservesInv
    <3>3. CASE ~reconnect
      <4>1. /\ ~InPush("verdict")' /\ pc'["main"] # "load"
            /\ \A u \in Threads \ {"verdict"} : pc'[u] = pc[u]
        BY <2>0, <2>7, <3>1, <3>3 DEF ConnectPort, InPush, PushLabels, Threads
      <4>2. UNCHANGED <<active, block, allow, info, pushing, todo, ok, tainted, trusted>>
        BY <2>7, <3>3 DEF ConnectPort
      <4> QED BY <3>1, <4>1, <4>2, IdlePreservesInv
    <3> QED BY <3>2, <3>3
  <2>8. CASE FinishResync
    <3>1. /\ "verdict" \in Threads /\ "serving" \in Labels \ PushLabels
          /\ Return("verdict") /\ pc'["verdict"] = "serving"
          /\ \A u \in Threads \ {"verdict"} : pc'[u] = pc[u]
          /\ active' = active
      BY <2>0, <2>8 DEF FinishResync, Threads, Labels, PushLabels
    <3>2. pc["verdict"] # "off" /\ pc["main"] # "load" /\ pc'["main"] = pc["main"]
      BY <3>1 DEF Return, Inv, Startup, Threads
    <3> QED BY <3>1, <3>2, ReturnPreservesInv
  <2>9. CASE DriverStop
    <3>1. UNCHANGED <<pc, active, pushing>> /\ ~trusted'
      BY <2>9 DEF DriverStop
    <3>2. \A t \in Threads : InPush(t)' => InPush(t) /\ t \in tainted'
      BY <2>9, <3>1 DEF DriverStop, InPush, Pushing
    <3> QED
      BY <3>1, <3>2 DEF Inv, Startup, Alone, Current, PushesProgress, TrustHolds
  <2>10. CASE ChangeFile \/ DriverStart \/ UNCHANGED vars
    <3>1. UNCHANGED <<pc, active, block, allow, info, pushing, todo, ok, tainted, trusted>>
      BY <2>10 DEF ChangeFile, DriverStart, vars
    <3> QED
      BY <3>1 DEF Inv, Startup, Alone, Current, PushesProgress, Progress, TrustHolds,
                  InPush, InSync, Image
  <2> QED
    BY <2>1, <2>2, <2>3, <2>4, <2>5, <2>6, <2>7, <2>8, <2>9, <2>10
    DEF Next, Main, Reload, Verdict, Environment, Exited, Threads
<1>3. Inv => TrustedMeansInSync
  BY DEF Inv, TrustHolds, TrustedMeansInSync
<1> QED
  BY <1>1, <1>2, <1>3, TypeCorrect, PTL DEF Spec

-----------------------------------------------------------------------------
(* Reloads without a gap.                                                  *)

\* A driver that takes whole lists is never pushed to rule by rule.
Legacy == {"clearBlock", "clearAllow", "addBlock", "addAllow"}
Batch == BatchSupport[host] = {"block", "allow"}
WholeLists == Batch => \A t \in Threads : pc[t] \notin Legacy

\* The other steps of the threads send no list.
LEMMA ListsUntouched ==
  ASSUME NEW t \in Threads,
         \/ OpenDevice(t) \/ SetActiveDriverConfigInfo(t)
         \/ LoadAtStartup \/ StartThreads \/ TakeBaseline \/ PollFile \/ LoadCandidate
         \/ ActivateCandidate \/ RollBack \/ ConnectPort \/ FinishResync
         \/ ChangeFile \/ DriverStart \/ PortDrop \/ Exited
  PROVE  UNCHANGED <<host, block, allow>>
BY DEF OpenDevice, SetActiveDriverConfigInfo, LoadAtStartup, StartThreads, TakeBaseline,
       PollFile, LoadCandidate, ActivateCandidate, RollBack, ConnectPort, FinishResync,
       ChangeFile, DriverStart, PortDrop, Exited, Return, vars, store

\* No step takes a thread of such a push to the rule-by-rule part.
LEMMA WholeListsStep == TypeOK /\ WholeLists /\ [Next]_vars => WholeLists'
<1> SUFFICES ASSUME TypeOK, WholeLists, [Next]_vars, Batch'
             PROVE  \A t \in Threads : pc'[t] \notin Legacy
  BY DEF WholeLists
<1>1. host' = host
  BY DEF Next, Main, Reload, Verdict, Environment, Push, Exited, vars, Return,
         OpenDevice, ReplaceRegistryRules, ReplaceRegistryAllowRules, ClearRegistryRules,
         ClearRegistryAllowRules, AddRegistryRule, AddRegistryAllowRule,
         SetActiveDriverConfigInfo, LoadAtStartup, StartThreads, TakeBaseline, PollFile,
         LoadCandidate, ActivateCandidate, RollBack, ConnectPort, FinishResync,
         ChangeFile, DriverStop, DriverStart, PortDrop
<1>2. Batch /\ \A t \in Threads : pc[t] \notin Legacy
  BY <1>1 DEF Batch, WholeLists
<1> USE DEF TypeOK, Goto
<1>3. ASSUME NEW t \in Threads, Push(t) PROVE \A u \in Threads : pc'[u] \notin Legacy
  <2>1. CASE OpenDevice(t)
    BY <1>2, <2>1 DEF OpenDevice, GiveUp, Threads, Legacy
  <2>2. CASE ReplaceRegistryRules(t)
    BY <1>2, <2>2 DEF ReplaceRegistryRules, ShouldFallbackToLegacy, Batch, Legacy
  <2>3. CASE ReplaceRegistryAllowRules(t)
    BY <1>2, <2>3 DEF ReplaceRegistryAllowRules, ShouldFallbackToLegacy, Batch, Legacy
  <2>4. CASE SetActiveDriverConfigInfo(t)
    BY <1>2, <2>4 DEF SetActiveDriverConfigInfo, Legacy
  <2> QED
    BY <1>2, <1>3, <2>1, <2>2, <2>3, <2>4
    DEF Push, ClearRegistryRules, ClearRegistryAllowRules, AddRegistryRule,
        AddRegistryAllowRule, Legacy
<1>4. CASE StartThreads
  BY <1>4 DEF StartThreads, Threads, Legacy
<1>5. CASE LoadAtStartup \/ TakeBaseline \/ PollFile \/ LoadCandidate \/ ConnectPort \/ PortDrop
  BY <1>2, <1>5 DEF LoadAtStartup, TakeBaseline, PollFile, LoadCandidate, ConnectPort,
                    PortDrop, Legacy
<1>6. CASE ActivateCandidate \/ RollBack \/ FinishResync
  BY <1>2, <1>6 DEF ActivateCandidate, RollBack, FinishResync, Legacy
<1>7. CASE ChangeFile \/ DriverStop \/ DriverStart \/ UNCHANGED vars
  BY <1>2, <1>7 DEF ChangeFile, DriverStop, DriverStart, vars
<1> QED
  BY <1>3, <1>4, <1>5, <1>6, <1>7
  DEF Next, Main, Reload, Verdict, Environment, Exited, Threads

\* For every driver with batch support and every configuration: while the driver
\* runs, its lists go from one complete list to another (HostGuard.cpp:1308-1337).
THEOREM ReloadsWithoutGap == Spec => NoEnforcementGap
<1> DEFINE NoGap ==
      BatchSupport[host] = {"block", "allow"} /\ driverUp'
        => /\ block' # block => \E t \in Pushing : block' = BlockRules[pushing[t]]
           /\ allow' # allow => \E t \in Pushing : allow' = AllowRules[pushing[t]]
<1>1. ASSUME WholeLists, [Next]_vars PROVE [NoGap]_vars
  <2> SUFFICES ASSUME Next, Batch, driverUp',
                      block' # block \/ allow' # allow
               PROVE  /\ block' # block => \E t \in Pushing : block' = BlockRules[pushing[t]]
                      /\ allow' # allow => \E t \in Pushing : allow' = AllowRules[pushing[t]]
    BY <1>1 DEF Batch, vars, store
  <2>1. \A t \in Threads : pc[t] \notin Legacy
    BY <1>1 DEF WholeLists
  <2>2. "main" \in Threads
    BY DEF Threads
  <2>3. CASE DriverStop
    BY <2>3 DEF DriverStop
  <2>4. ASSUME NEW t \in Threads, ReplaceRegistryRules(t) \/ ReplaceRegistryAllowRules(t)
        PROVE  /\ block' # block => \E u \in Pushing : block' = BlockRules[pushing[u]]
               /\ allow' # allow => \E u \in Pushing : allow' = AllowRules[pushing[u]]
    <3>1. t \in Pushing
      BY <2>4 DEF ReplaceRegistryRules, ReplaceRegistryAllowRules, Pushing, PushLabels
    <3> QED
      BY <2>4, <3>1 DEF ReplaceRegistryRules, ReplaceRegistryAllowRules
  <2>5. ASSUME NEW t \in Threads,
               \/ ClearRegistryRules(t) \/ ClearRegistryAllowRules(t)
               \/ AddRegistryRule(t) \/ AddRegistryAllowRule(t)
        PROVE  FALSE
    BY <2>1, <2>5 DEF ClearRegistryRules, ClearRegistryAllowRules, AddRegistryRule,
                      AddRegistryAllowRule, Legacy
  <2> QED
    BY <2>2, <2>3, <2>4, <2>5, ListsUntouched
    DEF Next, Main, Reload, Verdict, Environment, Push, Threads
<1>2. Init => WholeLists
  BY DEF Init, WholeLists, Legacy
<1> QED
  BY <1>1, <1>2, WholeListsStep, TypeCorrect, PTL DEF Spec, NoEnforcementGap

-----------------------------------------------------------------------------
(* No change of the file is lost.                                          *)

\* While the thread loads or pushes, what it has seen is a file that exists, and
\* as long as that is still the state of the file, the candidate is its content.
Watched ==
  /\ stamp # 0 /\ seen <= stamp
  /\ pc["reload"] = "load" \/ InPush("reload") => seen # 0
  /\ InPush("reload") /\ seen = FileState => pushing["reload"] = content

\* Steps that neither touch the file nor bring the thread to a file it reads.
LEMMA UnwatchedStep ==
  ASSUME TypeOK, Watched, UNCHANGED <<file, seen>>, pushing'["reload"] = pushing["reload"],
         \/ pc'["reload"] = pc["reload"]
         \/ InPush("reload")
         \/ pc'["reload"] \notin PushLabels \cup {"load"},
         pc'["reload"] = "load" => pc["reload"] = "load"
  PROVE  Watched'
BY DEF Watched, InPush, FileState, file

\* A change of the file gives it a state that nobody has seen.
LEMMA WatchedStep == TypeOK /\ Watched /\ [Next]_vars => Watched'
<1> SUFFICES ASSUME TypeOK, Watched, [Next]_vars PROVE Watched'
  OBVIOUS
<1>0. pc \in [Threads -> Labels] /\ pushing \in [Threads -> Configs]
      /\ stamp \in Nat /\ seen \in Nat /\ {"main", "reload", "verdict"} \subseteq Threads
  BY DEF TypeOK, Threads
<1> USE DEF file, store, history, Goto
<1>1. ASSUME NEW t \in Threads, Push(t) PROVE Watched'
  <2>1. UNCHANGED <<file, seen, pushing>>
    BY <1>1 DEF Push, OpenDevice, ReplaceRegistryRules, ReplaceRegistryAllowRules,
                ClearRegistryRules, ClearRegistryAllowRules, AddRegistryRule,
                AddRegistryAllowRule, SetActiveDriverConfigInfo
  <2>2. pc[t] \in PushLabels
    BY <1>1 DEF Push, OpenDevice, ReplaceRegistryRules, ReplaceRegistryAllowRules,
                ClearRegistryRules, ClearRegistryAllowRules, AddRegistryRule,
                AddRegistryAllowRule, SetActiveDriverConfigInfo, PushLabels
  <2>3. \E label \in PushLabels \cup {"exited", "poll", "serving"} :
          pc' = [pc EXCEPT ![t] = label]
    <3>1. CASE OpenDevice(t)
      <4>1. GiveUp(t) \in {"exited", "poll", "serving"}
        BY DEF GiveUp, Threads
      <4> QED
        BY <3>1, <4>1 DEF OpenDevice, PushLabels
    <3>2. CASE ReplaceRegistryRules(t) \/ ReplaceRegistryAllowRules(t)
      BY <3>2 DEF ReplaceRegistryRules, ReplaceRegistryAllowRules, PushLabels
    <3>3. CASE ClearRegistryRules(t) \/ ClearRegistryAllowRules(t)
      BY <3>3 DEF ClearRegistryRules, ClearRegistryAllowRules, PushLabels
    <3>4. CASE AddRegistryRule(t) \/ AddRegistryAllowRule(t)
      <4>1. pc[t] \in {"addBlock", "addAllow"} /\ pc = [pc EXCEPT ![t] = pc[t]]
        BY <1>0, <3>4 DEF AddRegistryRule, AddRegistryAllowRule
      <4>2. UNCHANGED pc \/ \E label \in {"addAllow", "setInfo"} : pc' = [pc EXCEPT ![t] = label]
        BY <3>4 DEF AddRegistryRule, AddRegistryAllowRule
      <4> QED
        BY <4>1, <4>2 DEF PushLabels
    <3>5. CASE SetActiveDriverConfigInfo(t)
      BY <3>5 DEF SetActiveDriverConfigInfo, PushLabels
    <3> QED
      BY <1>1, <3>1, <3>2, <3>3, <3>4, <3>5 DEF Push
  <2>4. CASE t = "reload"
    <3>1. InPush("reload") /\ pc'["reload"] # "load"
      BY <1>0, <2>2, <2>3, <2>4 DEF InPush, PushLabels
    <3> QED
      BY <2>1, <3>1, UnwatchedStep
  <2>5. CASE t # "reload"
    <3>1. pc'["reload"] = pc["reload"]
      BY <1>0, <2>3, <2>5
    <3> QED
      BY <2>1, <3>1, UnwatchedStep
  <2> QED
    BY <2>4, <2>5
<1>2. CASE LoadAtStartup \/ ConnectPort
  <2>1. UNCHANGED <<file, seen>> /\ pushing'["reload"] = pushing["reload"]
        /\ pc'["reload"] = pc["reload"]
    BY <1>0, <1>2 DEF LoadAtStartup, ConnectPort
  <2> QED
    BY <2>1, UnwatchedStep
<1>3. CASE StartThreads \/ ActivateCandidate \/ RollBack
  <2>1. UNCHANGED <<file, seen, pushing>> /\ pc'["reload"] \in {"baseline", "poll"}
    BY <1>0, <1>3 DEF StartThreads, ActivateCandidate, RollBack, Return
  <2> QED
    BY <2>1, UnwatchedStep DEF PushLabels
<1>4. CASE FinishResync \/ DriverStop \/ DriverStart \/ PortDrop \/ UNCHANGED vars
  <2>1. UNCHANGED <<file, seen, pushing>> /\ pc'["reload"] = pc["reload"]
    BY <1>0, <1>4 DEF FinishResync, Return, DriverStop, DriverStart, PortDrop, vars
  <2> QED
    BY <2>1, UnwatchedStep
<1>5. CASE TakeBaseline
  <2>1. pc'["reload"] = "poll" /\ seen' = FileState /\ UNCHANGED file
    BY <1>0, <1>5 DEF TakeBaseline
  <2> QED
    BY <1>0, <2>1 DEF Watched, InPush, PushLabels, FileState
<1>6. CASE PollFile
  <2>1. /\ seen' = FileState /\ UNCHANGED file /\ ~InPush("reload")'
        /\ pc'["reload"] = "load" => content # Absent
    BY <1>0, <1>6 DEF PollFile, InPush, PushLabels
  <2> QED
    BY <1>0, <2>1 DEF Watched, FileState
<1>7. CASE LoadCandidate
  <2>1. /\ UNCHANGED <<file, seen>> /\ pc["reload"] = "load" /\ pc'["reload"] # "load"
        /\ InPush("reload")' => pushing'["reload"] = content
    BY <1>0, <1>7 DEF LoadCandidate, InPush, PushLabels
  <2> QED
    BY <2>1 DEF Watched, InPush
<1>8. CASE ChangeFile
  <2>1. stamp' = stamp + 1 /\ UNCHANGED <<seen, pc, pushing>>
    BY <1>8 DEF ChangeFile
  <2>2. FileState' = 0 \/ FileState' = stamp + 1
    BY <2>1 DEF FileState
  <2> QED
    BY <1>0, <2>1, <2>2 DEF Watched, InPush
<1> QED
  BY <1>0, <1>1, <1>2, <1>3, <1>4, <1>5, <1>6, <1>7, <1>8
  DEF Next, Main, Reload, Verdict, Environment, Exited, Threads

\* For every host, whatever calls fail and however the pushes interleave: a
\* reload that ends with the file as the watcher has seen it activates what the
\* file contains (HostGuard.cpp:1480-1510).
THEOREM NoChangeIsLost == Spec => ReloadsAreCurrent
<1>1. Init => Watched
  <2>1. "reload" \in Threads
    BY DEF Threads
  <2> QED
    BY <2>1 DEF Init, Watched, InPush, PushLabels
<1>2. ASSUME Watched, [Next]_vars
      PROVE  [ActivateCandidate /\ seen = FileState => active' = content]_vars
  <2> SUFFICES ASSUME ActivateCandidate, seen = FileState PROVE active' = content
    OBVIOUS
  <2>1. InPush("reload") /\ active' = pushing["reload"]
    BY DEF ActivateCandidate, Return, InPush, PushLabels
  <2> QED
    BY <1>2, <2>1 DEF Watched
<1> QED
  BY <1>1, <1>2, WatchedStep, TypeCorrect, PTL DEF Spec, ReloadsAreCurrent
=============================================================================
