------------------------ MODULE ProcessVerdictProofs ------------------------
(***************************************************************************)
(* Proofs about ProcessVerdict for every set of requests and every rule    *)
(* configuration: types, the agreement of events with what the driver did, *)
(* and the refinement of AtomicVerdict.                                    *)
(***************************************************************************)
EXTENDS ProcessVerdict, TLAPS

\* Completing a message from the process cache yields a subject again.
LEMMA ResolvedSubjects == \A s : Resolved(s) \subseteq Subjects
  BY DEF Resolved

\* Every variable keeps its type, whatever the process cache, the time-outs,
\* the port and the reloads do.
THEOREM VerdictTypeCorrect == Spec => []TypeOK
<1>1. Init => TypeOK
  BY ConstantsAssumption DEF Init, TypeOK, Places
<1>2. TypeOK /\ [Next]_vars => TypeOK'
  <2> SUFFICES ASSUME TypeOK, [Next]_vars PROVE TypeOK'
    OBVIOUS
  <2> USE DEF TypeOK, Places, Handling
  <2>1. ASSUME NEW r \in Requests, Ask(r) PROVE TypeOK'
    BY <2>1 DEF Ask
  <2>2. ASSUME NEW r \in Requests, TimeOut(r) PROVE TypeOK'
    BY <2>2 DEF TimeOut
  <2>3. ASSUME NEW r \in Requests, Receive(r) PROVE TypeOK'
    BY <2>3, ResolvedSubjects DEF Receive
  <2>4. ASSUME NEW r \in Requests, TryMatchProcessAllowRule(r) PROVE TypeOK'
    BY <2>4 DEF TryMatchProcessAllowRule
  <2>5. ASSUME NEW r \in Requests, EvaluateProcessAgainstRules(r) PROVE TypeOK'
    BY <2>5 DEF EvaluateProcessAgainstRules
  <2>6. ASSUME NEW r \in Requests, FilterReplyMessage(r) PROVE TypeOK'
    BY <2>6 DEF FilterReplyMessage, BlockProcess
  <2>7. ASSUME NEW r \in Requests, Report(r) PROVE TypeOK'
    BY <2>7 DEF Report
  <2>8. CASE PortDrop
    BY <2>8 DEF PortDrop
  <2>9. CASE Reconnect
    BY <2>9 DEF Reconnect
  <2>10. CASE ApplyLoadedRules
    BY <2>10 DEF ApplyLoadedRules
  <2>11. CASE UNCHANGED vars
    BY <2>11 DEF vars
  <2> QED
    BY <2>1, <2>2, <2>3, <2>4, <2>5, <2>6, <2>7, <2>8, <2>9, <2>10, <2>11
    DEF Next, Handle
<1> QED
  BY <1>1, <1>2, PTL DEF Spec

-----------------------------------------------------------------------------
(* What the place of a request says about its decision, outcome and event. *)

\* Nothing is decided before the handler has its answer, and the driver is
\* asked before anything else happens.
Ordered ==
  \A r \in Requests :
    /\ place[r] \in {"created", "queued", "allowCheck", "evaluate"} =>
         decision[r] = "none"
    /\ place[r] \in {"reply", "report"} => decision[r] # "none"
    /\ (place[r] = "created") <=> (outcome[r] = "none")
    /\ place[r] = "report" => outcome[r] = BlockProcess(r)
    /\ place[r] # "done" => event[r] = "none"

Inv == Ordered /\ EventsMatchOutcome

LEMMA InvHolds == Spec => []Inv
<1>1. Init => Inv
  BY DEF Init, Inv, Ordered, EventsMatchOutcome
<1>2. TypeOK /\ Inv /\ [Next]_vars => Inv'
  <2> SUFFICES ASSUME TypeOK, Inv, [Next]_vars PROVE Inv'
    OBVIOUS
  <2> USE DEF TypeOK, Places, Handling, Inv, Ordered, EventsMatchOutcome, BlockProcess
  <2>1. ASSUME NEW r \in Requests, Ask(r) PROVE Inv'
    BY <2>1 DEF Ask
  <2>2. ASSUME NEW r \in Requests, TimeOut(r) PROVE Inv'
    BY <2>2 DEF TimeOut
  <2>3. ASSUME NEW r \in Requests, Receive(r) PROVE Inv'
    BY <2>3 DEF Receive
  <2>4. ASSUME NEW r \in Requests, TryMatchProcessAllowRule(r) PROVE Inv'
    BY <2>4 DEF TryMatchProcessAllowRule
  <2>5. ASSUME NEW r \in Requests, EvaluateProcessAgainstRules(r) PROVE Inv'
    BY <2>5 DEF EvaluateProcessAgainstRules
  <2>6. ASSUME NEW r \in Requests, FilterReplyMessage(r) PROVE Inv'
    BY <2>6 DEF FilterReplyMessage
  <2>7. ASSUME NEW r \in Requests, Report(r) PROVE Inv'
    BY <2>7 DEF Report
  <2>8. CASE PortDrop
    BY <2>8 DEF PortDrop
  <2>9. CASE Reconnect \/ ApplyLoadedRules \/ UNCHANGED vars
    BY <2>9 DEF Reconnect, ApplyLoadedRules, vars
  <2> QED
    BY <2>1, <2>2, <2>3, <2>4, <2>5, <2>6, <2>7, <2>8, <2>9 DEF Next, Handle
<1> QED
  BY <1>1, <1>2, VerdictTypeCorrect, PTL DEF Spec

\* Whatever the timing of replies, time-outs and port losses, no event claims
\* an outcome that the driver did not produce.
THEOREM EventsAgree == Spec => []EventsMatchOutcome
  BY InvHolds, PTL DEF Inv

-----------------------------------------------------------------------------
(* The refinement: the handler judges in the step that records a decision. *)

\* For all rule lists and every interleaving with reloads, a request is judged
\* as one configuration in force at one instant judges it.
THEOREM JudgedByOneConfig == Spec => OneConfigDecides
<1>1. Init => Atomic!Init
  BY ConstantsAssumption DEF Init, Atomic!Init, Judgement
<1>2. TypeOK /\ Inv /\ [Next]_vars => [Atomic!Next]_(Atomic!vars)
  <2> SUFFICES ASSUME TypeOK, Inv, [Next]_vars, ~(UNCHANGED Atomic!vars)
               PROVE  Atomic!Next
    OBVIOUS
  <2> USE DEF TypeOK, Places, Handling, Inv, Ordered
  <2>0. UNCHANGED decision => UNCHANGED Judgement
    BY DEF Judgement
  <2>1. ASSUME NEW r \in Requests, Ask(r) PROVE Atomic!Describe(r)
    BY <2>1, <2>0 DEF Ask, Atomic!Describe, Judgement
  <2>2. ASSUME NEW r \in Requests, TimeOut(r) PROVE Atomic!TimeOut({r})
    BY <2>2, <2>0 DEF TimeOut, Atomic!TimeOut
  <2>3. ASSUME NEW r \in Requests, Receive(r) PROVE Atomic!Describe(r)
    BY <2>3, <2>0, ResolvedSubjects DEF Receive, Atomic!Describe, Judgement
  <2>4. ASSUME NEW r \in Requests, TryMatchProcessAllowRule(r) PROVE Atomic!Judge(r)
    <3>1. AllowMatches(active, subject[r])
      BY <2>4, <2>0 DEF TryMatchProcessAllowRule, Atomic!vars
    <3>2. ~Blocks(active, subject[r])
      BY <3>1 DEF AllowMatches, Blocks
    <3>3. /\ place[r] = "allowCheck"
          /\ decision' = [decision EXCEPT ![r] = "allowRule"]
          /\ UNCHANGED <<active, subject, outcome>>
      BY <2>4, <3>1 DEF TryMatchProcessAllowRule
    <3>4. Judgement[r] = "none" /\ Judgement' = [Judgement EXCEPT ![r] = "allow"]
      BY <3>3 DEF Judgement
    <3> QED
      BY <3>2, <3>3, <3>4 DEF Atomic!Judge
  <2>5. ASSUME NEW r \in Requests, EvaluateProcessAgainstRules(r) PROVE Atomic!Judge(r)
    BY <2>5 DEF EvaluateProcessAgainstRules, Atomic!Judge, Judgement
  <2>6. ASSUME NEW r \in Requests, FilterReplyMessage(r) PROVE Atomic!Settle(r)
    BY <2>6, <2>0 DEF FilterReplyMessage, Atomic!Settle, Atomic!vars, Judgement, BlockProcess
  <2>7. ASSUME NEW r \in Requests, Report(r) PROVE FALSE
    BY <2>7, <2>0 DEF Report, Atomic!vars
  <2>8. CASE PortDrop
    <3>1. Atomic!TimeOut(Requests)
      BY <2>8, <2>0 DEF PortDrop, Atomic!TimeOut
    <3> QED BY <3>1 DEF Atomic!Next
  <2>9. CASE Reconnect \/ UNCHANGED vars
    BY <2>9, <2>0 DEF Reconnect, vars, Atomic!vars
  <2>10. CASE ApplyLoadedRules
    BY <2>10, <2>0 DEF ApplyLoadedRules, Atomic!Reload, Atomic!Next
  <2> QED
    BY <2>1, <2>2, <2>3, <2>4, <2>5, <2>6, <2>7, <2>8, <2>9, <2>10
    DEF Next, Handle, Atomic!Next
<1> QED
  BY <1>1, <1>2, VerdictTypeCorrect, InvHolds, PTL
  DEF Spec, OneConfigDecides, Atomic!Spec

=============================================================================
