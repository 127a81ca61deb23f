--------------------------- MODULE AtomicVerdict ---------------------------
(***************************************************************************)
(* What the process-verdict pipeline promises the driver: whatever reload  *)
(* happens meanwhile, a process creation is judged by ONE configuration,   *)
(* the one in force at one instant between the request and the answer, and *)
(* the driver acts on that judgement or on its own time-out policy, once.  *)
(***************************************************************************)
CONSTANTS
  Requests,     \* process creations the driver asks about
  Configs,      \* rule configurations
  Subjects,     \* what is known of a process when it is judged
  Blocks(_, _)  \* configuration c blocks a process of which s is known

VARIABLES active, subject, judgement, outcome
vars == <<active, subject, judgement, outcome>>

Init ==
  /\ active \in Configs
  /\ subject \in [Requests -> Subjects]
  /\ judgement = [r \in Requests |-> "none"]
  /\ outcome = [r \in Requests |-> "none"]

\* The active configuration is replaced as a whole.
Reload == active' \in Configs /\ UNCHANGED <<subject, judgement, outcome>>

\* The driver asks about r, or more becomes known of it, before it is judged.
Describe(r) ==
  /\ judgement[r] = "none"
  /\ \E s \in Subjects : subject' = [subject EXCEPT ![r] = s]
  /\ outcome' \in {outcome, [outcome EXCEPT ![r] = "waiting"]}
  /\ outcome'[r] # outcome[r] => outcome[r] = "none"
  /\ UNCHANGED <<active, judgement>>

Judge(r) ==
  /\ judgement[r] = "none" /\ outcome[r] # "none"
  /\ judgement' = [judgement EXCEPT
                     ![r] = IF Blocks(active, subject[r]) THEN "block" ELSE "allow"]
  /\ UNCHANGED <<active, subject, outcome>>

\* The driver does what r was judged.
Settle(r) ==
  /\ outcome[r] = "waiting" /\ judgement[r] # "none"
  /\ outcome' = [outcome EXCEPT ![r] = judgement[r]]
  /\ UNCHANGED <<active, subject, judgement>>

\* The driver stops waiting for the requests in R.
TimeOut(R) ==
  /\ outcome' = [r \in Requests |->
                   IF r \in R /\ outcome[r] = "waiting" THEN "timedOut" ELSE outcome[r]]
  /\ UNCHANGED <<active, subject, judgement>>

Next ==
  \/ Reload
  \/ \E r \in Requests : Describe(r) \/ Judge(r) \/ Settle(r)
  \/ \E R \in SUBSET Requests : TimeOut(R)

Spec == Init /\ [][Next]_vars
=============================================================================
