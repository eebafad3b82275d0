----------------------------- MODULE JobOutcome -----------------------------
(***************************************************************************)
(* What the queue layer promises the code that adds a job, with nothing    *)
(* about queues, workers, ids or attempts: an accepted job gets one        *)
(* outcome, and the outcome told to the caller is the job's, told once.    *)
(* The caller may never be told: a restart forgets whom to tell.           *)
(***************************************************************************)
CONSTANT Requests

VARIABLES
    outcome,    \* "none" until accepted, "open", then the job's outcome
    told        \* what the caller's success or failed callback was told

vars == <<outcome, told>>

TypeOK ==
    /\ outcome \in [Requests -> {"none", "open", "completed", "failed"}]
    /\ told \in [Requests -> {"none", "success", "failed"}]

Init ==
    /\ outcome = [r \in Requests |-> "none"]
    /\ told = [r \in Requests |-> "none"]

Accept(r) ==
    /\ outcome[r] = "none"
    /\ outcome' = [outcome EXCEPT ![r] = "open"]
    /\ UNCHANGED told

Decide(r) ==
    /\ outcome[r] = "open"
    /\ \E o \in {"completed", "failed"} : outcome' = [outcome EXCEPT ![r] = o]
    /\ UNCHANGED told

Tell(r) ==
    /\ told[r] = "none"
    /\ \/ /\ outcome[r] = "completed"
          /\ told' = [told EXCEPT ![r] = "success"]
       \/ /\ outcome[r] = "failed"
          /\ told' = [told EXCEPT ![r] = "failed"]
    /\ UNCHANGED outcome

Next == \E r \in Requests : Accept(r) \/ Decide(r) \/ Tell(r)

SafeSpec == Init /\ [][Next]_vars

\* An accepted job is decided, whatever the number of restarts.
Spec == SafeSpec /\ \A r \in Requests : WF_vars(Decide(r))
=============================================================================
