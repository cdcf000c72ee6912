-------------------------- MODULE ScreenedService --------------------------
(***************************************************************************)
(* What the LangGraph orchestrator promises of a request, whatever graph   *)
(* of nodes it runs: screening decides before any worker agent acts, a     *)
(* refused request reaches none of them, one outcome is reported, and      *)
(* nothing more happens for a request once its success was reported.       *)
(***************************************************************************)
CONSTANTS
  Requests,
  Workers     \* the agents behind the screening

VARIABLES
  gate,       \* what the screening decided of a request
  reached,    \* the workers that acted for it
  outcome     \* the status it was answered with

svars == <<gate, reached, outcome>>

Init ==
  /\ gate = [r \in Requests |-> "undecided"]
  /\ reached = [r \in Requests |-> {}]
  /\ outcome = [r \in Requests |-> "none"]

Decide(r, decision) ==
  /\ gate[r] = "undecided"
  /\ gate' = [gate EXCEPT ![r] = decision]
  /\ UNCHANGED <<reached, outcome>>

\* A worker may still act after a failure was reported: its caller gave up.
Reach(r, w) ==
  /\ gate[r] = "admitted" /\ outcome[r] # "success"
  /\ reached' = [reached EXCEPT ![r] = @ \cup {w}]
  /\ UNCHANGED <<gate, outcome>>

Report(r, status) ==
  /\ outcome[r] = "none"
  /\ \/ gate[r] = "refused" /\ status = "blocked"
     \/ gate[r] = "admitted" /\ status \in {"success", "partial"}
  /\ outcome' = [outcome EXCEPT ![r] = status]
  /\ UNCHANGED <<gate, reached>>

Next ==
  \E r \in Requests :
    \/ \E d \in {"admitted", "refused"} : Decide(r, d)
    \/ \E w \in Workers : Reach(r, w)
    \/ \E status \in {"success", "partial", "blocked"} : Report(r, status)

Spec == Init /\ [][Next]_svars

============================================================================
