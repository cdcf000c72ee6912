------------------------- MODULE LangGraphWorkflow -------------------------
(***************************************************************************)
(* The LangGraph orchestrator (langgraph-orchestrator/app): the graph of   *)
(* six nodes that screens a request, asks the conversation agent for its   *)
(* intent, routes it to an agent, and answers it.                          *)
(*                                                                         *)
(* A node posts to its agent and waits for at most 30 seconds.  The agent  *)
(* is not told when its caller gives up: a call that timed out may still   *)
(* be served afterwards.  A reply is taken whatever its HTTP status, so    *)
(* an agent's refusal (rate limit, lockdown, internal error) is a reply    *)
(* without the fields the node looks for.                                  *)
(***************************************************************************)
EXTENDS FiniteSets

CONSTANTS
  Requests,
  Intents     \* what the conversation agent may detect; "unknown" is one

\* "unknown" is an intent, and no intent has the name of a state of a call.
ASSUME IntentsAssumption ==
  /\ "unknown" \in Intents
  /\ Intents \cap {"none", "sent", "lost", "refusal", "block"} = {}

VARIABLES
  at,         \* the node a request is at
  call,       \* each request's call of each agent: not made, sent, lost, or its reply
  cleared,    \* security_cleared
  intent,
  route,      \* no node assigns it
  result,     \* what conversation_result, ..., verifier_result hold
  errors,     \* the nodes that appended an error
  response    \* final_response

vars == <<at, call, cleared, intent, route, result, errors, response>>

OrchestratorIntents ==
  {"create_digital_twin", "query_kpi", "general_query", "equipment_control"}
DataIntents == {"query_telemetry", "detect_anomalies", "run_simulation"}

Workers == {"conversation", "orchestrator", "data", "verifier"}
Agents  == Workers \cup {"security"}
Nodes   == Agents \cup {"new", "respond", "done"}

\* The guardian's verdicts the screening tells apart: "block" is a CRITICAL
\* threat with the recommendation BLOCK.
Replies(s) ==
  {"refusal"} \cup CASE s = "security"     -> {"block", "pass"}
                     [] s = "conversation" -> Intents
                     [] OTHER              -> {"answer"}

Served(r, s) == call[r][s] \in Replies(s)

Statuses  == {"none", "success", "partial", "blocked"}
NoAnswer  == [status |-> "none", carries |-> "nothing"]

TypeOK ==
  /\ at \in [Requests -> Nodes]
  /\ call \in [Requests -> [Agents -> {"none", "sent", "lost"}
                                        \cup UNION {Replies(s) : s \in Agents}]]
  /\ cleared \in [Requests -> BOOLEAN]
  /\ intent \in [Requests -> Intents]
  /\ route \in [Requests -> {"unset", "orchestrator", "data", "respond"}]
  /\ result \in [Requests -> [Workers -> {"unset", "empty", "reply", "error"}]]
  /\ errors \in [Requests -> SUBSET Agents]
  /\ response \in [Requests -> [status : Statuses, carries : Workers \cup {"nothing"}]]

\* The keys a state starts without read as their defaults.
Init ==
  /\ at = [r \in Requests |-> "new"]
  /\ call = [r \in Requests |-> [s \in Agents |-> "none"]]
  /\ cleared = [r \in Requests |-> TRUE]
  /\ intent = [r \in Requests |-> "unknown"]
  /\ route = [r \in Requests |-> "unset"]
  /\ result = [r \in Requests |-> [w \in Workers |-> "unset"]]
  /\ errors = [r \in Requests |-> {}]
  /\ response = [r \in Requests |-> NoAnswer]

---------------------------------------------------------------------------
(* The edges of the graph.                                                 *)

\* Mutant: a refused request goes on.
AfterSecurityOpen(isCleared) == "conversation"

AfterSecurity(isCleared) == IF isCleared THEN "conversation" ELSE "respond"

RouteByIntent(i) ==
  CASE i \in OrchestratorIntents -> "orchestrator"
    [] i \in DataIntents         -> "data"
    [] OTHER                     -> "respond"

NextNode(n, isCleared, i) ==
  CASE n = "security"               -> AfterSecurity(isCleared)
    [] n = "conversation"           -> RouteByIntent(i)
    [] n \in {"orchestrator", "data"} -> "verifier"
    [] OTHER                        -> "respond"

---------------------------------------------------------------------------
(* The nodes.                                                              *)

\* POST /process or /workflow: the graph is invoked on a fresh state.
Receive(r) ==
  /\ at[r] = "new"
  /\ at' = [at EXCEPT ![r] = "security"]
  /\ UNCHANGED <<call, cleared, intent, route, result, errors, response>>

\* The verifier node looks for the result of the route that was taken.
HasWork(r, n) == n = "verifier" => route[r] \in {"orchestrator", "data"}

\* A node posts its request.
Call(r) ==
  \E n \in Agents :
    /\ at[r] = n /\ call[r][n] = "none" /\ HasWork(r, n)
    /\ call' = [call EXCEPT ![r][n] = "sent"]
    /\ UNCHANGED <<at, cleared, intent, route, result, errors, response>>

\* Mutant: the verifier has nothing to do, and waits.
SkipVerifierWaits(r) ==
  /\ at[r] = "verifier" /\ call[r]["verifier"] = "none" /\ ~HasWork(r, "verifier")
  /\ result' = [result EXCEPT ![r]["verifier"] = "empty"]
  /\ UNCHANGED <<at, call, cleared, intent, route, errors, response>>

\* Verifier node, "Nothing to verify".
SkipVerifier(r) ==
  /\ at[r] = "verifier" /\ call[r]["verifier"] = "none" /\ ~HasWork(r, "verifier")
  /\ result' = [result EXCEPT ![r]["verifier"] = "empty"]
  /\ at' = [at EXCEPT ![r] = "respond"]
  /\ UNCHANGED <<call, cleared, intent, route, errors, response>>

\* An agent handles a call and replies, its caller waiting or not.
Serve(r, s) ==
  /\ call[r][s] = "sent"
  /\ \E reply \in Replies(s) : call' = [call EXCEPT ![r][s] = reply]
  /\ UNCHANGED <<at, cleared, intent, route, result, errors, response>>

\* Mutant: the verdict is recorded, and never blocks.
ClearsAll(reply) == TRUE

\* What the screening concludes of a reply: only CRITICAL with BLOCK blocks.
Clears(reply) == reply # "block"

\* Mutant: the reply is taken for an intent whatever it is.
IntentOfAny(reply) == reply

IntentOf(reply) == IF reply = "refusal" THEN "unknown" ELSE reply

\* A node whose agent replied in time.
Answered(r) ==
  \E n \in Agents :
    /\ at[r] = n /\ Served(r, n)
    /\ cleared' = [cleared EXCEPT ![r] = IF n = "security" THEN Clears(call[r][n]) ELSE @]
    /\ intent' = [intent EXCEPT ![r] = IF n = "conversation" THEN IntentOf(call[r][n]) ELSE @]
    /\ result' = IF n = "security" THEN result ELSE [result EXCEPT ![r][n] = "reply"]
    /\ at' = [at EXCEPT ![r] = NextNode(n, cleared'[r], intent'[r])]
    /\ UNCHANGED <<call, route, errors, response>>

\* A node whose call timed out or failed: the screening admits the request, the
\* conversation leaves its intent unknown, and the graph goes on.  The agent may
\* have served the call, may serve it later, or may never see it.
Failed(r) ==
  \E n \in Agents :
    /\ at[r] = n /\ call[r][n] # "none"
    /\ \/ UNCHANGED call
       \/ call[r][n] = "sent" /\ call' = [call EXCEPT ![r][n] = "lost"]
    /\ cleared' = [cleared EXCEPT ![r] = IF n = "security" THEN TRUE ELSE @]
    /\ intent' = [intent EXCEPT ![r] = IF n = "conversation" THEN "unknown" ELSE @]
    /\ result' = IF n = "security" THEN result ELSE [result EXCEPT ![r][n] = "error"]
    /\ errors' = [errors EXCEPT ![r] = @ \cup {n}]
    /\ at' = [at EXCEPT ![r] = NextNode(n, cleared'[r], intent'[r])]
    /\ UNCHANGED <<route, response>>

\* Mutants: the errors are forgotten; a refused request is answered as any other.
FinalResponseBlind(r) ==
  IF ~cleared[r] THEN [status |-> "blocked", carries |-> "nothing"]
  ELSE [status |-> "success", carries |-> "conversation"]
FinalResponseOpen(r) ==
  [status  |-> IF errors[r] = {} THEN "success" ELSE "partial",
   carries |-> "conversation"]

\* respond_node: the answer carries the result of the route.
FinalResponse(r) ==
  IF ~cleared[r] THEN [status |-> "blocked", carries |-> "nothing"]
  ELSE [status  |-> IF errors[r] = {} THEN "success" ELSE "partial",
        carries |-> IF route[r] \in {"orchestrator", "data"} THEN route[r]
                    ELSE "conversation"]

Respond(r) ==
  /\ at[r] = "respond"
  /\ response' = [response EXCEPT ![r] = FinalResponse(r)]
  /\ at' = [at EXCEPT ![r] = "done"]
  /\ UNCHANGED <<call, cleared, intent, route, result, errors>>

\* What the event loop does for a request once it is received.
Progress(r) ==
  Call(r) \/ SkipVerifier(r) \/ Answered(r) \/ Failed(r) \/ Respond(r)

Next ==
  \E r \in Requests :
    \/ Receive(r) \/ Progress(r)
    \/ \E s \in Agents : Serve(r, s)

Spec == Init /\ [][Next]_vars

\* Every post ends: each node gives its HTTP client a timeout, and catches
\* whatever the call raises.
FairSpec == Spec /\ \A r \in Requests : WF_vars(Progress(r))

---------------------------------------------------------------------------
(* Properties.                                                             *)

Acted(r) == {w \in Workers : Served(r, w)}

\* A request the screening refused is known to no worker, now or later, and its
\* answer says "blocked" (graph.py:48, 99-103).
RefusedReachesNobody ==
  \A r \in Requests : ~cleared[r] =>
    /\ \A w \in Workers : call[r][w] = "none"
    /\ at[r] = "done" => response[r].status = "blocked"

\* A success hides nothing: no call of the request is lost or still to be
\* served, and the guardian's verdict, if it gave one, was not to block, however
\* late it came (graph.py:76, security_node.py:56-64).
SuccessIsSettled ==
  \A r \in Requests : response[r].status = "success" =>
    /\ \A s \in Agents : call[r][s] \notin {"sent", "lost"}
    /\ call[r]["security"] # "block"

\* A request the guardian said to block passes only with the failed screening
\* among its errors (security_node.py:56-74).
PassedBlockIsReported ==
  \A r \in Requests :
    call[r]["security"] = "block" /\ cleared[r] /\ at[r] # "security" =>
      "security" \in errors[r]

\* A request takes one branch: never are both the orchestrator and the data
\* agent asked to act, and neither is for an intent that is not its own
\* (graph.py:106-115).
OneBranch ==
  \A r \in Requests :
    /\ call[r]["orchestrator"] # "none" => intent[r] \in OrchestratorIntents
    /\ call[r]["data"] # "none" => intent[r] \in DataIntents
    /\ call[r]["orchestrator"] = "none" \/ call[r]["data"] = "none"

\* Every request received is answered, whichever agents are slow or gone.
EventuallyResponds == \A r \in Requests : at[r] = "security" ~> at[r] = "done"

\* What the workflow implements: see ScreenedService.
Gate(r) == IF at[r] \in {"new", "security"} THEN "undecided"
           ELSE IF cleared[r] THEN "admitted" ELSE "refused"

Service == INSTANCE ScreenedService WITH
             gate    <- [r \in Requests |-> Gate(r)],
             reached <- [r \in Requests |-> Acted(r)],
             outcome <- [r \in Requests |-> response[r].status]

ImplementsService == Service!Spec

---------------------------------------------------------------------------
(* What the documentation says and the code does not do.                   *)

\* graph.py:5-8: orchestrator and data results pass the verifier before the
\* response.
VerifierConsulted ==
  \A r \in Requests :
    response[r].status = "success" /\ Acted(r) \cap {"orchestrator", "data"} # {} =>
      call[r]["verifier"] # "none"

=============================================================================
