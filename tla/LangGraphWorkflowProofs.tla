---------------------- MODULE LangGraphWorkflowProofs ----------------------
(***************************************************************************)
(* Proofs about LangGraphWorkflow, for every set of requests and intents:  *)
(* its safety invariants, and that it implements ScreenedService.          *)
(***************************************************************************)
EXTENDS LangGraphWorkflow, TLAPS

CallStates == {"none", "sent", "lost"} \cup UNION {Replies(s) : s \in Agents}

\* A reply is no other state of a call.
LEMMA RepliesAreReplies ==
  ASSUME NEW s \in Agents
  PROVE  Replies(s) \cap {"none", "sent", "lost"} = {} /\ Replies(s) \subseteq CallStates
<1>1. Replies(s) \cap {"none", "sent", "lost"} = {}
  BY IntentsAssumption DEF Replies, Agents, Workers
<1>2. Replies(s) \subseteq CallStates
  BY DEF CallStates
<1>. QED  BY <1>1, <1>2

\* The edges lead from an agent's node to a node.
LEMMA NextNodeType ==
  ASSUME NEW n \in Agents, NEW c \in BOOLEAN, NEW i
  PROVE  NextNode(n, c, i) \in {"conversation", "orchestrator", "data", "verifier", "respond"}
BY DEF NextNode, AfterSecurity, RouteByIntent

\* The intent read off a reply of the conversation agent.
LEMMA IntentOfType ==
  ASSUME NEW reply \in Replies("conversation")
  PROVE  IntentOf(reply) \in Intents
BY IntentsAssumption DEF IntentOf, Replies

---------------------------------------------------------------------------
(* Types.                                                                  *)

\* The types hold initially.
LEMMA TypeInit == Init => TypeOK
<1>. SUFFICES ASSUME Init PROVE TypeOK  OBVIOUS
<1>1. call \in [Requests -> [Agents -> CallStates]]  BY DEF Init, CallStates
<1>2. at \in [Requests -> Nodes]  BY DEF Init, Nodes
<1>3. response \in [Requests -> [status : Statuses, carries : Workers \cup {"nothing"}]]
  BY DEF Init, NoAnswer, Statuses
<1>. QED  BY <1>1, <1>2, <1>3, IntentsAssumption DEF Init, TypeOK, CallStates

\* Every step keeps the types.
LEMMA TypeStep == TypeOK /\ [Next]_vars => TypeOK'
<1>. SUFFICES ASSUME TypeOK, [Next]_vars PROVE TypeOK'  OBVIOUS
<1>0. call \in [Requests -> [Agents -> CallStates]]  BY DEF TypeOK, CallStates
<1>1. ASSUME NEW r \in Requests, Receive(r) PROVE TypeOK'
  BY <1>1 DEF Receive, TypeOK, Nodes, Agents
<1>2. ASSUME NEW r \in Requests, Call(r) PROVE TypeOK'
  <2>1. call' \in [Requests -> [Agents -> CallStates]]
    BY <1>0, <1>2 DEF Call, CallStates
  <2>. QED  BY <1>2, <2>1 DEF Call, TypeOK, CallStates
<1>3. ASSUME NEW r \in Requests, SkipVerifier(r) PROVE TypeOK'
  BY <1>3 DEF SkipVerifier, TypeOK, Nodes, Workers
<1>4. ASSUME NEW r \in Requests, NEW s \in Agents, Serve(r, s) PROVE TypeOK'
  <2>1. PICK reply \in Replies(s) : call' = [call EXCEPT ![r][s] = reply]
    BY <1>4 DEF Serve
  <2>2. reply \in CallStates  BY RepliesAreReplies
  <2>3. call' \in [Requests -> [Agents -> CallStates]]
    BY <1>0, <2>1, <2>2
  <2>. QED  BY <1>4, <2>3 DEF Serve, TypeOK, CallStates
<1>5. ASSUME NEW r \in Requests, Answered(r) PROVE TypeOK'
  <2>1. PICK n \in Agents :
          /\ at[r] = n /\ Served(r, n)
          /\ cleared' = [cleared EXCEPT ![r] = IF n = "security" THEN Clears(call[r][n]) ELSE @]
          /\ intent' = [intent EXCEPT ![r] = IF n = "conversation" THEN IntentOf(call[r][n]) ELSE @]
          /\ result' = IF n = "security" THEN result ELSE [result EXCEPT ![r][n] = "reply"]
          /\ at' = [at EXCEPT ![r] = NextNode(n, cleared'[r], intent'[r])]
          /\ UNCHANGED <<call, route, errors, response>>
    BY <1>5 DEF Answered
  <2>2. cleared' \in [Requests -> BOOLEAN]  BY <2>1 DEF TypeOK, Clears
  <2>3. n = "conversation" => IntentOf(call[r][n]) \in Intents
    BY <2>1, IntentOfType DEF Served
  <2>4. intent' \in [Requests -> Intents]  BY <2>1, <2>3 DEF TypeOK
  <2>5. NextNode(n, cleared'[r], intent'[r]) \in Nodes
    BY <2>2, NextNodeType DEF Nodes, Agents, Workers
  <2>6. at' \in [Requests -> Nodes]  BY <2>1, <2>5 DEF TypeOK
  <2>7. result' \in [Requests -> [Workers -> {"unset", "empty", "reply", "error"}]]
    BY <2>1 DEF TypeOK, Agents
  <2>. QED  BY <2>1, <2>2, <2>4, <2>6, <2>7 DEF TypeOK
<1>6. ASSUME NEW r \in Requests, Failed(r) PROVE TypeOK'
  <2>1. PICK n \in Agents :
          /\ \/ UNCHANGED call
             \/ call[r][n] = "sent" /\ call' = [call EXCEPT ![r][n] = "lost"]
          /\ cleared' = [cleared EXCEPT ![r] = IF n = "security" THEN TRUE ELSE @]
          /\ intent' = [intent EXCEPT ![r] = IF n = "conversation" THEN "unknown" ELSE @]
          /\ result' = IF n = "security" THEN result ELSE [result EXCEPT ![r][n] = "error"]
          /\ errors' = [errors EXCEPT ![r] = @ \cup {n}]
          /\ at' = [at EXCEPT ![r] = NextNode(n, cleared'[r], intent'[r])]
          /\ UNCHANGED <<route, response>>
    BY <1>6 DEF Failed
  <2>2. cleared' \in [Requests -> BOOLEAN]  BY <2>1 DEF TypeOK
  <2>3. intent' \in [Requests -> Intents]  BY <2>1, IntentsAssumption DEF TypeOK
  <2>4. NextNode(n, cleared'[r], intent'[r]) \in Nodes
    BY <2>2, NextNodeType DEF Nodes, Agents, Workers
  <2>5. at' \in [Requests -> Nodes]  BY <2>1, <2>4 DEF TypeOK
  <2>6. result' \in [Requests -> [Workers -> {"unset", "empty", "reply", "error"}]]
    BY <2>1 DEF TypeOK, Agents
  <2>7. call' \in [Requests -> [Agents -> CallStates]]
    BY <1>0, <2>1 DEF CallStates
  <2>8. errors' \in [Requests -> SUBSET Agents]  BY <2>1 DEF TypeOK
  <2>. QED  BY <2>1, <2>2, <2>3, <2>5, <2>6, <2>7, <2>8 DEF TypeOK, CallStates
<1>7. ASSUME NEW r \in Requests, Respond(r) PROVE TypeOK'
  <2>1. FinalResponse(r) \in [status : Statuses, carries : Workers \cup {"nothing"}]
    BY DEF FinalResponse, Statuses, Workers
  <2>. QED  BY <1>7, <2>1 DEF Respond, TypeOK, Nodes
<1>8. CASE UNCHANGED vars
  BY <1>8 DEF vars, TypeOK
<1>. QED  BY <1>1, <1>2, <1>3, <1>4, <1>5, <1>6, <1>7, <1>8 DEF Next, Progress

\* Every state of every behaviour is well typed.
THEOREM TypeCorrect == Spec => []TypeOK
BY TypeInit, TypeStep, PTL DEF Spec

---------------------------------------------------------------------------
(* The inductive invariant: where a request is in the graph tells which    *)
(* agents it cannot have called, and a call without a reply is the current *)
(* one or among the errors.                                                *)

Uncalled(n) ==
  CASE n = "new"          -> Agents
    [] n = "security"     -> Workers
    [] n = "conversation" -> {"orchestrator", "data", "verifier"}
    [] n = "orchestrator" -> {"data", "verifier"}
    [] n = "data"         -> {"orchestrator", "verifier"}
    [] OTHER              -> {}

CallsFollowGraph(r) == \A s \in Uncalled(at[r]) : call[r][s] = "none"

GateHolds(r) ==
  ~cleared[r] => at[r] \in {"respond", "done"} /\ \A w \in Workers : call[r][w] = "none"

BranchOfIntent(r) ==
  /\ at[r] = "orchestrator" \/ call[r]["orchestrator"] # "none" =>
       intent[r] \in OrchestratorIntents
  /\ at[r] = "data" \/ call[r]["data"] # "none" => intent[r] \in DataIntents
  /\ call[r]["orchestrator"] = "none" \/ call[r]["data"] = "none"

OpenCallsKnown(r) ==
  \A s \in Agents : call[r][s] \in {"sent", "lost"} => at[r] = s \/ s \in errors[r]

LateBlockKnown(r) ==
  call[r]["security"] = "block" /\ cleared[r] /\ at[r] # "security" =>
    "security" \in errors[r]

ResponseMatches(r) ==
  /\ at[r] = "done" => response[r].status # "none"
  /\ response[r].status # "none" => at[r] = "done"
  /\ at[r] = "done" => (response[r].status = "blocked" <=> ~cleared[r])
  /\ response[r].status = "success" => errors[r] = {}

RInv(r) ==
  /\ CallsFollowGraph(r) /\ GateHolds(r) /\ BranchOfIntent(r)
  /\ OpenCallsKnown(r) /\ LateBlockKnown(r) /\ ResponseMatches(r)

IInv == TypeOK /\ \A r \in Requests : RInv(r)

\* The request a step is not about keeps its invariant.
LEMMA OthersKeep ==
  ASSUME NEW q \in Requests, RInv(q),
         at'[q] = at[q], call'[q] = call[q], cleared'[q] = cleared[q],
         intent'[q] = intent[q], errors'[q] = errors[q], response'[q] = response[q]
  PROVE  RInv(q)'
BY DEF RInv, CallsFollowGraph, GateHolds, BranchOfIntent, OpenCallsKnown,
       LateBlockKnown, ResponseMatches

\* The invariant of a request, for each of its steps: it is received,
LEMMA ReceiveStep ==
  ASSUME TypeOK, NEW r \in Requests, RInv(r), Receive(r)
  PROVE  RInv(r)'
<1>1. at'[r] = "security" /\ call'[r] = call[r] /\ UNCHANGED <<cleared, intent, errors, response>>
  BY DEF Receive, TypeOK
<1>2. \A s \in Agents : call[r][s] = "none"
  BY DEF Receive, RInv, CallsFollowGraph, Uncalled
<1>3. cleared[r] /\ response[r].status = "none"
  BY DEF Receive, RInv, GateHolds, ResponseMatches
<1>. QED  BY <1>1, <1>2, <1>3
          DEF RInv, CallsFollowGraph, Uncalled, GateHolds, BranchOfIntent,
              OpenCallsKnown, LateBlockKnown, ResponseMatches, Agents, Workers, TypeOK

\* it calls the agent of its node,
LEMMA CallStep ==
  ASSUME TypeOK, NEW r \in Requests, RInv(r), Call(r)
  PROVE  RInv(r)'
<1>1. PICK n \in Agents :
        /\ at[r] = n /\ call[r][n] = "none"
        /\ call' = [call EXCEPT ![r][n] = "sent"]
        /\ UNCHANGED <<at, cleared, intent, errors, response>>
  BY DEF Call
<1>2. \A s \in Agents : call'[r][s] = IF s = n THEN "sent" ELSE call[r][s]
  BY <1>1 DEF TypeOK
<1>3. n \notin Uncalled(n)
  BY DEF Uncalled, Agents, Workers
<1>4. cleared[r]
  BY <1>1 DEF RInv, GateHolds, Agents, Workers
<1>5. CallsFollowGraph(r)'
  <2>1. Uncalled(n) \subseteq Agents  BY DEF Uncalled, Agents, Workers
  <2>. QED  BY <1>1, <1>2, <1>3, <2>1 DEF RInv, CallsFollowGraph
<1>6. BranchOfIntent(r)'
  <2>1. n = "orchestrator" => call[r]["data"] = "none"
    BY <1>1 DEF RInv, CallsFollowGraph, Uncalled
  <2>2. n = "data" => call[r]["orchestrator"] = "none"
    BY <1>1 DEF RInv, CallsFollowGraph, Uncalled
  <2>. QED  BY <1>1, <1>2, <2>1, <2>2 DEF RInv, BranchOfIntent, Agents, Workers
<1>7. OpenCallsKnown(r)'
  BY <1>1, <1>2 DEF RInv, OpenCallsKnown
<1>8. LateBlockKnown(r)'
  BY <1>1, <1>2 DEF RInv, LateBlockKnown, Agents
<1>9. GateHolds(r)' /\ ResponseMatches(r)'
  BY <1>1, <1>4 DEF RInv, GateHolds, ResponseMatches
<1>. QED  BY <1>5, <1>6, <1>7, <1>8, <1>9 DEF RInv

\* it passes the verifier by,
LEMMA SkipVerifierStep ==
  ASSUME TypeOK, NEW r \in Requests, RInv(r), SkipVerifier(r)
  PROVE  RInv(r)'
<1>1. /\ at[r] = "verifier" /\ call[r]["verifier"] = "none" /\ at'[r] = "respond"
      /\ UNCHANGED <<call, cleared, intent, errors, response>>
  BY DEF SkipVerifier, TypeOK
<1>. QED  BY <1>1 DEF RInv, CallsFollowGraph, Uncalled, GateHolds, BranchOfIntent,
                     OpenCallsKnown, LateBlockKnown, ResponseMatches

\* the agent replies,
LEMMA ServeStep ==
  ASSUME TypeOK, NEW r \in Requests, NEW s \in Agents, RInv(r), Serve(r, s)
  PROVE  RInv(r)'
<1>1. PICK reply \in Replies(s) :
        /\ call[r][s] = "sent" /\ call' = [call EXCEPT ![r][s] = reply]
        /\ UNCHANGED <<at, cleared, intent, errors, response>>
  BY DEF Serve
<1>2. reply \notin {"none", "sent", "lost"}  BY RepliesAreReplies
<1>3. \A t \in Agents : call'[r][t] = IF t = s THEN reply ELSE call[r][t]
  BY <1>1 DEF TypeOK
<1>4. CallsFollowGraph(r)'
  <2>1. Uncalled(at[r]) \subseteq Agents  BY DEF Uncalled, Agents, Workers
  <2>. QED  BY <1>1, <1>3, <2>1 DEF RInv, CallsFollowGraph
<1>5. GateHolds(r)' /\ BranchOfIntent(r)' /\ ResponseMatches(r)'
  BY <1>1, <1>3 DEF RInv, GateHolds, BranchOfIntent, ResponseMatches, Agents, Workers
<1>6. OpenCallsKnown(r)' /\ LateBlockKnown(r)'
  BY <1>1, <1>2, <1>3 DEF RInv, OpenCallsKnown, LateBlockKnown, Agents
<1>. QED  BY <1>4, <1>5, <1>6 DEF RInv

\* Leaving a node for the next one, with its call answered or among the errors.
LEMMA LeaveStep ==
  ASSUME TypeOK, TypeOK', NEW r \in Requests, RInv(r), NEW n \in Agents, at[r] = n,
         at'[r] = NextNode(n, cleared'[r], intent'[r]),
         n # "security" => cleared'[r] = cleared[r],
         n # "conversation" => intent'[r] = intent[r],
         errors[r] \subseteq errors'[r], response' = response,
         \A s \in Agents \ {n} : call'[r][s] = call[r][s],
         call'[r][n] \in {"sent", "lost"} => n \in errors'[r],
         n = "security" /\ call'[r][n] = "block" /\ cleared'[r] => n \in errors'[r]
  PROVE  RInv(r)'
<1>1. at'[r] \in {"conversation", "orchestrator", "data", "verifier", "respond"}
  BY NextNodeType DEF TypeOK
<1>2. cleared[r] /\ at[r] # "done"
  BY DEF RInv, GateHolds, Agents, Workers
<1>3. \A s \in Uncalled(n) : s \in Agents \ {n} /\ call[r][s] = "none"
  BY DEF RInv, CallsFollowGraph, Uncalled, Agents, Workers
<1>4. at'[r] # n /\ Uncalled(at'[r]) \subseteq Uncalled(n)
  BY DEF NextNode, AfterSecurity, RouteByIntent, Uncalled, Agents, Workers
<1>5. CallsFollowGraph(r)'
  BY <1>3, <1>4 DEF CallsFollowGraph
<1>6. GateHolds(r)'
  BY <1>2, <1>3 DEF GateHolds, NextNode, AfterSecurity, Uncalled, Agents, Workers
<1>7. BranchOfIntent(r)'
  <2>1. CASE n = "security" \/ n = "conversation"
    <3>1. call'[r]["orchestrator"] = "none" /\ call'[r]["data"] = "none"
      BY <1>3, <2>1 DEF Uncalled, Workers
    <3>. QED  BY <2>1, <3>1 DEF BranchOfIntent, NextNode, AfterSecurity, RouteByIntent
  <2>2. CASE n = "orchestrator"
    BY <1>3, <2>2 DEF RInv, BranchOfIntent, NextNode, Uncalled, Agents, Workers
  <2>3. CASE n = "data"
    BY <1>3, <2>3 DEF RInv, BranchOfIntent, NextNode, Uncalled, Agents, Workers
  <2>4. CASE n = "verifier"
    BY <2>4 DEF RInv, BranchOfIntent, NextNode, Agents, Workers
  <2>. QED  BY <2>1, <2>2, <2>3, <2>4 DEF Agents, Workers
<1>8. OpenCallsKnown(r)'
  BY DEF RInv, OpenCallsKnown
<1>9. LateBlockKnown(r)'
  BY <1>2 DEF RInv, LateBlockKnown, Agents
<1>10. ResponseMatches(r)'
  BY <1>1, <1>2 DEF RInv, ResponseMatches
<1>. QED  BY <1>5, <1>6, <1>7, <1>8, <1>9, <1>10 DEF RInv

\* it is answered,
LEMMA RespondStep ==
  ASSUME TypeOK, NEW r \in Requests, RInv(r), Respond(r)
  PROVE  RInv(r)'
<1>1. /\ at[r] = "respond" /\ at'[r] = "done" /\ response'[r] = FinalResponse(r)
      /\ UNCHANGED <<call, cleared, intent, errors>>
  BY DEF Respond, TypeOK
<1>2. ResponseMatches(r)'
  BY <1>1 DEF FinalResponse, ResponseMatches
<1>3. OpenCallsKnown(r)'
  BY <1>1 DEF RInv, OpenCallsKnown, Agents, Workers
<1>. QED  BY <1>1, <1>2, <1>3 DEF RInv, CallsFollowGraph, Uncalled, GateHolds,
                                  BranchOfIntent, LateBlockKnown

\* it takes a reply to the next node,
LEMMA AnsweredStep ==
  ASSUME TypeOK, TypeOK', NEW r \in Requests, RInv(r), Answered(r)
  PROVE  RInv(r)'
<1>1. PICK n \in Agents :
        /\ at[r] = n /\ Served(r, n)
        /\ cleared' = [cleared EXCEPT ![r] = IF n = "security" THEN Clears(call[r][n]) ELSE @]
        /\ intent' = [intent EXCEPT ![r] = IF n = "conversation" THEN IntentOf(call[r][n]) ELSE @]
        /\ at' = [at EXCEPT ![r] = NextNode(n, cleared'[r], intent'[r])]
        /\ UNCHANGED <<call, errors, response>>
  BY DEF Answered
<1>2. at'[r] = NextNode(n, cleared'[r], intent'[r])  BY <1>1 DEF TypeOK
<1>3. /\ n # "security" => cleared'[r] = cleared[r]
      /\ n = "security" => cleared'[r] = Clears(call[r][n])
      /\ n # "conversation" => intent'[r] = intent[r]
  BY <1>1 DEF TypeOK
<1>4. call[r][n] \notin {"sent", "lost"}
  BY <1>1, RepliesAreReplies DEF Served
<1>5. n = "security" /\ call[r][n] = "block" => ~cleared'[r]
  BY <1>3 DEF Clears
<1>. QED  BY <1>1, <1>2, <1>3, <1>4, <1>5, LeaveStep

\* or its call fails.
LEMMA FailedStep ==
  ASSUME TypeOK, TypeOK', NEW r \in Requests, RInv(r), Failed(r)
  PROVE  RInv(r)'
<1>1. PICK n \in Agents :
        /\ at[r] = n
        /\ \/ UNCHANGED call
           \/ call[r][n] = "sent" /\ call' = [call EXCEPT ![r][n] = "lost"]
        /\ cleared' = [cleared EXCEPT ![r] = IF n = "security" THEN TRUE ELSE @]
        /\ intent' = [intent EXCEPT ![r] = IF n = "conversation" THEN "unknown" ELSE @]
        /\ errors' = [errors EXCEPT ![r] = @ \cup {n}]
        /\ at' = [at EXCEPT ![r] = NextNode(n, cleared'[r], intent'[r])]
        /\ response' = response
  BY DEF Failed
<1>2. at'[r] = NextNode(n, cleared'[r], intent'[r])  BY <1>1 DEF TypeOK
<1>3. /\ n # "security" => cleared'[r] = cleared[r]
      /\ n # "conversation" => intent'[r] = intent[r]
  BY <1>1 DEF TypeOK
<1>4. errors'[r] = errors[r] \cup {n}  BY <1>1 DEF TypeOK
<1>5. \A s \in Agents \ {n} : call'[r][s] = call[r][s]  BY <1>1 DEF TypeOK
<1>. QED  BY <1>1, <1>2, <1>3, <1>4, <1>5, LeaveStep

\* The invariant of every request is inductive, a step being of one request.
LEMMA InvStep == IInv /\ [Next]_vars => IInv'
<1>. SUFFICES ASSUME IInv, [Next]_vars PROVE IInv'  OBVIOUS
<1>1. TypeOK /\ TypeOK' /\ \A r \in Requests : RInv(r)  BY TypeStep DEF IInv
<1>. SUFFICES ASSUME NEW q \in Requests PROVE RInv(q)'  BY <1>1 DEF IInv
<1>2. CASE UNCHANGED vars
  BY <1>1, <1>2, OthersKeep DEF vars
<1>3. ASSUME NEW r \in Requests,
             Receive(r) \/ Progress(r) \/ \E s \in Agents : Serve(r, s)
      PROVE  RInv(q)'
  <2>1. CASE q = r
    BY <1>1, <1>3, <2>1, ReceiveStep, CallStep, SkipVerifierStep, ServeStep,
       AnsweredStep, FailedStep, RespondStep DEF Progress
  <2>2. CASE q # r
    <3>1. at'[q] = at[q]
      BY <1>1, <1>3, <2>2 DEF TypeOK, Progress, Receive, Call, SkipVerifier, Serve,
                              Answered, Failed, Respond
    <3>2. call'[q] = call[q]
      BY <1>1, <1>3, <2>2 DEF TypeOK, Progress, Receive, Call, SkipVerifier, Serve,
                              Answered, Failed, Respond
    <3>3. cleared'[q] = cleared[q] /\ intent'[q] = intent[q]
      BY <1>1, <1>3, <2>2 DEF TypeOK, Progress, Receive, Call, SkipVerifier, Serve,
                              Answered, Failed, Respond
    <3>4. errors'[q] = errors[q] /\ response'[q] = response[q]
      BY <1>1, <1>3, <2>2 DEF TypeOK, Progress, Receive, Call, SkipVerifier, Serve,
                              Answered, Failed, Respond
    <3>. QED  BY <1>1, <3>1, <3>2, <3>3, <3>4, OthersKeep
  <2>. QED  BY <2>1, <2>2
<1>. QED  BY <1>2, <1>3 DEF Next

\* The invariant holds in every state.
LEMMA InvInvariant == Spec => []IInv
<1>1. Init => IInv
  <2>. SUFFICES ASSUME Init, NEW r \in Requests PROVE RInv(r)
    BY TypeInit DEF IInv
  <2>. QED  BY DEF Init, RInv, CallsFollowGraph, Uncalled, GateHolds, BranchOfIntent,
                   OpenCallsKnown, LateBlockKnown, ResponseMatches, NoAnswer, Agents, Workers
<1>. QED  BY <1>1, InvStep, PTL DEF Spec

---------------------------------------------------------------------------
(* The theorems.                                                           *)

\* A refused request reaches no worker and is answered "blocked".
THEOREM RefusedStaysOut == Spec => []RefusedReachesNobody
<1>1. IInv => RefusedReachesNobody
  BY DEF IInv, RInv, GateHolds, ResponseMatches, RefusedReachesNobody
<1>. QED  BY <1>1, InvInvariant, PTL

\* A success leaves no call open and hides no verdict to block.
THEOREM SuccessSettled == Spec => []SuccessIsSettled
<1>1. IInv => SuccessIsSettled
  <2>. SUFFICES ASSUME IInv, NEW r \in Requests, response[r].status = "success"
                PROVE  /\ \A s \in Agents : call[r][s] \notin {"sent", "lost"}
                       /\ call[r]["security"] # "block"
    BY DEF SuccessIsSettled
  <2>1. at[r] = "done" /\ errors[r] = {} /\ cleared[r]
    BY DEF IInv, RInv, ResponseMatches
  <2>. QED  BY <2>1 DEF IInv, RInv, OpenCallsKnown, LateBlockKnown, Agents, Workers
<1>. QED  BY <1>1, InvInvariant, PTL

\* A request that passes against a verdict to block carries the screening's error.
THEOREM PassedBlockReported == Spec => []PassedBlockIsReported
<1>1. IInv => PassedBlockIsReported
  BY DEF IInv, RInv, LateBlockKnown, PassedBlockIsReported
<1>. QED  BY <1>1, InvInvariant, PTL

\* A request takes the branch of its intent and no other.
THEOREM BranchIsOne == Spec => []OneBranch
<1>1. IInv => OneBranch
  BY DEF IInv, RInv, BranchOfIntent, OneBranch
<1>. QED  BY <1>1, InvInvariant, PTL

---------------------------------------------------------------------------
(* The refinement of ScreenedService.                                      *)

GateMap    == [r \in Requests |-> Gate(r)]
ReachedMap == [r \in Requests |-> Acted(r)]
OutcomeMap == [r \in Requests |-> response[r].status]

\* A step that leaves each request's gate, workers and outcome as they were.
LEMMA Stutter ==
  ASSUME \A r \in Requests : /\ Gate(r)' = Gate(r) /\ Acted(r)' = Acted(r)
                             /\ response'[r].status = response[r].status
  PROVE  UNCHANGED Service!svars
<1>1. GateMap' = GateMap  BY DEF GateMap
<1>2. ReachedMap' = ReachedMap  BY DEF ReachedMap
<1>3. OutcomeMap' = OutcomeMap  BY DEF OutcomeMap
<1>. QED  BY <1>1, <1>2, <1>3 DEF Service!svars, GateMap, ReachedMap, OutcomeMap

\* What a step of one request leaves of the others, and of its own calls.
LEMMA OthersUnmoved ==
  ASSUME TypeOK, NEW r \in Requests, NEW q \in Requests \ {r},
         Receive(r) \/ Progress(r) \/ \E s \in Agents : Serve(r, s)
  PROVE  /\ Gate(q)' = Gate(q) /\ Acted(q)' = Acted(q)
         /\ response'[q].status = response[q].status
<1>1. at'[q] = at[q] /\ cleared'[q] = cleared[q]
  BY DEF TypeOK, Progress, Receive, Call, SkipVerifier, Serve, Answered, Failed, Respond
<1>2. call'[q] = call[q]
  BY DEF TypeOK, Progress, Receive, Call, SkipVerifier, Serve, Answered, Failed, Respond
<1>3. response'[q] = response[q]
  BY DEF TypeOK, Progress, Receive, Call, SkipVerifier, Serve, Answered, Failed, Respond
<1>. QED  BY <1>1, <1>2, <1>3 DEF Gate, Acted, Served

\* Leaving the screening decides; leaving any other node decides nothing.
LEMMA LeaveGate ==
  ASSUME IInv, IInv', NEW r \in Requests, NEW n \in Agents, at[r] = n,
         at'[r] = NextNode(n, cleared'[r], intent'[r]),
         n # "security" => cleared'[r] = cleared[r]
  PROVE  IF n = "security" THEN Gate(r) = "undecided" /\ Gate(r)' \in {"admitted", "refused"}
         ELSE Gate(r)' = Gate(r)
<1>1. at'[r] \in {"conversation", "orchestrator", "data", "verifier", "respond"}
  BY NextNodeType DEF IInv, TypeOK
<1>. QED  BY <1>1 DEF Gate, Agents, Workers

\* A step of r that decides r's gate and does nothing else.
LEMMA DecideStep ==
  ASSUME TypeOK, NEW r \in Requests,
         Receive(r) \/ Progress(r) \/ \E s \in Agents : Serve(r, s),
         Gate(r) = "undecided", Gate(r)' \in {"admitted", "refused"},
         Acted(r)' = Acted(r), response'[r].status = response[r].status
  PROVE  Service!Next
<1>1. GateMap' = [GateMap EXCEPT ![r] = Gate(r)']
  BY OthersUnmoved DEF GateMap
<1>2. ReachedMap' = ReachedMap  BY OthersUnmoved DEF ReachedMap
<1>3. OutcomeMap' = OutcomeMap  BY OthersUnmoved DEF OutcomeMap
<1>4. Service!Decide(r, Gate(r)')
  BY <1>1, <1>2, <1>3 DEF Service!Decide, GateMap, ReachedMap, OutcomeMap
<1>. QED  BY <1>4 DEF Service!Next

\* A reply of an agent is a step of the screened service, or none.
LEMMA ServeMaps ==
  ASSUME IInv, IInv', NEW r \in Requests, NEW s \in Agents, Serve(r, s)
  PROVE  [Service!Next]_(Service!svars)
<1>1. PICK reply \in Replies(s) :
        /\ call[r][s] = "sent" /\ call' = [call EXCEPT ![r][s] = reply]
        /\ UNCHANGED <<at, cleared, response>>
  BY DEF Serve
<1>2. \A t \in Agents : call'[r][t] = IF t = s THEN reply ELSE call[r][t]
  BY <1>1 DEF IInv, TypeOK
<1>3. Gate(r)' = Gate(r) /\ response'[r].status = response[r].status
  BY <1>1 DEF Gate
<1>4. CASE s = "security"
  <2>1. Acted(r)' = Acted(r)  BY <1>2, <1>4 DEF Acted, Served, Workers, Agents
  <2>. QED  BY <1>3, <2>1, OthersUnmoved, Stutter DEF IInv
<1>5. CASE s \in Workers
  <2>1. Acted(r)' = Acted(r) \cup {s}
    BY <1>2, <1>5 DEF Acted, Served, Workers, Agents
  <2>2. Gate(r) = "admitted"
    BY <1>1, <1>5 DEF IInv, RInv, CallsFollowGraph, GateHolds, Uncalled, Gate, Agents
  <2>3. response[r].status # "success"
    BY <1>1 DEF IInv, RInv, OpenCallsKnown, ResponseMatches, Agents, Workers
  <2>4. ReachedMap' = [ReachedMap EXCEPT ![r] = @ \cup {s}]
    BY <2>1, OthersUnmoved DEF ReachedMap, IInv
  <2>5. GateMap' = GateMap  BY <1>3, OthersUnmoved DEF GateMap, IInv
  <2>6. OutcomeMap' = OutcomeMap  BY <1>3, OthersUnmoved DEF OutcomeMap, IInv
  <2>7. Service!Reach(r, s)
    BY <2>2, <2>3, <2>4, <2>5, <2>6 DEF Service!Reach, GateMap, ReachedMap, OutcomeMap
  <2>. QED  BY <1>5, <2>7 DEF Service!Next
<1>. QED  BY <1>4, <1>5 DEF Agents

\* The answer of the graph is the answer of the screened service.
LEMMA RespondMaps ==
  ASSUME IInv, IInv', NEW r \in Requests, Respond(r)
  PROVE  [Service!Next]_(Service!svars)
<1>1. /\ at[r] = "respond" /\ at'[r] = "done" /\ response'[r] = FinalResponse(r)
      /\ UNCHANGED <<call, cleared>>
  BY DEF Respond, IInv, TypeOK
<1>. PICK status : status = FinalResponse(r).status  OBVIOUS
<1>2. Gate(r)' = Gate(r) /\ Acted(r)' = Acted(r)
  BY <1>1 DEF Gate, Acted, Served
<1>3. \/ Gate(r) = "refused" /\ status = "blocked"
      \/ Gate(r) = "admitted" /\ status \in {"success", "partial"}
  BY <1>1 DEF Gate, FinalResponse
<1>4. response[r].status = "none"
  BY <1>1 DEF IInv, RInv, ResponseMatches
<1>5. GateMap' = GateMap  BY <1>2, OthersUnmoved DEF GateMap, IInv, Progress
<1>6. ReachedMap' = ReachedMap  BY <1>2, OthersUnmoved DEF ReachedMap, IInv, Progress
<1>7. OutcomeMap' = [OutcomeMap EXCEPT ![r] = status]
  BY <1>1, OthersUnmoved DEF OutcomeMap, IInv, Progress
<1>8. Service!Report(r, status)
  BY <1>3, <1>4, <1>5, <1>6, <1>7 DEF Service!Report, GateMap, ReachedMap, OutcomeMap
<1>9. status \in {"success", "partial", "blocked"}  BY <1>3
<1>. QED  BY <1>8, <1>9 DEF Service!Next

\* Every step is a step of the screened service, or none.
LEMMA StepMaps == IInv /\ IInv' /\ [Next]_vars => [Service!Next]_(Service!svars)
<1>. SUFFICES ASSUME IInv, IInv', [Next]_vars PROVE [Service!Next]_(Service!svars)
  OBVIOUS
<1>0. TypeOK  BY DEF IInv
<1>1. ASSUME NEW r \in Requests, Receive(r) PROVE [Service!Next]_(Service!svars)
  <2>1. at[r] = "new" /\ at'[r] = "security" /\ UNCHANGED <<call, response>>
    BY <1>0, <1>1 DEF Receive, TypeOK
  <2>2. Gate(r)' = Gate(r) /\ Acted(r)' = Acted(r)  BY <2>1 DEF Gate, Acted, Served
  <2>. QED  BY <1>0, <1>1, <2>1, <2>2, OthersUnmoved, Stutter
<1>2. ASSUME NEW r \in Requests, Call(r) PROVE [Service!Next]_(Service!svars)
  <2>1. PICK n \in Agents : call[r][n] = "none" /\ call' = [call EXCEPT ![r][n] = "sent"]
                            /\ UNCHANGED <<at, cleared, response>>
    BY <1>2 DEF Call
  <2>2. \A s \in Agents : call'[r][s] = IF s = n THEN "sent" ELSE call[r][s]
    BY <1>0, <2>1 DEF TypeOK
  <2>3. \A s \in Agents : Served(r, s)' = Served(r, s)
    BY <2>1, <2>2, RepliesAreReplies DEF Served
  <2>4. Acted(r)' = Acted(r)  BY <2>3 DEF Acted, Agents
  <2>5. Gate(r)' = Gate(r)  BY <2>1 DEF Gate
  <2>. QED  BY <1>0, <1>2, <2>1, <2>4, <2>5, OthersUnmoved, Stutter DEF Progress
<1>3. ASSUME NEW r \in Requests, SkipVerifier(r) PROVE [Service!Next]_(Service!svars)
  <2>1. at[r] = "verifier" /\ at'[r] = "respond" /\ UNCHANGED <<call, cleared, response>>
    BY <1>0, <1>3 DEF SkipVerifier, TypeOK
  <2>2. Gate(r)' = Gate(r) /\ Acted(r)' = Acted(r)  BY <2>1 DEF Gate, Acted, Served
  <2>. QED  BY <1>0, <1>3, <2>1, <2>2, OthersUnmoved, Stutter DEF Progress
<1>4. ASSUME NEW r \in Requests, Answered(r) PROVE [Service!Next]_(Service!svars)
  <2>1. PICK n \in Agents :
          /\ at[r] = n /\ UNCHANGED <<call, response>>
          /\ cleared' = [cleared EXCEPT ![r] = IF n = "security" THEN Clears(call[r][n]) ELSE @]
          /\ at' = [at EXCEPT ![r] = NextNode(n, cleared'[r], intent'[r])]
    BY <1>4 DEF Answered
  <2>2. at'[r] = NextNode(n, cleared'[r], intent'[r])
        /\ (n # "security" => cleared'[r] = cleared[r])
    BY <1>0, <2>1 DEF TypeOK
  <2>3. Acted(r)' = Acted(r)  BY <2>1 DEF Acted, Served
  <2>4. CASE n = "security"
    BY <1>0, <1>4, <2>1, <2>2, <2>3, <2>4, LeaveGate, DecideStep DEF Progress
  <2>5. CASE n # "security"
    <3>1. Gate(r)' = Gate(r)  BY <2>1, <2>2, <2>5, LeaveGate
    <3>. QED  BY <1>0, <1>4, <2>1, <2>3, <3>1, OthersUnmoved, Stutter DEF Progress
  <2>. QED  BY <2>4, <2>5
<1>5. ASSUME NEW r \in Requests, Failed(r) PROVE [Service!Next]_(Service!svars)
  <2>1. PICK n \in Agents :
          /\ at[r] = n /\ response' = response
          /\ \/ UNCHANGED call
             \/ call[r][n] = "sent" /\ call' = [call EXCEPT ![r][n] = "lost"]
          /\ cleared' = [cleared EXCEPT ![r] = IF n = "security" THEN TRUE ELSE @]
          /\ at' = [at EXCEPT ![r] = NextNode(n, cleared'[r], intent'[r])]
    BY <1>5 DEF Failed
  <2>2. at'[r] = NextNode(n, cleared'[r], intent'[r])
        /\ (n # "security" => cleared'[r] = cleared[r])
    BY <1>0, <2>1 DEF TypeOK
  <2>3. \A s \in Agents : \/ call'[r][s] = call[r][s]
                          \/ call[r][s] = "sent" /\ call'[r][s] = "lost"
    BY <1>0, <2>1 DEF TypeOK
  <2>4. \A s \in Agents : Served(r, s)' = Served(r, s)
    BY <2>3, RepliesAreReplies DEF Served
  <2>5. Acted(r)' = Acted(r)  BY <2>4 DEF Acted, Agents
  <2>6. CASE n = "security"
    BY <1>0, <1>5, <2>1, <2>2, <2>5, <2>6, LeaveGate, DecideStep DEF Progress
  <2>7. CASE n # "security"
    <3>1. Gate(r)' = Gate(r)  BY <2>1, <2>2, <2>7, LeaveGate
    <3>. QED  BY <1>0, <1>5, <2>1, <2>5, <3>1, OthersUnmoved, Stutter DEF Progress
  <2>. QED  BY <2>6, <2>7
<1>6. CASE UNCHANGED vars
  BY <1>6, Stutter DEF vars, Gate, Acted, Served
<1>. QED  BY <1>1, <1>2, <1>3, <1>4, <1>5, <1>6, ServeMaps, RespondMaps DEF Next, Progress

\* The workflow is a screened service: the screening decides before a worker
\* acts, and nothing follows a reported success.
THEOREM WorkflowImplementsService == Spec => ImplementsService
<1>1. Init => Service!Init
  <2>. SUFFICES ASSUME Init PROVE Service!Init  OBVIOUS
  <2>1. \A r \in Requests : Gate(r) = "undecided" /\ response[r].status = "none"
    BY DEF Init, Gate, NoAnswer
  <2>2. \A r \in Requests : Acted(r) = {}
    BY RepliesAreReplies DEF Init, Acted, Served, Agents
  <2>. QED  BY <2>1, <2>2 DEF Service!Init
<1>. QED  BY <1>1, StepMaps, InvInvariant, PTL DEF Spec, ImplementsService, Service!Spec

============================================================================
