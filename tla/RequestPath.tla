---------------------------- MODULE RequestPath ----------------------------
(***************************************************************************)
(* HTTP exchanges through the gateway: RequestSecurityMiddleware           *)
(* (gateway/middleware.py), the dependencies of a route (gateway/auth.py), *)
(* its handler (gateway/app.py), the operations workflow, and the approval *)
(* store, here the contract ApprovalStore that every backend implements.   *)
(*                                                                         *)
(* One event loop runs all exchanges.  create_pending is synchronous:      *)
(* while it runs nothing else of the loop does, timers included.  When the *)
(* middleware has answered 504 the handler is not cancelled: it runs on,   *)
(* and its own response is dropped.                                        *)
(***************************************************************************)
EXTENDS Identity, Workflow

CONSTANTS
  Exchange,
  Requests,        (* the requests that may arrive, by exchange            *)
  Configurations,  (* the settings it may have been started with           *)
  LongSubject,     (* subjects of more than 128 characters                 *)
  HitRoles,        (* allowed_roles of each chunk                          *)
  NoExchange, NoRequest, NoResult

ASSUME ConfigurationsAreAccepted ==
  Configurations \subseteq Settings /\ \A s \in Configurations : Accepted(s)
ASSUME SubjectsAreKnown == LongSubject \subseteq Subject
ASSUME HitsHaveRoles == HitRoles \in [Hit -> SUBSET Role]

VARIABLES
  settings,
  pc,         (* where each exchange is                                    *)
  req,        (* its request                                               *)
  route,      (* the specialist that investigates                          *)
  called,     (* tool calls that succeeded                                 *)
  result,     (* what the investigation concluded                          *)
  reply,      (* status of the handler's response, or of its exception     *)
  overdue,    (* request_timeout_seconds have passed, with no answer       *)
  status,     (* the status the client got, 0 before                       *)
  counted,    (* HTTP_REQUESTS: the statuses counted for the exchange      *)
  approvals, call, limbo  (* the approval store                            *)

store == <<approvals, call, limbo>>
work  == <<req, route, called, result>>
vars  == <<settings, pc, work, reply, overdue, status, counted, store>>

(* The exchange stands for the id its create_pending makes (a uuid4).      *)
Store == INSTANCE ApprovalStore WITH
  Client <- Exchange, Id <- Exchange, Verdict <- {"approved", "rejected"},
  NoClient <- NoExchange, NoId <- NoExchange

Investigations == {"investigate", "demo_investigate"}
Synthesis == {"answer", "demo_rag"}
Demo == {"demo_investigate", "demo_rag"}
Viewer == {"info", "skills"}
TenantScoped == {"skills", "investigate", "generate", "answer"}
(* "live" stands for readiness and the page of the demo too.               *)
Endpoint == {"live", "route", "generate"} \cup Viewer \cup Investigations \cup Synthesis

(* `form`: the tenant field of a demo form.                                *)
Request ==
  [endpoint : Endpoint, oversized : BOOLEAN, body : {"valid", "malformed", "invalid"},
   credentials : Credentials, form : Tenant \cup {NoTenant}, query : Query]

ASSUME RequestsAreRequests ==
  \A x \in Exchange : Requests[x] \subseteq Request

Init ==
  /\ settings \in Configurations
  /\ pc = [x \in Exchange |-> "new"]
  /\ req = [x \in Exchange |-> NoRequest]
  /\ route = [x \in Exchange |-> "human_review"]
  /\ called = [x \in Exchange |-> 0]
  /\ result = [x \in Exchange |-> NoResult]
  /\ reply = [x \in Exchange |-> 0]
  /\ overdue = [x \in Exchange |-> FALSE]
  /\ status = [x \in Exchange |-> 0]
  /\ counted = [x \in Exchange |-> <<>>]
  /\ Store!Init

-----------------------------------------------------------------------------
(* The fixed principal of the browser demo, or the authenticated one.      *)
CallerOf(r) ==
  IF r.endpoint \in Demo
    THEN [subject |-> "browser-demo", roles |-> {"agent.invoke"}]
    ELSE Principal(settings, r.credentials)

TenantFor(r) == IF r.endpoint \in Demo THEN r.form ELSE TenantOf(settings, r.credentials)

(* principal.roles | bundle.entitlements for tools, the entitlements alone *)
(* for grounded answers.                                                   *)
ToolRoles(r) == CallerOf(r).roles \cup Entitlements[TenantFor(r)]
Retrievable(roles) == {h \in Hit : HitRoles[h] \subseteq roles}

(* The dependencies of a route, in the order FastAPI solves them: a body   *)
(* that is no JSON, authentication, the limiter, the role, the tenant and  *)
(* then the fields of the body.  `limited`: the limiter's verdict.         *)
ApiRefusal(r, limited) ==
  LET p == PrincipalStatus(settings, r.credentials)
      required == {IF r.endpoint \in Viewer THEN "platform.viewer" ELSE "agent.invoke"}
  IN IF r.body = "malformed" THEN 422
     ELSE IF p # 200 THEN p
     ELSE IF limited THEN 429
     ELSE IF RolesStatus(CallerOf(r), required) # 200 THEN 403
     ELSE IF r.endpoint \in TenantScoped /\ TenantStatus(settings, r.credentials) # 200 THEN 400
     ELSE IF r.body = "invalid" \/ (r.endpoint = "answer" /\ r.query.over_500) THEN 422
     ELSE 200

(* Those of the demo, and its handlers' look-up of the tenant.             *)
DemoRefusal(r, limited) ==
  IF r.body = "malformed" THEN 400
  ELSE IF limited THEN 429
  ELSE IF r.body = "invalid" THEN 422
  ELSE IF r.form = NoTenant THEN 400
  ELSE 200

Refusal(r, limited) ==
  CASE r.endpoint = "live" -> 200
    [] r.endpoint \in Demo -> DemoRefusal(r, limited)
    [] OTHER -> ApiRefusal(r, limited)

-----------------------------------------------------------------------------
LoopFree == \A x \in Exchange : pc[x] # "store"

Goto(x, next) == pc' = [pc EXCEPT ![x] = next]

Respond(x, s) ==
  /\ Goto(x, "response")
  /\ reply' = [reply EXCEPT ![x] = s]

(* What an exception of a handler becomes: dispatch takes a TimeoutError   *)
(* for its own.                                                            *)
Raised == {500, 504}

(* A bug for the runs to catch: an approval whatever the result.           *)
AlwaysPending(r) == TRUE
NeedsApproval(r) == r.approval

Creation(x) ==
  [op |-> "create", id |-> x, tenant |-> TenantFor(req[x]), verdict |-> "none", client |-> x]

(* The end of an investigation: create_pending is called, or the response  *)
(* is made.                                                                *)
Settle(x, res) ==
  /\ result' = [result EXCEPT ![x] = res]
  /\ \/ NeedsApproval(res) /\ Goto(x, "store") /\ Store!Invoke(x, Creation(x)) /\ UNCHANGED reply
     \/ ~ NeedsApproval(res) /\ Respond(x, 200) /\ UNCHANGED store

Unanswered == <<settings, overdue, status, counted>>

-----------------------------------------------------------------------------
(* dispatch, up to call_next.  413 is returned at once.                    *)
Arrive(x, r) ==
  /\ pc[x] = "new"
  /\ LoopFree
  /\ req' = [req EXCEPT ![x] = r]
  /\ \/ r.oversized /\ Goto(x, "done") /\ status' = [status EXCEPT ![x] = 413]
     \/ ~ r.oversized /\ Goto(x, "dependencies") /\ UNCHANGED status
  /\ UNCHANGED <<settings, route, called, result, reply, overdue, counted, store>>

Refuse(x, limited) ==
  /\ pc[x] = "dependencies"
  /\ LoopFree
  /\ Refusal(req[x], limited) # 200
  /\ Respond(x, Refusal(req[x], limited))
  /\ UNCHANGED <<work, store, Unanswered>>

Admitted(x, endpoints) ==
  /\ pc[x] = "dependencies"
  /\ LoopFree
  /\ Refusal(req[x], FALSE) = 200
  /\ req[x].endpoint \in endpoints

(* liveness, platform_info, list_skills, route_workflow                    *)
Inform(x) ==
  /\ Admitted(x, {"live", "route"} \cup Viewer)
  /\ Respond(x, 200)
  /\ UNCHANGED <<work, store, Unanswered>>

(* generate, rag_answer and demo_rag, up to their first await.  The demo   *)
(* form does not bound its query, and the retriever raises ValueError.     *)
AskModel(x) ==
  /\ Admitted(x, {"generate"} \cup Synthesis)
  /\ CASE req[x].endpoint = "generate" -> Goto(x, "model") /\ UNCHANGED reply
       [] req[x].query.over_500 -> Respond(x, 500)
       [] OTHER -> Goto(x, "retrieval") /\ UNCHANGED reply
  /\ UNCHANGED <<work, store, Unanswered>>

(* Without evidence the answer is a fixed refusal; the index may raise.    *)
Retrieved(x) ==
  /\ pc[x] = "retrieval"
  /\ LoopFree
  /\ \/ Retrievable(Entitlements[TenantFor(req[x])]) # {} /\ Goto(x, "model") /\ UNCHANGED reply
     \/ \E s \in {200} \cup Raised : Respond(x, s)
  /\ UNCHANGED <<work, store, Unanswered>>

(* ModelGateway.generate ends: with a result, not allowed or over budget,  *)
(* blocked, failed, or with an exception nobody maps.  The demo shows the  *)
(* first four as a page.                                                   *)
ModelEnds(x) ==
  /\ pc[x] = "model"
  /\ LoopFree
  /\ \E s \in {200} \cup Raised \cup (IF req[x].endpoint \in Demo THEN {} ELSE {403, 400, 503}) : Respond(x, s)
  /\ UNCHANGED <<work, store, Unanswered>>

(* investigate_workflow and demo_investigate: classification and the node  *)
(* it leads to.  CallerContext is made outside the specialist's try.       *)
Investigate(x, node) ==
  /\ Admitted(x, Investigations)
  /\ node \in Routes(req[x].query)
  /\ route' = [route EXCEPT ![x] = node]
  /\ CASE node = "human_review" -> Settle(x, Concluded(node, req[x].query, FALSE, {}))
       [] node # "human_review" /\ CallerOf(req[x]).subject \in LongSubject ->
            Respond(x, 500) /\ UNCHANGED <<result, store>>
       [] OTHER -> Goto(x, "agent") /\ UNCHANGED <<reply, result, store>>
  /\ UNCHANGED <<req, called, Unanswered>>

Planned(x) == Calls(route[x], req[x].query)
NextCallIsPossible(x) == Possible(Planned(x)[called[x] + 1], req[x].query, ToolRoles(req[x]))

(* A tool call that is not the last one returned.                          *)
ToolReturns(x) ==
  /\ pc[x] = "agent"
  /\ LoopFree
  /\ called[x] + 1 < Len(Planned(x))
  /\ NextCallIsPossible(x)
  /\ called' = [called EXCEPT ![x] = @ + 1]
  /\ UNCHANGED <<pc, reply, req, route, result, store, Unanswered>>

(* The specialist has all it called for, or nothing to call.               *)
Conclude(x, hits) ==
  /\ pc[x] = "agent"
  /\ LoopFree
  /\ \/ Planned(x) = <<>> /\ UNCHANGED called
     \/ /\ called[x] + 1 = Len(Planned(x))
        /\ NextCallIsPossible(x)
        /\ called' = [called EXCEPT ![x] = @ + 1]
  /\ hits \subseteq Retrievable(ToolRoles(req[x]))
  /\ Settle(x, Concluded(route[x], req[x].query, FALSE, hits))
  /\ UNCHANGED <<req, route, Unanswered>>

(* A call failed (MCPGatewayError), or the specialist raised.              *)
ConcludeFailed(x) ==
  /\ pc[x] = "agent"
  /\ LoopFree
  /\ \/ /\ Planned(x) # <<>>
        /\ Settle(x, Concluded(route[x], req[x].query, TRUE, {}))
     \/ Settle(x, SpecialistFailed)
  /\ UNCHANGED <<req, route, called, Unanswered>>

-----------------------------------------------------------------------------
(* The store, while the loop is blocked, and a request it left in limbo.    *)
StoreStep(x) ==
  /\ pc[x] = "store"
  /\ Store!Open(x)
  /\ Store!Succeed(x) \/ Store!Raise(x)
  /\ UNCHANGED <<pc, reply, work, Unanswered>>

StoreEnds(x) == StoreStep(x) /\ ~ Store!Open(x)'

StoreLate ==
  /\ \E r \in limbo : Store!Late(r)
  /\ UNCHANGED <<pc, reply, work, Unanswered>>

(* create_pending returned, or raised through the handler.                 *)
Resume(x) ==
  /\ pc[x] = "store"
  /\ \E s \in (IF call[x].answer = "ok" THEN {200} ELSE Raised) : Respond(x, s)
  /\ Store!Return(x)
  /\ UNCHANGED <<work, Unanswered>>

-----------------------------------------------------------------------------
StopTimer(x) == overdue' = [overdue EXCEPT ![x] = FALSE]

Answer(x, s) == status' = [status EXCEPT ![x] = s]

(* Bugs for the runs to catch: a late response counted as well, and a      *)
(* timeout around the dependencies alone, not what the handler awaits.     *)
CountAgain(x, s) == counted' = [counted EXCEPT ![x] = Append(@, s)]
EarlyOverdue(x) == overdue[x] /\ pc[x] = "dependencies"

(* An exception leaves dispatch before the counter: ServerErrorMiddleware  *)
(* answers 500 around it.                                                  *)
Count(x, s) ==
  counted' = IF s = 500 \/ status[x] # 0 THEN counted ELSE [counted EXCEPT ![x] = Append(@, s)]

(* The response leaves; after a 504 it is dropped.                         *)
Deliver(x) ==
  /\ pc[x] = "response"
  /\ LoopFree
  /\ Goto(x, "done")
  /\ IF status[x] = 0 THEN Answer(x, reply[x]) ELSE UNCHANGED status
  /\ Count(x, reply[x])
  /\ StopTimer(x)
  /\ reply' = [reply EXCEPT ![x] = 0]
  /\ UNCHANGED <<settings, work, store>>

Expire(x) ==
  /\ pc[x] \notin {"new", "done"}
  /\ status[x] = 0 /\ ~ overdue[x]
  /\ overdue' = [overdue EXCEPT ![x] = TRUE]
  /\ UNCHANGED <<settings, pc, work, reply, status, counted, store>>

TimerFires(x) == overdue[x]

TimeOut(x) ==
  /\ TimerFires(x)
  /\ LoopFree
  /\ pc[x] # "done" /\ status[x] = 0
  /\ Answer(x, 504)
  /\ Count(x, 504)
  /\ StopTimer(x)
  /\ UNCHANGED <<settings, pc, work, reply, store>>

Handle(x) ==
  \/ \E limited \in BOOLEAN : Refuse(x, limited)
  \/ Inform(x) \/ AskModel(x) \/ Retrieved(x) \/ ModelEnds(x)
  \/ \E node \in Domain \cup {"human_review"} : Investigate(x, node)
  \/ ToolReturns(x) \/ ConcludeFailed(x)
  \/ \E hits \in SUBSET Hit : Conclude(x, hits)

Next ==
  \/ \E x \in Exchange :
       \/ \E r \in Requests[x] : Arrive(x, r)
       \/ Handle(x) \/ StoreStep(x) \/ Resume(x)
       \/ Deliver(x) \/ Expire(x) \/ TimeOut(x)
  \/ StoreLate

Spec == Init /\ [][Next]_vars

(* Time passes, the loop runs what is ready, and the store's driver ends   *)
(* its calls; nothing is assumed of handlers, tools and models.            *)
FairSpec ==
  /\ Spec
  /\ \A x \in Exchange : WF_vars(StoreEnds(x)) /\ WF_vars(Resume(x))
  /\ \A x \in Exchange : WF_vars(Expire(x)) /\ WF_vars(TimeOut(x))
-----------------------------------------------------------------------------
TypeOK ==
  /\ settings \in Configurations
  /\ pc \in [Exchange -> {"new", "dependencies", "retrieval", "model", "agent", "store", "response", "done"}]
  /\ \A x \in Exchange : req[x] \in Requests[x] \cup {NoRequest}
  /\ route \in [Exchange -> Domain \cup {"human_review"}]
  /\ called \in [Exchange -> 0..2]
  /\ \A x \in Exchange : result[x] # NoResult => result[x] \in Result
  /\ reply \in [Exchange -> {0, 200, 400, 401, 403, 422, 429, 500, 503, 504}]
  /\ overdue \in [Exchange -> BOOLEAN]
  /\ status \in [Exchange -> {0, 200, 400, 401, 403, 413, 422, 429, 500, 503, 504}]
  /\ counted \in [Exchange -> Seq(400..504 \cup {200})]
  /\ Store!TypeOK

Stored(x)  == approvals[x] # Store!Absent
Pending(x) == \E r \in limbo : r.id = x

(* What the client of an investigation was told is what the store holds:   *)
(* after 200 there is an approval, of the caller's tenant, exactly when    *)
(* the result asks for one; after a refusal no tool was called and no      *)
(* approval exists or can still appear.  An approval its client does not   *)
(* know of is possible, after 504 and after 500 (middleware.py 58-65,      *)
(* app.py 229-237), and only for a result that asks for one.  A            *)
(* consequential action never reaches a tool (mock.py 28-34).              *)
AnswersTellTheTruth ==
  \A x \in Exchange :
    LET r == req[x] IN
    /\ status[x] = 200 /\ r.endpoint \in Investigations => (Stored(x) <=> result[x].approval)
    /\ Stored(x) \/ Pending(x) =>
         /\ r.endpoint \in Investigations /\ result[x].approval
         /\ status[x] \in {0, 200, 500, 504}
    /\ Stored(x) => approvals[x].tenant = TenantFor(r) /\ approvals[x].status = "pending"
    /\ status[x] \in 400..499 => called[x] = 0 /\ result[x] = NoResult
    /\ status[x] # 0 /\ r.endpoint \in Investigations /\ Consequential(r.query) =>
         called[x] = 0 /\ (result[x] # NoResult => result[x].approval)

(* HTTP_REQUESTS counts an exchange at most once and as the status its     *)
(* client got, however the timer races the response; what it never counts  *)
(* is 413 and an exception's 500 (middleware.py 48-71).                    *)
CountsTellTheTruth ==
  \A x \in Exchange :
    /\ counted[x] # <<>> => counted[x] = <<status[x]>>
    /\ counted[x] = <<>> => status[x] \in {0, 413, 500}

(* Every exchange is answered, whatever its handler waits for and although *)
(* create_pending blocks the loop and its timers (postgres.py 142,         *)
(* middleware.py 58-65).                                                   *)
EveryExchangeIsAnswered == \A x \in Exchange : pc[x] # "new" ~> status[x] # 0
=============================================================================
