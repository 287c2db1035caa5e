------------------------- MODULE RequestPathProofs -------------------------
(***************************************************************************)
(* Proofs about RequestPath, Identity and Workflow, for every set of       *)
(* exchanges, requests, configurations, tenants and records: what a        *)
(* principal, a review and a skill may name, that every request is counted *)
(* once, that the state is well formed, and that a response tells the      *)
(* truth about the run it ends.                                            *)
(*                                                                         *)
(* The last part shows that the path is a client of the store's contract,  *)
(* that nothing a client was told is taken back, and how many steps an     *)
(* exchange has left.                                                      *)
(***************************************************************************)
EXTENDS RequestPath, FiniteSetTheorems, TLAPS

(* In a deployed environment with accepted settings, a principal is one    *)
(* verified token: it names exactly one tenant, the request acts for that  *)
(* tenant whatever its headers say, and no tenant's name is left among the *)
(* principal's roles (config.py 85-103, auth.py 79-118, jwt_identity.py    *)
(* 98-130).                                                                *)
THEOREM DeployedIdentityIsTheTokens ==
  ASSUME NEW s, Accepted(s), s.app_env \in Deployed,
         NEW c, PrincipalStatus(s, c) = 200
  PROVE  /\ c.token.verified
         /\ c.token.claim \cap Tenant = {TenantOf(s, c)}
         /\ Principal(s, c).subject = c.token.subject
         /\ Principal(s, c).roles \cap Tenant = {}
         /\ TenantStatus(s, c) = 200
<1>1. ~ Headers(s) /\ s.jwt
  BY DEF Headers, Accepted, Deployed
<1>2. Resolves(c.token)
  BY <1>1 DEF PrincipalStatus
<1>3. IsFiniteSet(TenantMatches(c.token))
  BY BundlesAreValid, FS_Subset DEF TenantMatches
<1>4. Cardinality(TenantMatches(c.token)) = 1
  BY <1>2 DEF Resolves
<1>5. \E t : TenantMatches(c.token) = {t}
  BY <1>3, <1>4, FS_Singleton
<1>6. PICK t : TenantMatches(c.token) = {t}
  BY <1>5
<1>7. t \in Tenant
  BY <1>6 DEF TenantMatches
<1>8. TenantOf(s, c) = t
  BY <1>1, <1>6, <1>7 DEF TenantOf
<1> QED
  BY <1>1, <1>2, <1>6, <1>7, <1>8, NothingIsNoName
     DEF Resolves, TenantMatches, Principal, TenantStatus

-----------------------------------------------------------------------------
(* A query for a consequential action goes to human review even if the     *)
(* classifier fails, and the result asks for an approval and shows no      *)
(* evidence; so does every other result that asks for one (mock.py 28-34,  *)
(* supervisor.py 54-77, operations.py 93-135).                             *)
THEOREM ReviewsShowNothing ==
  ASSUME NEW q, NEW node \in Routes(q), NEW failed \in BOOLEAN, NEW found
  PROVE  LET res == Concluded(node, q, failed, found) IN
         /\ Consequential(q) => node = "human_review" /\ res.approval
         /\ res.approval => res.evidence = {}
<1>1. Consequential(q) => node = "human_review"
  BY DEF Routes, Route
<1>2. Concluded("human_review", q, failed, found).approval
  BY DEF Concluded, Review
<1>3. CASE node = "human_review"
  BY <1>1, <1>2, <1>3 DEF Concluded, Review
<1>4. CASE node = "customer"
  BY <1>1, <1>4 DEF Concluded, CustomerResult, Asks, Review, Found
<1>5. CASE node = "payments"
  BY <1>1, <1>5 DEF Concluded, PaymentsResult, Asks, Review, Found
<1>6. CASE node = "policy"
  BY <1>1, <1>6 DEF Concluded, PolicyResult, Asks, Review, Found
<1>7. CASE node \notin {"human_review", "customer", "payments", "policy"}
  BY <1>1, <1>7 DEF Concluded, Review
<1> QED
  BY <1>3, <1>4, <1>5, <1>6, <1>7

(* Two tables that are kept by hand agree: the tools the skill registry    *)
(* approves for an agent are those the tool gateway registers for it.  So  *)
(* whatever skills GET /skills shows a tenant, none names a tool that the  *)
(* gateway would deny its agent (skills/registry.py 9-38,                  *)
(* mcp_boundary/factory.py 54-93, gateway/app.py 262-270).                 *)
THEOREM SkillsNameOwnTools ==
  ASSUME NEW definitions, RegistryAccepts(definitions), NEW allowed,
         NEW d \in ListedSkills(definitions, allowed), d.agent \in Domain
  PROVE  d.allowed_tools \subseteq ToolsOf(d.agent)
<1>1. ApprovedTools[d.agent] = ToolsOf(d.agent)
  BY DEF ApprovedTools, ToolsOf, ToolAgent, Tool, Domain
<1> QED
  BY <1>1 DEF RegistryAccepts, ListedSkills

-----------------------------------------------------------------------------
(* A new exchange has no timer; before its end an exchange has no status    *)
(* but 504, and nothing is counted of it before it has one.                *)
TablesArePerExchange ==
  /\ pc = [x \in Exchange |-> pc[x]]
  /\ status = [x \in Exchange |-> status[x]]
  /\ counted = [x \in Exchange |-> counted[x]]
  /\ overdue = [x \in Exchange |-> overdue[x]]

Uncounted(x) ==
  /\ pc[x] = "new" => status[x] = 0 /\ ~ overdue[x]
  /\ pc[x] # "done" => status[x] \in {0, 504} /\ (status[x] = 0 => counted[x] = <<>>)

Truth(x) ==
  /\ counted[x] # <<>> => counted[x] = <<status[x]>>
  /\ counted[x] = <<>> => status[x] \in {0, 413, 500}

CountsIInv == TablesArePerExchange /\ \A x \in Exchange : Uncounted(x) /\ Truth(x)

(* Every other action leaves status, counter and timer alone.              *)
Busy == {"dependencies", "retrieval", "model", "agent", "store", "response"}

Elsewhere(x) ==
  /\ UNCHANGED <<status, counted, overdue>>
  /\ UNCHANGED pc \/ (pc[x] \notin {"new", "done"} /\ \E next \in Busy : pc' = [pc EXCEPT ![x] = next])

(* No handler's step answers, counts or times out a request: only the      *)
(* middleware around it does (middleware.py 41-84).                        *)
LEMMA HandlingIsElsewhere ==
  ASSUME NEW x \in Exchange, Handle(x) PROVE Elsewhere(x)
<1> USE DEF Elsewhere, Unanswered, Respond, Goto, Busy
<1>1. ASSUME NEW limited, Refuse(x, limited) PROVE Elsewhere(x)
  BY <1>1 DEF Refuse
<1>2. CASE Inform(x)
  BY <1>2 DEF Inform, Admitted
<1>3. CASE AskModel(x)
  <2>1. pc[x] = "dependencies" /\ UNCHANGED <<status, counted, overdue>>
    BY <1>3 DEF AskModel, Admitted
  <2>2. \E next \in Busy : pc' = [pc EXCEPT ![x] = next]
    BY <1>3 DEF AskModel
  <2> QED
    BY <2>1, <2>2
<1>4. CASE Retrieved(x)
  BY <1>4 DEF Retrieved
<1>5. CASE ModelEnds(x)
  BY <1>5 DEF ModelEnds
<1>6. ASSUME NEW res, Settle(x, res) PROVE \E next \in Busy : pc' = [pc EXCEPT ![x] = next]
  BY <1>6 DEF Settle
<1>7. ASSUME NEW node, Investigate(x, node) PROVE Elsewhere(x)
  <2>1. pc[x] = "dependencies" /\ UNCHANGED <<status, counted, overdue>>
    BY <1>7 DEF Investigate, Admitted
  <2>2. \E next \in Busy : pc' = [pc EXCEPT ![x] = next]
    BY <1>6, <1>7 DEF Investigate
  <2> QED
    BY <2>1, <2>2
<1>8. CASE ToolReturns(x)
  BY <1>8 DEF ToolReturns
<1>9. CASE ConcludeFailed(x)
  BY <1>6, <1>9 DEF ConcludeFailed
<1>10. ASSUME NEW found, Conclude(x, found) PROVE Elsewhere(x)
  BY <1>6, <1>10 DEF Conclude
<1> QED
  BY <1>1, <1>2, <1>3, <1>4, <1>5, <1>7, <1>8, <1>9, <1>10 DEF Handle

(* What an action does to its own exchange decides: the others keep theirs. *)
LEMMA OneAtATime ==
  ASSUME CountsIInv, NEW x \in Exchange, NEW p, NEW s, NEW c, NEW o,
         pc' = [pc EXCEPT ![x] = p], status' = [status EXCEPT ![x] = s],
         counted' = [counted EXCEPT ![x] = c], overdue' = [overdue EXCEPT ![x] = o],
         p = "new" => s = 0 /\ ~ o,
         p # "done" => s \in {0, 504} /\ (s = 0 => c = <<>>),
         c # <<>> => c = <<s>>,
         c = <<>> => s \in {0, 413, 500}
  PROVE  CountsIInv'
<1>1. TablesArePerExchange /\ \A y \in Exchange : Uncounted(y) /\ Truth(y)
  BY DEF CountsIInv
<1>2. TablesArePerExchange'
  BY <1>1 DEF TablesArePerExchange
<1>3. /\ pc'[x] = p /\ status'[x] = s /\ counted'[x] = c /\ overdue'[x] = o
      /\ \A y \in Exchange \ {x} :
           pc'[y] = pc[y] /\ status'[y] = status[y] /\ counted'[y] = counted[y] /\ overdue'[y] = overdue[y]
  BY <1>1 DEF TablesArePerExchange
<1>4. (Uncounted(x) /\ Truth(x))'
  BY <1>3 DEF Uncounted, Truth
<1>5. \A y \in Exchange \ {x} : (Uncounted(y) /\ Truth(y))'
  BY <1>1, <1>3 DEF Uncounted, Truth
<1> QED
  BY <1>2, <1>4, <1>5 DEF CountsIInv

(* Every step leaves each request counted at most once, with the status it *)
(* was answered with (middleware.py 48-84).                                *)
LEMMA CountsStep == CountsIInv /\ [Next]_vars => CountsIInv'
<1> SUFFICES ASSUME CountsIInv, [Next]_vars PROVE CountsIInv'
  OBVIOUS
<1>0. /\ TablesArePerExchange
      /\ \A x \in Exchange :
           /\ Uncounted(x) /\ Truth(x)
           /\ pc = [pc EXCEPT ![x] = pc[x]] /\ status = [status EXCEPT ![x] = status[x]]
           /\ counted = [counted EXCEPT ![x] = counted[x]] /\ overdue = [overdue EXCEPT ![x] = overdue[x]]
  BY DEF CountsIInv, TablesArePerExchange
<1>a. \A s : Append(<<>>, s) = <<s>>
  OBVIOUS
<1>1. ASSUME NEW x \in Exchange, Elsewhere(x) PROVE CountsIInv'
  <2>1. PICK next \in Busy \cup {pc[x]} : pc' = [pc EXCEPT ![x] = next]
    BY <1>0, <1>1 DEF Elsewhere
  <2>2. /\ status' = [status EXCEPT ![x] = status[x]]
        /\ counted' = [counted EXCEPT ![x] = counted[x]]
        /\ overdue' = [overdue EXCEPT ![x] = overdue[x]]
    BY <1>0, <1>1 DEF Elsewhere
  <2>3. next = pc[x] \/ (pc[x] \notin {"new", "done"} /\ next \in Busy)
    BY <1>0, <1>1, <2>1 DEF Elsewhere, TablesArePerExchange
  <2>4. /\ next = "new" => status[x] = 0 /\ ~ overdue[x]
        /\ next # "done" => status[x] \in {0, 504} /\ (status[x] = 0 => counted[x] = <<>>)
    BY <1>0, <2>3 DEF Uncounted, Busy
  <2>5. /\ counted[x] # <<>> => counted[x] = <<status[x]>>
        /\ counted[x] = <<>> => status[x] \in {0, 413, 500}
    BY <1>0 DEF Truth
  <2> DEFINE st == status[x]
             co == counted[x]
             ov == overdue[x]
  <2>6. /\ status' = [status EXCEPT ![x] = st]
        /\ counted' = [counted EXCEPT ![x] = co] /\ overdue' = [overdue EXCEPT ![x] = ov]
    BY <2>2
  <2>7. /\ next = "new" => st = 0 /\ ~ ov
        /\ next # "done" => st \in {0, 504} /\ (st = 0 => co = <<>>)
        /\ co # <<>> => co = <<st>>
        /\ co = <<>> => st \in {0, 413, 500}
    BY <2>4, <2>5
  <2> HIDE DEF st, co, ov
  <2> QED
    BY <2>1, <2>6, <2>7, OneAtATime, Zenon
<1>2. CASE UNCHANGED <<pc, status, counted, overdue>>
  BY <1>2 DEF CountsIInv, TablesArePerExchange, Uncounted, Truth
<1>3. ASSUME NEW x \in Exchange, NEW r, Arrive(x, r) PROVE CountsIInv'
  <2>1. status[x] = 0 /\ counted[x] = <<>> /\ ~ overdue[x]
    BY <1>0, <1>3 DEF Arrive, Uncounted
  <2> PICK none, ov : none = <<>> /\ ov = overdue[x]
    OBVIOUS
  <2>2. counted' = [counted EXCEPT ![x] = none] /\ overdue' = [overdue EXCEPT ![x] = ov]
    BY <1>0, <1>3, <2>1 DEF Arrive
  <2>3. CASE r.oversized
    <3>1. pc' = [pc EXCEPT ![x] = "done"] /\ status' = [status EXCEPT ![x] = 413]
      BY <1>3, <2>3 DEF Arrive, Goto
    <3> QED
      BY <2>2, <3>1, OneAtATime
  <2>4. CASE ~ r.oversized
    <3>1. pc' = [pc EXCEPT ![x] = "dependencies"] /\ status' = [status EXCEPT ![x] = 0]
      BY <1>0, <1>3, <2>1, <2>4 DEF Arrive, Goto
    <3> QED
      BY <2>2, <3>1, OneAtATime
  <2> QED
    BY <2>3, <2>4
<1>4. ASSUME NEW x \in Exchange, Handle(x) PROVE CountsIInv'
  BY <1>1, <1>4, HandlingIsElsewhere
<1>5. ASSUME NEW x \in Exchange, StoreStep(x) PROVE CountsIInv'
  BY <1>2, <1>5 DEF StoreStep, Unanswered
<1>6. ASSUME NEW x \in Exchange, Resume(x) PROVE CountsIInv'
  BY <1>1, <1>6 DEF Resume, Unanswered, Respond, Goto, Elsewhere, Busy
<1>7. ASSUME NEW x \in Exchange, Deliver(x) PROVE CountsIInv'
  <2>1. pc' = [pc EXCEPT ![x] = "done"] /\ overdue' = [overdue EXCEPT ![x] = FALSE]
    BY <1>7 DEF Deliver, Goto, StopTimer
  <2>2. CASE status[x] = 0
    <3>1. counted[x] = <<>>
      BY <1>0, <1>7, <2>2 DEF Deliver, Uncounted
    <3>2. status' = [status EXCEPT ![x] = reply[x]]
      BY <1>7, <2>2 DEF Deliver, Answer
    <3>3. CASE reply[x] = 500
      <4>1. counted' = [counted EXCEPT ![x] = <<>>]
        BY <1>0, <1>7, <3>1, <3>3 DEF Deliver, Count
      <4> QED
        BY <2>1, <3>2, <3>3, <4>1, OneAtATime
    <3>4. CASE reply[x] # 500
      <4>1. counted' = [counted EXCEPT ![x] = <<reply[x]>>]
        BY <1>a, <1>7, <2>2, <3>1, <3>4 DEF Deliver, Count
      <4> QED
        BY <2>1, <3>2, <4>1, OneAtATime
    <3> QED
      BY <3>3, <3>4
  <2>3. CASE status[x] # 0
    <3>1. status' = [status EXCEPT ![x] = status[x]] /\ counted' = [counted EXCEPT ![x] = counted[x]]
      BY <1>0, <1>7, <2>3 DEF Deliver, Count
    <3>2. /\ counted[x] # <<>> => counted[x] = <<status[x]>>
          /\ counted[x] = <<>> => status[x] \in {0, 413, 500}
      BY <1>0 DEF Truth
    <3> DEFINE st == status[x]
               co == counted[x]
    <3>3. status' = [status EXCEPT ![x] = st] /\ counted' = [counted EXCEPT ![x] = co]
      BY <3>1
    <3>4. (co # <<>> => co = <<st>>) /\ (co = <<>> => st \in {0, 413, 500})
      BY <3>2
    <3> HIDE DEF st, co
    <3> QED
      BY <2>1, <3>3, <3>4, OneAtATime
  <2> QED
    BY <2>2, <2>3
<1>8. ASSUME NEW x \in Exchange, Expire(x) PROVE CountsIInv'
  <2>1. /\ pc' = [pc EXCEPT ![x] = pc[x]] /\ status' = [status EXCEPT ![x] = status[x]]
        /\ counted' = [counted EXCEPT ![x] = counted[x]] /\ overdue' = [overdue EXCEPT ![x] = TRUE]
        /\ pc[x] # "new"
    BY <1>0, <1>8 DEF Expire
  <2>2. /\ pc[x] # "done" => status[x] \in {0, 504} /\ (status[x] = 0 => counted[x] = <<>>)
        /\ counted[x] # <<>> => counted[x] = <<status[x]>>
        /\ counted[x] = <<>> => status[x] \in {0, 413, 500}
    BY <1>0 DEF Uncounted, Truth
  <2> DEFINE p == pc[x]
             st == status[x]
             co == counted[x]
             ov == TRUE
  <2>3. /\ pc' = [pc EXCEPT ![x] = p] /\ status' = [status EXCEPT ![x] = st]
        /\ counted' = [counted EXCEPT ![x] = co] /\ overdue' = [overdue EXCEPT ![x] = ov]
    BY <2>1
  <2>4. /\ p = "new" => st = 0 /\ ~ ov
        /\ p # "done" => st \in {0, 504} /\ (st = 0 => co = <<>>)
        /\ co # <<>> => co = <<st>>
        /\ co = <<>> => st \in {0, 413, 500}
    BY <2>1, <2>2
  <2> HIDE DEF p, st, co, ov
  <2> QED
    BY <2>3, <2>4, OneAtATime, Zenon
<1>9. ASSUME NEW x \in Exchange, TimeOut(x) PROVE CountsIInv'
  <2>1. pc[x] \notin {"new", "done"} /\ status[x] = 0 /\ counted[x] = <<>>
    BY <1>0, <1>9 DEF TimeOut, TimerFires, Uncounted
  <2>2. /\ pc' = [pc EXCEPT ![x] = pc[x]] /\ status' = [status EXCEPT ![x] = 504]
        /\ overdue' = [overdue EXCEPT ![x] = FALSE]
    BY <1>0, <1>9 DEF TimeOut, Answer, StopTimer
  <2>3. counted' = [counted EXCEPT ![x] = <<504>>]
    BY <1>a, <1>9, <2>1 DEF TimeOut, Count
  <2> DEFINE p == pc[x]
             s == 504
             c == <<504>>
             o == FALSE
  <2>4. /\ pc' = [pc EXCEPT ![x] = p] /\ status' = [status EXCEPT ![x] = s]
        /\ counted' = [counted EXCEPT ![x] = c] /\ overdue' = [overdue EXCEPT ![x] = o]
    BY <2>2, <2>3
  <2>5. /\ p = "new" => s = 0 /\ ~ o
        /\ p # "done" => s \in {0, 504} /\ (s = 0 => c = <<>>)
        /\ c # <<>> => c = <<s>>
        /\ c = <<>> => s \in {0, 413, 500}
    BY <2>1
  <2> HIDE DEF p, s, c, o
  <2> QED
    BY <2>4, <2>5, OneAtATime, Zenon
<1>10. CASE StoreLate
  BY <1>2, <1>10 DEF StoreLate, Unanswered
<1>11. CASE UNCHANGED vars
  BY <1>2, <1>11 DEF vars
<1> QED
  BY <1>3, <1>4, <1>5, <1>6, <1>7, <1>8, <1>9, <1>10, <1>11 DEF Next

(* HTTP_REQUESTS counts an exchange at most once and as the status its     *)
(* client got, however its timer races its response, and misses nothing    *)
(* but 413 and the 500 of an exception (middleware.py 48-71).              *)
THEOREM CountsAreTrue == Spec => []CountsTellTheTruth
<1>1. Init => CountsIInv
  BY DEF Init, CountsIInv, TablesArePerExchange, Uncounted, Truth
<1>2. CountsIInv => CountsTellTheTruth
  BY DEF CountsIInv, Truth, CountsTellTheTruth
<1> QED
  BY <1>1, <1>2, CountsStep, PTL DEF Spec

-----------------------------------------------------------------------------
(* What a client may be told: 200 only of an approval that is stored, a    *)
(* refusal only if nothing was done, and nothing but 500 and 504 of an     *)
(* approval it does not know of.                                           *)
Investigates(x) == req[x].endpoint \in Investigations

MayTell(x, s) ==
  /\ s \in 400..499 => called[x] = 0 /\ result[x] = NoResult
  /\ s = 200 /\ Investigates(x) => (result[x].approval => Stored(x))
  /\ Stored(x) \/ Pending(x) => s \in {0, 200, 500, 504}

(* How far a handler can have come.                                        *)
Early == {"new", "dependencies", "retrieval", "model"}

AgentIsSound(x) ==
  LET r == req[x] IN
  /\ Investigates(x) /\ ~ Consequential(r.query) /\ TenantFor(r) \in Tenant
  /\ route[x] \in Domain /\ result[x] = NoResult
  /\ called[x] # 0 =>
       called[x] = 1 /\ route[x] = "customer" /\ r.query.customer \in DOMAIN Accounts

HandlingIsSound(x) ==
  /\ pc[x] # "new" => req[x] \in Requests[x]
  /\ pc[x] \in Early => called[x] = 0 /\ result[x] = NoResult
  /\ pc[x] = "response" <=> reply[x] # 0
  /\ pc[x] \in {"retrieval", "model"} => ~ Investigates(x)
  /\ pc[x] = "agent" => AgentIsSound(x)
  /\ pc[x] # "new" /\ Investigates(x) /\ Consequential(req[x].query) =>
       called[x] = 0 /\ (result[x] # NoResult => result[x].approval)
  /\ MayTell(x, status[x]) /\ MayTell(x, reply[x])

(* What an exchange has in the store is the approval its result asks for.  *)
At(r, answer, row) == [op |-> "call", request |-> r, answer |-> answer, row |-> row]

StoreIsSound(x) ==
  /\ Stored(x) \/ Pending(x) \/ pc[x] = "store" =>
       /\ pc[x] \in {"store", "response", "done"} /\ Investigates(x)
       /\ result[x].approval /\ TenantFor(req[x]) \in Tenant
  /\ Stored(x) => approvals[x] = Store!Pending(Creation(x))
  /\ \A q \in limbo : q.id = x => q = Creation(x)
  /\ pc[x] # "store" => call[x] = Store!NoCall
  /\ pc[x] = "store" =>
       \E answer \in {"open", "ok", "error"}, row \in Store!Row :
         call[x] = At(Creation(x), answer, row) /\ (answer = "ok" => Stored(x))

WorkIsPerExchange ==
  /\ req = [x \in Exchange |-> req[x]]
  /\ result = [x \in Exchange |-> result[x]]

IInv ==
  /\ TypeOK /\ CountsIInv /\ WorkIsPerExchange
  /\ \A x \in Exchange : HandlingIsSound(x) /\ StoreIsSound(x)

-----------------------------------------------------------------------------
(* A step of one exchange leaves the others theirs, in the store as well.  *)
Same(y) ==
  /\ pc'[y] = pc[y] /\ req'[y] = req[y] /\ route'[y] = route[y] /\ called'[y] = called[y]
  /\ result'[y] = result[y] /\ reply'[y] = reply[y] /\ status'[y] = status[y]
  /\ approvals'[y] = approvals[y] /\ call'[y] = call[y]
  /\ \A q : q.id = y => (q \in limbo' <=> q \in limbo)

(* The tenant of a request is fixed by the settings the process started    *)
(* with (auth.py 124-145).                                                 *)
LEMMA TenantIsFixed ==
  ASSUME settings' = settings
  PROVE  /\ \A r : TenantFor(r)' = TenantFor(r)
         /\ \A y : req'[y] = req[y] => Creation(y)' = Creation(y)
<1>1. \A r : TenantFor(r)' = TenantFor(r)
  BY DEF TenantFor
<1> QED
  BY <1>1 DEF Creation, TenantFor

(* What is true of an exchange is not disturbed by another's step.         *)
LEMMA SameStaysSound ==
  ASSUME NEW y \in Exchange, HandlingIsSound(y), StoreIsSound(y), Same(y), settings' = settings
  PROVE  HandlingIsSound(y)' /\ StoreIsSound(y)'
<1> PICK r, made : r = req[y] /\ made = Creation(y)
  OBVIOUS
<1>1. /\ pc'[y] = pc[y] /\ req'[y] = r /\ route'[y] = route[y] /\ called'[y] = called[y]
      /\ result'[y] = result[y] /\ reply'[y] = reply[y] /\ status'[y] = status[y]
      /\ approvals'[y] = approvals[y] /\ call'[y] = call[y]
      /\ \A q : q.id = y => (q \in limbo' <=> q \in limbo)
  BY DEF Same
<1>2. TenantFor(r)' = TenantFor(r) /\ Creation(y)' = made
  BY <1>1, TenantIsFixed
<1>3. (Stored(y)' <=> Stored(y)) /\ (Pending(y)' <=> Pending(y)) /\ (Investigates(y)' <=> Investigates(y))
  BY <1>1 DEF Stored, Pending, Investigates
<1>4. \A s : MayTell(y, s)' <=> MayTell(y, s)
  BY <1>1, <1>3 DEF MayTell
<1>5. AgentIsSound(y)' <=> AgentIsSound(y)
  BY <1>1, <1>2, <1>3 DEF AgentIsSound
<1>6. MayTell(y, status[y])' /\ MayTell(y, reply[y])'
  <2> PICK st, re : st = status[y] /\ re = reply[y]
    OBVIOUS
  <2>1. MayTell(y, st) /\ MayTell(y, re) /\ status'[y] = st /\ reply'[y] = re
    BY <1>1 DEF HandlingIsSound
  <2> QED
    BY <1>4, <2>1 DEF MayTell
<1>7. HandlingIsSound(y)'
  BY <1>1, <1>3, <1>5, <1>6 DEF HandlingIsSound
<1>8. StoreIsSound(y)'
  BY <1>1, <1>2, <1>3 DEF StoreIsSound
<1> QED
  BY <1>7, <1>8

(* So a step is sound if it is sound for its own exchange.                 *)
Only(x, f, g) ==
  g = [y \in Exchange |-> g[y]] /\ \A y \in Exchange \ {x} : g[y] = f[y]

OnlyHandling(x) ==
  /\ Only(x, pc, pc') /\ Only(x, req, req') /\ Only(x, route, route') /\ Only(x, called, called')
  /\ Only(x, result, result') /\ Only(x, reply, reply') /\ Only(x, overdue, overdue')
  /\ Only(x, status, status') /\ Only(x, counted, counted')

OnlyStore(x) ==
  /\ Store!TypeOK'
  /\ \A y \in Exchange \ {x} :
       /\ approvals'[y] = approvals[y] /\ call'[y] = call[y]
       /\ \A q : q.id = y => (q \in limbo' <=> q \in limbo)

Place == {"new", "dependencies", "retrieval", "model", "agent", "store", "response", "done"}
Counts == Seq(400..504 \cup {200})
Said  == {0, 200, 400, 401, 403, 422, 429, 500, 503, 504}

IsTyped(x) ==
  /\ pc[x] \in Place /\ req[x] \in Requests[x] \cup {NoRequest}
  /\ route[x] \in Domain \cup {"human_review"} /\ called[x] \in 0..2
  /\ result[x] # NoResult => result[x] \in Result
  /\ reply[x] \in Said /\ overdue[x] \in BOOLEAN
  /\ status[x] \in Said \cup {413} /\ counted[x] \in Counts

(* What a counter holds are statuses (middleware.py 67-71).                *)
LEMMA AppendsStatus ==
  ASSUME NEW c \in Counts, NEW s \in Said \ {0}
  PROVE  Append(c, s) \in Counts
<1> PICK S : S = 400..504 \cup {200}
  OBVIOUS
<1>1. s \in S
  BY DEF Said
<1>2. c \in Seq(S)
  BY DEF Counts
<1> QED
  BY <1>1, <1>2 DEF Counts

(* What a single exchange does to the tables and to the store is all that  *)
(* has to be looked at (middleware.py 41-84).                              *)
LEMMA OneExchangeAtATime ==
  ASSUME IInv, [Next]_vars, NEW x \in Exchange, settings' = settings,
         OnlyHandling(x), OnlyStore(x),
         IsTyped(x)', HandlingIsSound(x)', StoreIsSound(x)'
  PROVE  IInv'
<1>1. CountsIInv'
  BY CountsStep DEF IInv
<1>2. ASSUME NEW y \in Exchange \ {x} PROVE Same(y)
  BY DEF OnlyHandling, OnlyStore, Only, Same
<1>3. \A y \in Exchange \ {x} : HandlingIsSound(y)' /\ StoreIsSound(y)'
  BY <1>2, SameStaysSound DEF IInv
<1>4. TypeOK'
  <2>1. \A y \in Exchange : IsTyped(y)
    BY DEF IInv, TypeOK, IsTyped, Place, Said, Counts
  <2>2. ASSUME NEW y \in Exchange PROVE IsTyped(y)'
    <3>1. CASE y = x
      BY <3>1
    <3>2. CASE y # x
      <4>1. /\ pc'[y] = pc[y] /\ req'[y] = req[y] /\ route'[y] = route[y] /\ called'[y] = called[y]
            /\ result'[y] = result[y] /\ reply'[y] = reply[y] /\ overdue'[y] = overdue[y]
            /\ status'[y] = status[y] /\ counted'[y] = counted[y]
        BY <3>2 DEF OnlyHandling, Only
      <4> QED
        BY <2>1, <4>1 DEF IsTyped
    <3> QED
      BY <3>1, <3>2
  <2>3. /\ pc' = [y \in Exchange |-> pc'[y]] /\ route' = [y \in Exchange |-> route'[y]]
        /\ called' = [y \in Exchange |-> called'[y]] /\ reply' = [y \in Exchange |-> reply'[y]]
        /\ overdue' = [y \in Exchange |-> overdue'[y]] /\ status' = [y \in Exchange |-> status'[y]]
        /\ counted' = [y \in Exchange |-> counted'[y]]
    BY DEF OnlyHandling, Only
  <2>4. pc' \in [Exchange -> Place] /\ route' \in [Exchange -> Domain \cup {"human_review"}]
    BY <2>2, <2>3 DEF IsTyped
  <2>5. called' \in [Exchange -> 0..2] /\ overdue' \in [Exchange -> BOOLEAN]
    BY <2>2, <2>3 DEF IsTyped
  <2>6. reply' \in [Exchange -> Said] /\ status' \in [Exchange -> Said \cup {413}]
    BY <2>2, <2>3 DEF IsTyped
  <2>7. counted' \in [Exchange -> Counts]
    BY <2>2, <2>3 DEF IsTyped
  <2>8. Said \cup {413} = {0, 200, 400, 401, 403, 413, 422, 429, 500, 503, 504}
    BY DEF Said
  <2>9. settings' \in Configurations
    BY DEF IInv, TypeOK
  <2>10. \A y \in Exchange : req'[y] \in Requests[y] \cup {NoRequest} /\ (result'[y] # NoResult => result'[y] \in Result)
    BY <2>2 DEF IsTyped
  <2> QED
    BY <2>4, <2>5, <2>6, <2>7, <2>8, <2>9, <2>10 DEF TypeOK, OnlyStore, Place, Said, Counts
<1>5. WorkIsPerExchange'
  BY DEF OnlyHandling, Only, WorkIsPerExchange
<1> QED
  BY <1>1, <1>3, <1>4, <1>5 DEF IInv

-----------------------------------------------------------------------------
Passes(r) == Refusal(r, FALSE) = 200

(* An investigation that is admitted acts for a registered tenant, of the  *)
(* demo's form, of a header or of a token (auth.py 79-145, app.py          *)
(* 380-385).                                                               *)
LEMMA AdmittedActForATenant ==
  ASSUME NEW x \in Exchange, NEW r \in Requests[x], r.endpoint \in Investigations, Passes(r)
  PROVE  TenantFor(r) \in Tenant
<1>1. /\ r.form \in Tenant \cup {NoTenant} /\ r.credentials \in Credentials
      /\ r.credentials.tenant \in Tenant \cup {NoTenant}
  <2>1. r \in Request
    BY RequestsAreRequests
  <2>2. r.form \in Tenant \cup {NoTenant} /\ r.credentials \in Credentials
    BY <2>1 DEF Request
  <2> QED
    BY <2>2 DEF Credentials
<1>2. CASE r.endpoint \in Demo
  <2>1. DemoRefusal(r, FALSE) = 200
    BY <1>2 DEF Passes, Refusal, Demo
  <2> QED
    BY <1>1, <1>2, <2>1 DEF DemoRefusal, TenantFor
<1>3. CASE r.endpoint \notin Demo
  <2>1. r.endpoint = "investigate"
    BY <1>3 DEF Investigations, Demo
  <2>2. ApiRefusal(r, FALSE) = 200
    BY <1>3, <2>1 DEF Passes, Refusal
  <2>3. PrincipalStatus(settings, r.credentials) = 200
    BY <2>2 DEF ApiRefusal
  <2>4. TenantStatus(settings, r.credentials) = 200
    BY <2>1, <2>2, <2>3 DEF ApiRefusal, TenantScoped
  <2>5. TenantOf(settings, r.credentials) # NoTenant
    BY <2>4 DEF TenantStatus
  <2>6. TenantOf(settings, r.credentials) \in Tenant
    <3>1. CASE Headers(settings)
      BY <1>1, <2>5, <3>1 DEF TenantOf
    <3>2. CASE ~ Headers(settings)
      <4>1. Resolves(r.credentials.token)
        BY <2>3, <3>2 DEF PrincipalStatus
      <4> PICK token : token = r.credentials.token
        OBVIOUS
      <4>2. Cardinality(TenantMatches(token)) = 1 /\ IsFiniteSet(TenantMatches(token))
        BY <4>1, BundlesAreValid, FS_Subset DEF Resolves, TenantMatches
      <4>3. \E t \in Tenant : t \in TenantMatches(token)
        BY <4>2, FS_Singleton DEF TenantMatches
      <4>4. TenantOf(settings, r.credentials) = CHOOSE t \in Tenant : t \in TenantMatches(token)
        BY <3>2 DEF TenantOf
      <4> QED
        BY <4>3, <4>4
    <3> QED
      BY <3>1, <3>2
  <2> QED
    BY <1>3, <2>6 DEF TenantFor
<1> QED
  BY <1>2, <1>3

(* What a request may be refused with (auth.py 37-213, app.py 177-182).    *)
LEMMA RefusalsAreSaid ==
  ASSUME NEW r, NEW limited
  PROVE  Refusal(r, limited) \in {200, 400, 401, 403, 422, 429, 503}
<1>1. PrincipalStatus(settings, r.credentials) \in {200, 401, 503}
  BY DEF PrincipalStatus
<1>2. ApiRefusal(r, limited) \in {200, 400, 401, 403, 422, 429, 503}
  BY <1>1 DEF ApiRefusal
<1>3. DemoRefusal(r, limited) \in {200, 400, 422, 429}
  BY DEF DemoRefusal
<1> QED
  BY <1>2, <1>3 DEF Refusal

(* What a specialist concludes is a result: the customer of a profile is   *)
(* in the repository once a call for it succeeded (customer.py 17-71,      *)
(* payments.py 13-60, policy.py 12-47).                                    *)
LEMMA ConcludedIsResult ==
  ASSUME NEW r \in UNION {Requests[x] : x \in Exchange}, NEW node \in Domain \cup {"human_review"},
         NEW failed \in BOOLEAN, NEW hits \in SUBSET Hit,
         node = "customer" /\ r.query.customer # NoMatch /\ ~ failed => r.query.customer \in DOMAIN Accounts
  PROVE  Concluded(node, r.query, failed, hits) \in Result
<1> PICK q \in Query : q = r.query
  <2>1. r \in Request
    BY RequestsAreRequests
  <2> QED
    BY <2>1 DEF Request
<1>1. q.customer \in Customer \cup {NoMatch} /\ q.transaction \in Transaction \cup {NoMatch}
  BY DEF Query
<1> DEFINE Shown == Customer \cup Account \cup Transaction \cup Hit
<1>2. ASSUME NEW a \in Domain \cup {"human_review"}, NEW e \in ErrorCode
      PROVE  Review(a, e) \in Result /\ Asks(a, e) \in Result
  BY DEF Review, Asks, Result
<1>3. ASSUME NEW a \in Domain, NEW found \in SUBSET Shown
      PROVE  Found(a, found) \in Result
  BY DEF Found, Result, ErrorCode
<1>4. CASE node = "customer"
  <2>1. CustomerResult(q, failed) \in Result
    <3>1. CASE q.customer = NoMatch
      BY <1>2, <3>1 DEF CustomerResult, Domain, ErrorCode
    <3>2. CASE q.customer # NoMatch /\ failed
      BY <1>2, <3>2 DEF CustomerResult, Domain, ErrorCode
    <3>3. CASE q.customer # NoMatch /\ ~ failed
      <4>1. q.customer \in Customer /\ Accounts[q.customer] \subseteq Account
        BY <1>1, <1>4, <3>3, RecordsAreConsistent
      <4>2. {q.customer} \cup Accounts[q.customer] \in SUBSET Shown
        BY <4>1
      <4> QED
        BY <1>3, <3>3, <4>2 DEF CustomerResult, Domain, ErrorCode
    <3> QED
      BY <3>1, <3>2, <3>3
  <2> QED
    BY <1>4, <2>1 DEF Concluded
<1>5. CASE node = "payments"
  <2>1. PaymentsResult(q, failed) \in Result
    <3>1. q.transaction # NoMatch => {q.transaction} \in SUBSET Shown
      BY <1>1
    <3> QED
      BY <1>2, <1>3, <3>1 DEF PaymentsResult, Domain, ErrorCode
  <2> QED
    BY <1>5, <2>1 DEF Concluded
<1>6. CASE node = "policy"
  <2>1. PolicyResult(failed, hits) \in Result
    BY <1>2, <1>3 DEF PolicyResult, Domain, ErrorCode
  <2> QED
    BY <1>6, <2>1 DEF Concluded
<1>7. CASE node = "human_review"
  BY <1>2, <1>7 DEF Concluded, ErrorCode
<1> QED
  BY <1>4, <1>5, <1>6, <1>7 DEF Domain

-----------------------------------------------------------------------------
(* The tables of the handlers are functions of the exchanges.              *)
TablesAreWhole ==
  /\ pc = [y \in Exchange |-> pc[y]] /\ req = [y \in Exchange |-> req[y]]
  /\ route = [y \in Exchange |-> route[y]] /\ called = [y \in Exchange |-> called[y]]
  /\ result = [y \in Exchange |-> result[y]] /\ reply = [y \in Exchange |-> reply[y]]
  /\ overdue = [y \in Exchange |-> overdue[y]] /\ status = [y \in Exchange |-> status[y]]
  /\ counted = [y \in Exchange |-> counted[y]]

(* What a step of an exchange may start from (middleware.py 41-84).        *)
LEMMA WhatHolds ==
  ASSUME IInv, NEW x \in Exchange
  PROVE  /\ TablesAreWhole /\ Store!TypeOK
         /\ IsTyped(x) /\ HandlingIsSound(x) /\ StoreIsSound(x) /\ Uncounted(x)
<1>1. TypeOK /\ Uncounted(x) /\ WorkIsPerExchange
  BY DEF IInv, CountsIInv
<1>2. IsTyped(x) /\ Store!TypeOK
  BY <1>1 DEF TypeOK, IsTyped, Place, Said, Counts
<1>3. /\ pc = [y \in Exchange |-> pc[y]] /\ route = [y \in Exchange |-> route[y]]
      /\ called = [y \in Exchange |-> called[y]] /\ reply = [y \in Exchange |-> reply[y]]
      /\ overdue = [y \in Exchange |-> overdue[y]] /\ status = [y \in Exchange |-> status[y]]
      /\ counted = [y \in Exchange |-> counted[y]]
  BY <1>1 DEF TypeOK
<1>4. TablesAreWhole
  BY <1>1, <1>3 DEF TablesAreWhole, WorkIsPerExchange
<1> QED
  BY <1>1, <1>2, <1>4 DEF IInv

(* A handler that awaits something else leaves the store alone.            *)
LEMMA StoreUntouched ==
  ASSUME IInv, NEW x \in Exchange, UNCHANGED store
  PROVE  OnlyStore(x)
<1>1. Store!TypeOK /\ approvals' = approvals /\ call' = call /\ limbo' = limbo
  BY WhatHolds DEF store
<1>2. Store!TypeOK'
  BY <1>1 DEF Store!TypeOK
<1> QED
  BY <1>1, <1>2 DEF OnlyStore

(* Before any tool or store call anything may be said but 200 of an        *)
(* investigation (app.py 204-215, 272-356).                                *)
LEMMA EarlyMayTell ==
  ASSUME IInv, NEW x \in Exchange, pc[x] \in Early, NEW s, s = 200 => ~ Investigates(x)
  PROVE  MayTell(x, s)
BY WhatHolds DEF HandlingIsSound, StoreIsSound, MayTell, Early

(* A step of a handler that neither calls a tool nor the store: it waits   *)
(* for something else, or responds (app.py 163-202, 272-356).              *)
LEMMA PlainStep ==
  ASSUME IInv, [Next]_vars, NEW x \in Exchange, pc[x] \in Early \ {"new"},
         UNCHANGED <<work, store, Unanswered>>,
         NEW p, NEW s \in Said, pc' = [pc EXCEPT ![x] = p], reply' = [reply EXCEPT ![x] = s],
         \/ p = "response" /\ s # 0 /\ (s = 200 => ~ Investigates(x))
         \/ p \in {"retrieval", "model"} /\ s = 0 /\ ~ Investigates(x)
  PROVE  IInv'
<1>1. /\ UNCHANGED <<settings, req, route, called, result, overdue, status, counted>>
      /\ UNCHANGED <<approvals, call, limbo>>
  BY DEF work, store, Unanswered
<1>2. TablesAreWhole /\ IsTyped(x) /\ HandlingIsSound(x) /\ StoreIsSound(x)
  BY WhatHolds
<1>3. pc'[x] = p /\ reply'[x] = s
  BY <1>2 DEF TablesAreWhole
<1>4. OnlyHandling(x)
  BY <1>1, <1>2 DEF OnlyHandling, Only, TablesAreWhole
<1>5. OnlyStore(x)
  BY <1>1, StoreUntouched DEF store
<1>6. IsTyped(x)'
  BY <1>1, <1>2, <1>3 DEF IsTyped, Place
<1>7. MayTell(x, s) /\ MayTell(x, status[x])
  <2>1. MayTell(x, status[x])
    BY <1>2 DEF HandlingIsSound
  <2>2. pc[x] \in Early /\ (s = 200 => ~ Investigates(x))
    OBVIOUS
  <2> QED
    BY <2>1, <2>2, EarlyMayTell
<1>8. \A w : MayTell(x, w)' <=> MayTell(x, w)
  BY <1>1 DEF MayTell, Investigates, Stored, Pending
<1>9. MayTell(x, status[x])' /\ MayTell(x, reply[x])'
  <2> PICK st : st = status[x]
    OBVIOUS
  <2>1. MayTell(x, st)' /\ MayTell(x, s)'
    BY <1>7, <1>8
  <2> QED
    BY <1>1, <1>3, <2>1 DEF MayTell
<1>10. HandlingIsSound(x)'
  <2>1. Investigates(x)' <=> Investigates(x)
    BY <1>1 DEF Investigates
  <2> QED
    BY <1>1, <1>2, <1>3, <1>9, <2>1 DEF HandlingIsSound, Early
<1>11. StoreIsSound(x)'
  <2>1. ~ Stored(x) /\ ~ Pending(x) /\ call[x] = Store!NoCall
    BY <1>2 DEF StoreIsSound, Early
  <2> QED
    BY <1>1, <1>3, <2>1 DEF StoreIsSound, Stored, Pending
<1> QED
  BY <1>1, <1>4, <1>5, <1>6, <1>10, <1>11, OneExchangeAtATime

(* The handler of anything but an investigation may end with any status    *)
(* (app.py 163-202, 272-356).                                              *)
LEMMA RespondStep ==
  ASSUME IInv, [Next]_vars, NEW x \in Exchange, pc[x] \in Early \ {"new"}, ~ Investigates(x),
         UNCHANGED <<work, store, Unanswered>>, NEW s \in Said \ {0}, Respond(x, s)
  PROVE  IInv'
<1>1. pc' = [pc EXCEPT ![x] = "response"] /\ reply' = [reply EXCEPT ![x] = s]
  BY DEF Respond, Goto
<1> QED
  BY <1>1, PlainStep

(* Refusals, readings and answers of the model are such steps (auth.py     *)
(* 37-213, app.py 163-356).                                                *)
LEMMA RefuseIInv ==
  ASSUME IInv, [Next]_vars, NEW x \in Exchange, NEW limited, Refuse(x, limited)
  PROVE  IInv'
<1> PICK s : s = Refusal(req[x], limited)
  OBVIOUS
<1>1. s \in Said \ {0, 200}
  BY RefusalsAreSaid DEF Refuse, Said
<1>2. /\ pc[x] \in Early \ {"new"} /\ UNCHANGED <<work, store, Unanswered>>
      /\ pc' = [pc EXCEPT ![x] = "response"] /\ reply' = [reply EXCEPT ![x] = s]
  BY DEF Refuse, Respond, Goto, Early
<1> QED
  BY <1>1, <1>2, PlainStep

(* The pages and listings that ask no model (app.py 163-202).              *)
LEMMA InformIInv ==
  ASSUME IInv, [Next]_vars, NEW x \in Exchange, Inform(x)
  PROVE  IInv'
<1>1. ~ Investigates(x)
  BY DEF Inform, Admitted, Investigates, Investigations, Viewer
<1>2. pc[x] \in Early \ {"new"} /\ UNCHANGED <<work, store, Unanswered>>
  BY DEF Inform, Admitted, Early
<1>3. PICK s \in Said \ {0} : Respond(x, s)
  BY DEF Inform, Said
<1> QED
  BY <1>1, <1>2, <1>3, RespondStep

(* A chat is handed to the model, or to retrieval first (app.py 468-479,   *)
(* 272-321).                                                               *)
LEMMA AskModelIInv ==
  ASSUME IInv, [Next]_vars, NEW x \in Exchange, AskModel(x)
  PROVE  IInv'
<1>1. ~ Investigates(x)
  BY DEF AskModel, Admitted, Investigates, Investigations, Synthesis
<1>2. /\ pc[x] \in Early \ {"new"} /\ UNCHANGED <<work, store, Unanswered>>
      /\ reply = [reply EXCEPT ![x] = 0] /\ 0 \in Said
  BY WhatHolds DEF AskModel, Admitted, Early, HandlingIsSound, TablesAreWhole, Said
<1>3. \/ pc' = [pc EXCEPT ![x] = "model"] /\ reply' = reply
      \/ pc' = [pc EXCEPT ![x] = "retrieval"] /\ reply' = reply
      \/ Respond(x, 500)
  BY DEF AskModel, Goto
<1>4. CASE pc' = [pc EXCEPT ![x] = "model"] /\ reply' = reply
  BY <1>1, <1>2, <1>4, PlainStep
<1>5. CASE pc' = [pc EXCEPT ![x] = "retrieval"] /\ reply' = reply
  BY <1>1, <1>2, <1>5, PlainStep
<1>6. CASE Respond(x, 500)
  <2>1. PICK s \in Said \ {0} : Respond(x, s)
    BY <1>6 DEF Said
  <2> QED
    BY <1>1, <1>2, <2>1, RespondStep
<1> QED
  BY <1>3, <1>4, <1>5, <1>6

(* Evidence goes on to the model, and a failed search ends the request     *)
(* (rag/synthesis.py 30-49).                                               *)
LEMMA RetrievedIInv ==
  ASSUME IInv, [Next]_vars, NEW x \in Exchange, Retrieved(x)
  PROVE  IInv'
<1>1. ~ Investigates(x) /\ reply = [reply EXCEPT ![x] = 0] /\ 0 \in Said
  BY WhatHolds DEF Retrieved, HandlingIsSound, TablesAreWhole, Said
<1>2. pc[x] \in Early \ {"new"} /\ UNCHANGED <<work, store, Unanswered>>
  BY DEF Retrieved, Early
<1>3. \/ pc' = [pc EXCEPT ![x] = "model"] /\ reply' = reply
      \/ \E s \in Said \ {0} : Respond(x, s)
  BY DEF Retrieved, Goto, Said, Raised
<1>4. CASE pc' = [pc EXCEPT ![x] = "model"] /\ reply' = reply
  BY <1>1, <1>2, <1>4, PlainStep
<1>5. CASE \E s \in Said \ {0} : Respond(x, s)
  BY <1>1, <1>2, <1>5, RespondStep
<1> QED
  BY <1>3, <1>4, <1>5

(* The model's answer, or its failure, is the response (app.py 278-356).   *)
LEMMA ModelEndsIInv ==
  ASSUME IInv, [Next]_vars, NEW x \in Exchange, ModelEnds(x)
  PROVE  IInv'
<1>1. ~ Investigates(x)
  BY WhatHolds DEF ModelEnds, HandlingIsSound
<1>2. pc[x] \in Early \ {"new"} /\ UNCHANGED <<work, store, Unanswered>>
  BY DEF ModelEnds, Early
<1>3. PICK s \in Said \ {0} : Respond(x, s)
  BY DEF ModelEnds, Said, Raised
<1> QED
  BY <1>1, <1>2, <1>3, RespondStep

-----------------------------------------------------------------------------
(* A create_pending asks for an approval of the exchange's own id, for the *)
(* tenant it acts for (app.py 230-238).                                    *)
LEMMA CreationType ==
  ASSUME NEW x \in Exchange, TenantFor(req[x]) \in Tenant
  PROVE  /\ Creation(x) \in Store!Request /\ Creation(x).client = x /\ Creation(x).id = x
         /\ Creation(x).op = "create"
         /\ Store!Written(Creation(x)) = Store!Pending(Creation(x))
         /\ Store!Pending(Creation(x)) \in Store!Row /\ Store!Pending(Creation(x)) # Store!Absent
         /\ Store!Pending(Creation(x)).tenant = TenantFor(req[x])
         /\ Store!Pending(Creation(x)).status = "pending"
BY DEF Creation, Store!Request, Store!Written, Store!Pending, Store!Row, Store!Absent

(* The end of an investigation: create_pending is called, or 200 is the    *)
(* response (app.py 230-254, 438-466).                                     *)
LEMMA SettleStep ==
  ASSUME IInv, [Next]_vars, NEW x \in Exchange, pc[x] \in {"dependencies", "agent"},
         Investigates(x), TenantFor(req[x]) \in Tenant,
         NEW res \in Result, Settle(x, res), UNCHANGED <<req, Unanswered>>,
         NEW n \in Domain \cup {"human_review"}, route' = [route EXCEPT ![x] = n],
         NEW k \in 0..2, called' = [called EXCEPT ![x] = k],
         Consequential(req[x].query) => k = 0 /\ res.approval
  PROVE  IInv'
<1> PICK made, r, st : made = Creation(x) /\ r = req[x] /\ st = status[x]
  OBVIOUS
<1>1. UNCHANGED <<settings, req, overdue, status, counted>>
  BY DEF Unanswered
<1>2. /\ TablesAreWhole /\ IsTyped(x) /\ HandlingIsSound(x) /\ StoreIsSound(x) /\ Uncounted(x)
      /\ Store!TypeOK
  BY WhatHolds
<1>3. result' = [result EXCEPT ![x] = res]
  BY DEF Settle
<1>4. /\ route'[x] = n /\ called'[x] = k /\ result'[x] = res /\ req'[x] = r /\ status'[x] = st
      /\ overdue'[x] = overdue[x] /\ counted'[x] = counted[x]
      /\ ~ Stored(x) /\ ~ Pending(x) /\ call[x] = Store!NoCall
      /\ st \in {0, 504} /\ r \in Requests[x] /\ reply[x] = 0
  BY <1>1, <1>2, <1>3 DEF TablesAreWhole, HandlingIsSound, StoreIsSound, Uncounted
<1>5. TenantFor(r)' = TenantFor(r) /\ Creation(x)' = made
  BY <1>1, TenantIsFixed
<1>6. Investigates(x)' /\ TenantFor(req[x])' \in Tenant
  BY <1>1, <1>4, <1>5 DEF Investigates
<1>7. CASE NeedsApproval(res) /\ Goto(x, "store") /\ Store!Invoke(x, Creation(x)) /\ UNCHANGED reply
  <2>1. /\ pc'[x] = "store" /\ reply'[x] = 0 /\ res.approval
        /\ pc' = [pc EXCEPT ![x] = "store"] /\ reply' = reply
    BY <1>2, <1>4, <1>7 DEF TablesAreWhole, Goto, NeedsApproval
  <2>2. /\ call' = [call EXCEPT ![x] = At(made, "open", Store!Absent)]
        /\ approvals' = approvals /\ limbo' = limbo
    BY <1>7 DEF Store!Invoke, At
  <2>3. At(made, "open", Store!Absent) \in Store!Call /\ Store!Absent \in Store!Row
    BY CreationType DEF At, Store!Call, Store!Answer, Store!Row
  <2>4. call \in [Exchange -> Store!Call \cup {Store!NoCall}]
    BY <1>2 DEF Store!TypeOK
  <2>5. call'[x] = At(made, "open", Store!Absent)
    BY <2>2, <2>4
  <2>6. OnlyHandling(x)
    <3>1. Only(x, pc, pc') /\ Only(x, reply, reply')
      BY <1>2, <2>1 DEF Only, TablesAreWhole
    <3>2. Only(x, result, result') /\ Only(x, route, route') /\ Only(x, called, called')
      BY <1>2, <1>3 DEF Only, TablesAreWhole
    <3> QED
      BY <1>1, <1>2, <3>1, <3>2 DEF OnlyHandling, Only, TablesAreWhole
  <2>7. OnlyStore(x)
    <3>1. Store!TypeOK'
      BY <1>2, <2>2, <2>3 DEF Store!TypeOK
    <3> QED
      BY <2>2, <2>4, <3>1 DEF OnlyStore
  <2>8. IsTyped(x)'
    BY <1>2, <1>4, <2>1 DEF IsTyped, Place, Said
  <2>9. HandlingIsSound(x)'
    <3>1. MayTell(x, status[x])' /\ MayTell(x, reply[x])'
      BY <1>4, <2>1 DEF MayTell
    <3> QED
      BY <1>4, <2>1, <3>1 DEF HandlingIsSound, Early
  <2>10. StoreIsSound(x)'
    <3>1. ~ Stored(x)' /\ ~ Pending(x)'
      BY <1>4, <2>2 DEF Stored, Pending
    <3>2. \E answer \in {"open", "ok", "error"}, row \in Store!Row :
            call'[x] = At(made, answer, row) /\ (answer = "ok" => Stored(x)')
      BY <2>3, <2>5
    <3> QED
      BY <1>4, <1>5, <1>6, <2>1, <3>1, <3>2 DEF StoreIsSound, Pending
  <2> QED
    BY <1>1, <2>6, <2>7, <2>8, <2>9, <2>10, OneExchangeAtATime
<1>8. CASE ~ NeedsApproval(res) /\ Respond(x, 200) /\ UNCHANGED store
  <2>1. /\ pc'[x] = "response" /\ reply'[x] = 200 /\ ~ res.approval
        /\ pc' = [pc EXCEPT ![x] = "response"] /\ reply' = [reply EXCEPT ![x] = 200]
    BY <1>2, <1>8 DEF TablesAreWhole, Respond, Goto, NeedsApproval
  <2>2. call' = call /\ approvals' = approvals /\ limbo' = limbo
    BY <1>8 DEF store
  <2>3. OnlyHandling(x)
    <3>1. Only(x, pc, pc') /\ Only(x, reply, reply')
      BY <1>2, <2>1 DEF Only, TablesAreWhole
    <3>2. Only(x, result, result') /\ Only(x, route, route') /\ Only(x, called, called')
      BY <1>2, <1>3 DEF Only, TablesAreWhole
    <3> QED
      BY <1>1, <1>2, <3>1, <3>2 DEF OnlyHandling, Only, TablesAreWhole
  <2>4. OnlyStore(x)
    BY <1>8, StoreUntouched
  <2>5. IsTyped(x)'
    BY <1>2, <1>4, <2>1 DEF IsTyped, Place, Said
  <2>6. ~ Stored(x)' /\ ~ Pending(x)'
    BY <1>4, <2>2 DEF Stored, Pending
  <2>7. HandlingIsSound(x)'
    <3>1. MayTell(x, status[x])' /\ MayTell(x, reply[x])'
      BY <1>4, <2>1, <2>6 DEF MayTell
    <3> QED
      BY <1>4, <2>1, <3>1 DEF HandlingIsSound, Early
  <2>8. StoreIsSound(x)'
    BY <1>4, <2>1, <2>2, <2>6 DEF StoreIsSound, Pending
  <2> QED
    BY <1>1, <2>3, <2>4, <2>5, <2>7, <2>8, OneExchangeAtATime
<1> QED
  BY <1>7, <1>8 DEF Settle

-----------------------------------------------------------------------------
(* Whatever the classifier says, a consequential action is reviewed before *)
(* a tool is called (operations.py 61-104).                                *)
LEMMA InvestigateIInv ==
  ASSUME IInv, [Next]_vars, NEW x \in Exchange, NEW node, Investigate(x, node)
  PROVE  IInv'
<1> PICK r, st : r = req[x] /\ st = status[x]
  OBVIOUS
<1>1. /\ UNCHANGED <<settings, req, called, overdue, status, counted>>
      /\ route' = [route EXCEPT ![x] = node] /\ pc[x] = "dependencies"
      /\ Refusal(r, FALSE) = 200 /\ Investigates(x) /\ r.endpoint \in Investigations
      /\ node \in Routes(r.query)
  BY DEF Investigate, Admitted, Unanswered, Investigates
<1>2. /\ TablesAreWhole /\ IsTyped(x) /\ HandlingIsSound(x) /\ StoreIsSound(x) /\ Uncounted(x)
  BY WhatHolds
<1>3. /\ r \in Requests[x] /\ called[x] = 0 /\ result[x] = NoResult /\ reply[x] = 0
      /\ ~ Stored(x) /\ ~ Pending(x) /\ call[x] = Store!NoCall /\ st \in {0, 504}
  BY <1>1, <1>2 DEF HandlingIsSound, StoreIsSound, Uncounted, Early
<1>4. TenantFor(r) \in Tenant
  <2>1. r \in Requests[x] /\ r.endpoint \in Investigations /\ Passes(r)
    BY <1>1, <1>3 DEF Passes
  <2> QED
    BY <2>1, AdmittedActForATenant
<1>5. node \in Domain \cup {"human_review"} /\ (Consequential(r.query) => node = "human_review")
  <2>1. Best(r.query) # {} => \E d \in Best(r.query) :
           d = "payments" \/ (d = "customer" /\ "payments" \notin Best(r.query)) \/ Best(r.query) = {"policy"}
    BY DEF Best, Domain
  <2>2. Best(r.query) \subseteq Domain
    BY DEF Best
  <2>3. Route(r.query) \in Domain \cup {"human_review"}
    BY <2>1, <2>2 DEF Route
  <2>4. Consequential(r.query) => Route(r.query) = "human_review"
    BY DEF Route
  <2> QED
    BY <1>1, <2>3, <2>4 DEF Routes
<1>6. CASE node = "human_review"
  <2> PICK res : res = Concluded(node, r.query, FALSE, {})
    OBVIOUS
  <2>1. res \in Result /\ res.approval
    BY <1>6 DEF Concluded, Review, Result, ErrorCode
  <2>2. Settle(x, res)
    BY <1>6 DEF Investigate
  <2> PICK k \in 0..2 : k = 0
    OBVIOUS
  <2>3. called' = [called EXCEPT ![x] = k]
    BY <1>1, <1>2, <1>3 DEF TablesAreWhole
  <2>4. UNCHANGED <<req, Unanswered>>
    BY <1>1 DEF Unanswered
  <2>5. /\ route' = [route EXCEPT ![x] = node] /\ pc[x] \in {"dependencies", "agent"} /\ Investigates(x)
        /\ TenantFor(req[x]) \in Tenant
    BY <1>1, <1>4
  <2> QED
    BY <1>5, <2>1, <2>2, <2>3, <2>4, <2>5, SettleStep
<1>7. CASE node # "human_review"
  <2>1. /\ UNCHANGED <<result, store>> /\ ~ Consequential(r.query) /\ node \in Domain
        /\ \/ Respond(x, 500)
           \/ Goto(x, "agent") /\ UNCHANGED reply
    BY <1>5, <1>7 DEF Investigate
  <2>2. /\ req'[x] = r /\ route'[x] = node /\ called'[x] = 0 /\ result'[x] = NoResult /\ status'[x] = st
        /\ overdue'[x] = overdue[x] /\ counted'[x] = counted[x]
    BY <1>1, <1>2, <1>3, <2>1 DEF TablesAreWhole
  <2>3. approvals' = approvals /\ call' = call /\ limbo' = limbo
    BY <2>1 DEF store
  <2>4. \/ pc'[x] = "response" /\ reply'[x] = 500
        \/ pc'[x] = "agent" /\ reply'[x] = 0
    BY <1>2, <1>3, <2>1 DEF Respond, Goto, TablesAreWhole
  <2>5. OnlyHandling(x)
    <3>1. Only(x, pc, pc') /\ Only(x, reply, reply')
      BY <1>2, <2>1 DEF Only, TablesAreWhole, Respond, Goto
    <3> QED
      BY <1>1, <1>2, <2>1, <3>1 DEF OnlyHandling, Only, TablesAreWhole
  <2>6. OnlyStore(x)
    BY <2>1, StoreUntouched
  <2>7. IsTyped(x)'
    BY <1>2, <1>3, <2>2, <2>4, <2>1 DEF IsTyped, Place, Said
  <2>8. ~ Stored(x)' /\ ~ Pending(x)' /\ Investigates(x)'
    BY <1>1, <1>3, <2>2, <2>3 DEF Stored, Pending, Investigates
  <2>9. HandlingIsSound(x)'
    <3>1. MayTell(x, status[x])' /\ MayTell(x, reply[x])'
      BY <1>3, <2>2, <2>4, <2>8 DEF MayTell
    <3>2. AgentIsSound(x)'
      <4>1. TenantFor(r)' \in Tenant
        BY <1>1, <1>4, TenantIsFixed
      <4> QED
        BY <2>1, <2>2, <2>8, <4>1 DEF AgentIsSound
    <3> QED
      BY <1>3, <2>1, <2>2, <2>4, <3>1, <3>2 DEF HandlingIsSound, Early
  <2>10. StoreIsSound(x)'
    BY <1>3, <2>3, <2>4, <2>8 DEF StoreIsSound, Pending
  <2> QED
    BY <1>1, <2>5, <2>6, <2>7, <2>9, <2>10, OneExchangeAtATime
<1> QED
  BY <1>6, <1>7

(* Only a profile takes a second call, and by then its customer was found  *)
(* (customer.py 17-36, payments.py 13-25, policy.py 12-20).                *)
LEMMA PlannedCalls ==
  ASSUME NEW q
  PROVE  /\ Calls("customer", q) =
              IF q.customer # NoMatch THEN <<"customer.get_customer", "customer.get_accounts">> ELSE <<>>
         /\ Calls("payments", q) \in {<<>>, <<"payments.get_transaction">>}
         /\ Calls("policy", q) = <<"policy.search">>
BY DEF Calls

(* The first of two calls has returned and the second follows (customer.py *)
(* 25-35).                                                                 *)
LEMMA ToolReturnsIInv ==
  ASSUME IInv, [Next]_vars, NEW x \in Exchange, ToolReturns(x)
  PROVE  IInv'
<1> PICK r, st : r = req[x] /\ st = status[x]
  OBVIOUS
<1>1. /\ UNCHANGED <<settings, pc, reply, req, route, result, overdue, status, counted>>
      /\ UNCHANGED store /\ pc[x] = "agent" /\ called' = [called EXCEPT ![x] = called[x] + 1]
      /\ called[x] + 1 < Len(Calls(route[x], r.query))
      /\ Possible(Calls(route[x], r.query)[called[x] + 1], r.query, ToolRoles(r))
  BY DEF ToolReturns, Planned, NextCallIsPossible, Unanswered
<1>2. /\ TablesAreWhole /\ IsTyped(x) /\ HandlingIsSound(x) /\ StoreIsSound(x) /\ Uncounted(x)
  BY WhatHolds
<1>3. AgentIsSound(x) /\ st \in {0, 504} /\ reply[x] = 0 /\ r \in Requests[x]
  BY <1>1, <1>2 DEF HandlingIsSound, Uncounted
<1>4. called[x] = 0 /\ route[x] = "customer" /\ r.query.customer \in DOMAIN Accounts
  <2>1. route[x] = "customer" /\ r.query.customer # NoMatch /\ called[x] + 1 < 2 /\ called[x] \in 0..2
    <3>1. called[x] \in 0..2 /\ route[x] \in {"customer", "payments", "policy"}
      BY <1>2, <1>3 DEF AgentIsSound, Domain, IsTyped
    <3>2. Len(Calls("payments", r.query)) \in 0..1 /\ Len(Calls("policy", r.query)) = 1
      BY PlannedCalls
    <3>3. called[x] + 1 < Len(Calls(route[x], r.query))
      BY <1>1
    <3>4. CASE route[x] = "customer"
      <4>1. CASE r.query.customer # NoMatch
        <5>1. Calls(route[x], r.query) = <<"customer.get_customer", "customer.get_accounts">>
          BY <3>4, <4>1, PlannedCalls
        <5> QED
          BY <3>1, <3>4, <3>3, <4>1, <5>1
      <4>2. CASE r.query.customer = NoMatch
        <5>1. Len(Calls(route[x], r.query)) = 0
          BY <3>4, <4>2, PlannedCalls
        <5> QED
          BY <3>1, <3>3, <5>1
      <4> QED
        BY <4>1, <4>2
    <3>5. CASE route[x] # "customer"
      <4>1. Len(Calls(route[x], r.query)) \in 0..1
        <5>1. CASE route[x] = "payments"
          BY <3>2, <5>1
        <5>2. CASE route[x] = "policy"
          BY <3>2, <5>2
        <5> QED
          BY <3>1, <3>5, <5>1, <5>2
      <4>2. \A k \in 0..2, l \in 0..1 : ~ (k + 1 < l)
        OBVIOUS
      <4> QED
        BY <3>1, <3>3, <4>1, <4>2, Zenon
    <3> QED
      BY <3>4, <3>5
  <2>2. called[x] = 0
    BY <2>1
  <2>3. Calls(route[x], r.query)[called[x] + 1] = "customer.get_customer"
    BY <2>1, <2>2, PlannedCalls
  <2> QED
    BY <1>1, <2>1, <2>2, <2>3 DEF Possible
<1>5. called'[x] = 1
  BY <1>1, <1>2, <1>4 DEF TablesAreWhole
<1>6. OnlyHandling(x)
  BY <1>1, <1>2 DEF OnlyHandling, Only, TablesAreWhole
<1>7. OnlyStore(x)
  BY <1>1, StoreUntouched
<1>8. IsTyped(x)'
  BY <1>1, <1>2, <1>5 DEF IsTyped
<1>9. HandlingIsSound(x)'
  <2>1. MayTell(x, status[x])' /\ MayTell(x, reply[x])'
    <3>1. status'[x] = st /\ reply'[x] = 0
      BY <1>1, <1>3
    <3> QED
      BY <1>3, <3>1 DEF MayTell
  <2>2. TenantFor(r)' \in Tenant
    BY <1>1, <1>3, TenantIsFixed DEF AgentIsSound
  <2>3. AgentIsSound(x)'
    BY <1>1, <1>3, <1>4, <1>5, <2>2 DEF AgentIsSound, Investigates
  <2> QED
    BY <1>1, <1>2, <1>3, <2>1, <2>3 DEF HandlingIsSound, Early, AgentIsSound
<1>10. StoreIsSound(x)'
  <2>1. approvals' = approvals /\ call' = call /\ limbo' = limbo
    BY <1>1 DEF store
  <2>2. ~ Stored(x) /\ ~ Pending(x) /\ call[x] = Store!NoCall
    BY <1>1, <1>2 DEF StoreIsSound
  <2> QED
    BY <1>1, <2>1, <2>2 DEF StoreIsSound, Stored, Pending
<1> QED
  BY <1>1, <1>6, <1>7, <1>8, <1>9, <1>10, OneExchangeAtATime

(* The specialist's last call, and a failed one (operations.py 105-135).   *)
LEMMA ConcludeIInv ==
  ASSUME IInv, [Next]_vars, NEW x \in Exchange,
         ConcludeFailed(x) \/ \E hits \in SUBSET Hit : Conclude(x, hits)
  PROVE  IInv'
<1> PICK r, n : r = req[x] /\ n = route[x]
  OBVIOUS
<1>1. /\ pc[x] = "agent" /\ UNCHANGED <<req, Unanswered>> /\ route' = route
  BY DEF Conclude, ConcludeFailed
<1>2. /\ TablesAreWhole /\ IsTyped(x) /\ HandlingIsSound(x)
  BY WhatHolds
<1>3. AgentIsSound(x) /\ n \in Domain /\ r \in Requests[x] /\ Investigates(x)
  BY <1>1, <1>2 DEF HandlingIsSound, AgentIsSound
<1>4. /\ TenantFor(r) \in Tenant /\ ~ Consequential(r.query) /\ called[x] \in 0..1
      /\ called[x] # 0 => n = "customer" /\ r.query.customer \in DOMAIN Accounts
  BY <1>3 DEF AgentIsSound
<1>5. route' = [route EXCEPT ![x] = n]
  BY <1>1, <1>2 DEF TablesAreWhole
<1>6. ASSUME NEW res \in Result, Settle(x, res), NEW k \in 0..2, called' = [called EXCEPT ![x] = k]
      PROVE  IInv'
  BY <1>1, <1>3, <1>4, <1>5, <1>6, SettleStep
<1>7. CASE ConcludeFailed(x)
  <2>1. \/ Settle(x, Concluded(n, r.query, TRUE, {}))
        \/ Settle(x, SpecialistFailed)
    BY <1>7 DEF ConcludeFailed
  <2>2. Concluded(n, r.query, TRUE, {}) \in Result
    BY <1>3, ConcludedIsResult
  <2>3. SpecialistFailed \in Result
    BY DEF SpecialistFailed, Review, Result, ErrorCode
  <2>4. called' = [called EXCEPT ![x] = called[x]]
    BY <1>2, <1>7 DEF ConcludeFailed, TablesAreWhole
  <2> PICK k \in 0..2 : k = called[x]
    BY <1>4
  <2> QED
    BY <1>6, <2>1, <2>2, <2>3, <2>4
<1>8. ASSUME NEW hits \in SUBSET Hit, Conclude(x, hits) PROVE IInv'
  <2>1. /\ Settle(x, Concluded(n, r.query, FALSE, hits))
        /\ \/ Calls(n, r.query) = <<>> /\ UNCHANGED called
           \/ called[x] + 1 = Len(Calls(n, r.query)) /\ called' = [called EXCEPT ![x] = called[x] + 1]
    BY <1>8 DEF Conclude, Planned
  <2>2. n = "customer" /\ r.query.customer # NoMatch => r.query.customer \in DOMAIN Accounts
    <3> SUFFICES ASSUME n = "customer", r.query.customer # NoMatch
                 PROVE  r.query.customer \in DOMAIN Accounts
      OBVIOUS
    <3>1. Calls(n, r.query) = <<"customer.get_customer", "customer.get_accounts">>
      BY PlannedCalls
    <3>2. Calls(n, r.query) # <<>> /\ Len(Calls(n, r.query)) = 2
      BY <3>1
    <3>3. called[x] + 1 = 2
      BY <2>1, <3>2
    <3> QED
      BY <1>4, <3>3
  <2>3. Concluded(n, r.query, FALSE, hits) \in Result
    BY <1>3, <2>2, ConcludedIsResult
  <2>4. \E k \in 0..2 : called' = [called EXCEPT ![x] = k]
    <3>1. CASE UNCHANGED called
      <4>1. called' = [called EXCEPT ![x] = called[x]] /\ called[x] \in 0..2
        BY <1>2, <1>4, <3>1 DEF TablesAreWhole
      <4> QED
        BY <4>1
    <3>2. CASE called' = [called EXCEPT ![x] = called[x] + 1]
      <4>1. called[x] + 1 \in 0..2
        BY <1>4
      <4> QED
        BY <3>2, <4>1
    <3> QED
      BY <2>1, <3>1, <3>2
  <2> QED
    BY <1>6, <2>1, <2>3, <2>4
<1> QED
  BY <1>7, <1>8

-----------------------------------------------------------------------------
(* A request arrives, or is too large (middleware.py 41-60).               *)
LEMMA ArriveIInv ==
  ASSUME IInv, [Next]_vars, NEW x \in Exchange, NEW r \in Requests[x], Arrive(x, r)
  PROVE  IInv'
<1>1. /\ UNCHANGED <<settings, route, called, result, reply, overdue, counted>> /\ UNCHANGED store
      /\ req' = [req EXCEPT ![x] = r] /\ pc[x] = "new"
      /\ \/ pc' = [pc EXCEPT ![x] = "done"] /\ status' = [status EXCEPT ![x] = 413]
         \/ pc' = [pc EXCEPT ![x] = "dependencies"] /\ status' = status
  BY DEF Arrive, Goto
<1>2. /\ TablesAreWhole /\ IsTyped(x) /\ HandlingIsSound(x) /\ StoreIsSound(x) /\ Uncounted(x)
  BY WhatHolds
<1>3. /\ called[x] = 0 /\ result[x] = NoResult /\ reply[x] = 0 /\ status[x] = 0
      /\ ~ Stored(x) /\ ~ Pending(x) /\ call[x] = Store!NoCall
  BY <1>1, <1>2 DEF HandlingIsSound, StoreIsSound, Uncounted, Early
<1>4. /\ req'[x] = r /\ called'[x] = 0 /\ result'[x] = NoResult /\ reply'[x] = 0
      /\ \/ pc'[x] = "done" /\ status'[x] = 413
         \/ pc'[x] = "dependencies" /\ status'[x] = 0
  BY <1>1, <1>2, <1>3 DEF TablesAreWhole
<1>5. OnlyHandling(x)
  <2>1. Only(x, pc, pc') /\ Only(x, status, status')
    BY <1>1, <1>2 DEF Only, TablesAreWhole
  <2> QED
    BY <1>1, <1>2, <2>1 DEF OnlyHandling, Only, TablesAreWhole
<1>6. OnlyStore(x)
  BY <1>1, StoreUntouched
<1>7. IsTyped(x)'
  BY <1>1, <1>2, <1>4 DEF IsTyped, Place, Said
<1>8. ~ Stored(x)' /\ ~ Pending(x)' /\ call'[x] = Store!NoCall /\ limbo' = limbo
  BY <1>1, <1>3 DEF Stored, Pending, store
<1>9. HandlingIsSound(x)'
  <2>1. MayTell(x, status[x])' /\ MayTell(x, reply[x])'
    BY <1>4, <1>8 DEF MayTell
  <2> QED
    BY <1>4, <2>1 DEF HandlingIsSound, Early
<1>10. StoreIsSound(x)'
  BY <1>3, <1>4, <1>8 DEF StoreIsSound, Pending
<1> QED
  BY <1>1, <1>5, <1>6, <1>7, <1>9, <1>10, OneExchangeAtATime

(* Steps after the handler has ended, and its timer's (middleware.py 57-84).*)
LEMMA DeliverIInv ==
  ASSUME IInv, [Next]_vars, NEW x \in Exchange, Deliver(x)
  PROVE  IInv'
<1> PICK s, st : s = reply[x] /\ st = status[x]
  OBVIOUS
<1>1. /\ UNCHANGED <<settings, req, route, called, result>> /\ UNCHANGED store /\ pc[x] = "response"
      /\ pc' = [pc EXCEPT ![x] = "done"] /\ reply' = [reply EXCEPT ![x] = 0]
      /\ overdue' = [overdue EXCEPT ![x] = FALSE]
      /\ status' = IF st = 0 THEN [status EXCEPT ![x] = s] ELSE status
      /\ counted' = IF s = 500 \/ st # 0 THEN counted ELSE [counted EXCEPT ![x] = Append(counted[x], s)]
  BY DEF Deliver, Goto, StopTimer, Answer, Count, work
<1>2. /\ TablesAreWhole /\ IsTyped(x) /\ HandlingIsSound(x) /\ StoreIsSound(x) /\ Uncounted(x)
  BY WhatHolds
<1>3. s # 0 /\ s \in Said /\ MayTell(x, s) /\ MayTell(x, st) /\ counted[x] \in Counts
  BY <1>1, <1>2 DEF HandlingIsSound, IsTyped
<1>4. /\ pc'[x] = "done" /\ reply'[x] = 0 /\ overdue'[x] = FALSE /\ status'[x] \in {s, st}
      /\ counted'[x] \in {counted[x], Append(counted[x], s)}
  BY <1>1, <1>2 DEF TablesAreWhole
<1>5. OnlyHandling(x)
  <2>1. Only(x, status, status') /\ Only(x, counted, counted')
    BY <1>1, <1>2 DEF Only, TablesAreWhole
  <2> QED
    BY <1>1, <1>2, <2>1 DEF OnlyHandling, Only, TablesAreWhole
<1>6. OnlyStore(x)
  BY <1>1, StoreUntouched
<1>7. IsTyped(x)'
  <2>1. Append(counted[x], s) \in Counts
    BY <1>3, AppendsStatus
  <2>2. counted'[x] \in Counts
    BY <1>3, <1>4, <2>1
  <2>3. status'[x] \in Said \cup {413} /\ reply'[x] \in Said
    BY <1>2, <1>3, <1>4 DEF IsTyped, Said
  <2>4. /\ req'[x] = req[x] /\ route'[x] = route[x]
        /\ called'[x] = called[x] /\ result'[x] = result[x]
    BY <1>1
  <2>5. pc'[x] \in Place /\ overdue'[x] \in BOOLEAN
    BY <1>4 DEF Place
  <2> QED
    BY <1>2, <2>2, <2>3, <2>4, <2>5 DEF IsTyped
<1>8. /\ (Stored(x)' <=> Stored(x)) /\ (Pending(x)' <=> Pending(x)) /\ (Investigates(x)' <=> Investigates(x))
      /\ approvals' = approvals /\ call' = call /\ limbo' = limbo
  BY <1>1 DEF Stored, Pending, Investigates, store
<1>9. HandlingIsSound(x)'
  <2>1. \A w : MayTell(x, w)' <=> MayTell(x, w)
    BY <1>1, <1>8 DEF MayTell
  <2>2. MayTell(x, s)' /\ MayTell(x, st)'
    BY <1>3, <2>1
  <2> PICK w \in {s, st} : w = status'[x]
    BY <1>4
  <2>3. MayTell(x, status[x])' /\ MayTell(x, reply[x])'
    <3>1. MayTell(x, w)' /\ reply'[x] = 0
      BY <1>4, <2>2
    <3> QED
      BY <3>1 DEF MayTell
  <2> QED
    BY <1>1, <1>2, <1>4, <1>8, <2>3 DEF HandlingIsSound, Early
<1>10. StoreIsSound(x)'
  <2>1. TenantFor(req[x])' = TenantFor(req[x]) /\ Creation(x)' = Creation(x)
    BY <1>1, TenantIsFixed DEF TenantFor
  <2> QED
    BY <1>1, <1>2, <1>4, <1>8, <2>1 DEF StoreIsSound
<1> QED
  BY <1>1, <1>5, <1>6, <1>7, <1>9, <1>10, OneExchangeAtATime

(* The timer of a request expires, and then answers for a handler that has *)
(* not (middleware.py 58-84).                                              *)
LEMMA TimerIInv ==
  ASSUME IInv, [Next]_vars, NEW x \in Exchange, Expire(x) \/ TimeOut(x)
  PROVE  IInv'
<1> PICK s, st : s = reply[x] /\ st = status[x]
  OBVIOUS
<1>1. /\ UNCHANGED <<settings, pc, req, route, called, result, reply>> /\ UNCHANGED store
      /\ \/ overdue' = [overdue EXCEPT ![x] = TRUE] /\ status' = status /\ counted' = counted
         \/ /\ overdue' = [overdue EXCEPT ![x] = FALSE] /\ status' = [status EXCEPT ![x] = 504]
            /\ counted' = [counted EXCEPT ![x] = Append(counted[x], 504)]
  BY DEF Expire, TimeOut, StopTimer, Answer, Count, work
<1>2. /\ TablesAreWhole /\ IsTyped(x) /\ HandlingIsSound(x) /\ StoreIsSound(x)
  BY WhatHolds
<1>3. MayTell(x, s) /\ MayTell(x, st) /\ counted[x] \in Counts
  BY <1>1, <1>2 DEF HandlingIsSound, IsTyped
<1>4. /\ overdue'[x] \in BOOLEAN /\ status'[x] \in {504, st}
      /\ counted'[x] \in {counted[x], Append(counted[x], 504)}
  <2>1. CASE overdue' = [overdue EXCEPT ![x] = TRUE] /\ status' = status /\ counted' = counted
    BY <1>2, <2>1 DEF TablesAreWhole
  <2>2. CASE /\ overdue' = [overdue EXCEPT ![x] = FALSE] /\ status' = [status EXCEPT ![x] = 504]
             /\ counted' = [counted EXCEPT ![x] = Append(counted[x], 504)]
    BY <1>2, <2>2 DEF TablesAreWhole
  <2> QED
    BY <1>1, <2>1, <2>2
<1>5. OnlyHandling(x)
  <2>1. Only(x, overdue, overdue') /\ Only(x, status, status') /\ Only(x, counted, counted')
    BY <1>1, <1>2 DEF Only, TablesAreWhole
  <2> QED
    BY <1>1, <1>2, <2>1 DEF OnlyHandling, Only, TablesAreWhole
<1>6. OnlyStore(x)
  BY <1>1, StoreUntouched
<1>7. IsTyped(x)'
  <2>1. Append(counted[x], 504) \in Counts
    <3>1. 504 \in Said \ {0}
      BY DEF Said
    <3> QED
      BY <1>3, <3>1, AppendsStatus
  <2>2. counted'[x] \in Counts
    BY <1>3, <1>4, <2>1
  <2>3. status'[x] \in Said \cup {413}
    BY <1>2, <1>4 DEF IsTyped, Said
  <2> QED
    BY <1>1, <1>2, <1>4, <2>2, <2>3 DEF IsTyped
<1>8. /\ (Stored(x)' <=> Stored(x)) /\ (Pending(x)' <=> Pending(x)) /\ (Investigates(x)' <=> Investigates(x))
      /\ approvals' = approvals /\ call' = call /\ limbo' = limbo
  BY <1>1 DEF Stored, Pending, Investigates, store
<1>9. HandlingIsSound(x)'
  <2>1. \A w : MayTell(x, w)' <=> MayTell(x, w)
    BY <1>1, <1>8 DEF MayTell
  <2>2. MayTell(x, s)' /\ MayTell(x, st)' /\ MayTell(x, 504)'
    <3>1. MayTell(x, 504)'
      BY DEF MayTell
    <3> QED
      BY <1>3, <2>1, <3>1
  <2> PICK w \in {504, st} : w = status'[x]
    BY <1>4
  <2>3. MayTell(x, status[x])' /\ MayTell(x, reply[x])'
    <3>1. MayTell(x, w)' /\ MayTell(x, s)' /\ reply'[x] = s
      BY <1>1, <2>2
    <3> QED
      BY <3>1 DEF MayTell
  <2>4. AgentIsSound(x)' <=> AgentIsSound(x)
    <3>1. TenantFor(req[x])' = TenantFor(req[x])
      BY <1>1 DEF TenantFor
    <3> QED
      BY <1>1, <1>8, <3>1 DEF AgentIsSound
  <2> QED
    BY <1>1, <1>2, <1>8, <2>3, <2>4 DEF HandlingIsSound
<1>10. StoreIsSound(x)'
  <2>1. TenantFor(req[x])' = TenantFor(req[x]) /\ Creation(x)' = Creation(x)
    BY <1>1, TenantIsFixed DEF TenantFor
  <2> QED
    BY <1>1, <1>2, <1>8, <2>1 DEF StoreIsSound
<1> QED
  BY <1>1, <1>5, <1>6, <1>7, <1>9, <1>10, OneExchangeAtATime

-----------------------------------------------------------------------------
(* A step of the store on behalf of an exchange: it may write the approval *)
(* the exchange asks for, or leave its request behind, while the call is   *)
(* open or long after it (state/store.py 30-60).                           *)
LEMMA StoreMoves ==
  ASSUME IInv, [Next]_vars, NEW x \in Exchange,
         UNCHANGED <<pc, reply, work, Unanswered>>, OnlyStore(x),
         Stored(x) \/ Pending(x) \/ pc[x] = "store",
         approvals'[x] \in {approvals[x], Store!Pending(Creation(x))},
         \A q \in limbo' : q.id = x => q = Creation(x),
         Stored(x)' \/ Pending(x)' => Stored(x) \/ Pending(x) \/ pc[x] = "store",
         pc[x] # "store" => call'[x] = call[x],
         pc[x] = "store" =>
           \E answer \in {"open", "ok", "error"}, row \in Store!Row :
             call'[x] = At(Creation(x), answer, row) /\ (answer = "ok" => Stored(x)')
  PROVE  IInv'
<1> PICK made, r, s, st : made = Creation(x) /\ r = req[x] /\ s = reply[x] /\ st = status[x]
  OBVIOUS
<1>1. UNCHANGED <<settings, pc, req, route, called, result, reply, overdue, status, counted>>
  BY DEF work, Unanswered
<1>2. /\ TablesAreWhole /\ IsTyped(x) /\ HandlingIsSound(x) /\ StoreIsSound(x) /\ Uncounted(x)
  BY WhatHolds
<1>3. /\ pc[x] \in {"store", "response", "done"} /\ Investigates(x)
      /\ result[x].approval /\ TenantFor(r) \in Tenant
      /\ (Stored(x) => approvals[x] = Store!Pending(made))
  BY <1>2 DEF StoreIsSound
<1>4. TenantFor(r)' = TenantFor(r) /\ Creation(x)' = made
  BY <1>1, TenantIsFixed
<1>5. Store!Pending(made) # Store!Absent
  BY <1>3, CreationType
<1>6. Stored(x) => Stored(x)'
  BY <1>3, <1>5 DEF Stored
<1>7. OnlyHandling(x)
  BY <1>1, <1>2 DEF OnlyHandling, Only, TablesAreWhole
<1>8. IsTyped(x)'
  BY <1>1, <1>2 DEF IsTyped
<1>9. MayTell(x, status[x])' /\ MayTell(x, reply[x])'
  <2>1. ASSUME NEW w, MayTell(x, w), pc[x] = "store" => w \in {0, 504} PROVE MayTell(x, w)'
    <3>1. called'[x] = called[x] /\ result'[x] = result[x] /\ (Investigates(x)' <=> Investigates(x))
      BY <1>1 DEF Investigates
    <3>2. w = 200 => Stored(x)
      BY <1>3, <2>1 DEF MayTell
    <3>3. Stored(x)' \/ Pending(x)' => w \in {0, 200, 500, 504}
      BY <2>1 DEF MayTell
    <3> QED
      BY <1>6, <2>1, <3>1, <3>2, <3>3 DEF MayTell
  <2>2. MayTell(x, st) /\ MayTell(x, s) /\ (pc[x] = "store" => s = 0 /\ st \in {0, 504})
    BY <1>2 DEF HandlingIsSound, Uncounted
  <2>3. MayTell(x, st)' /\ MayTell(x, s)'
    BY <2>1, <2>2
  <2> QED
    BY <1>1, <2>3 DEF MayTell
<1>10. HandlingIsSound(x)'
  <2>1. Investigates(x)' <=> Investigates(x)
    BY <1>1 DEF Investigates
  <2> QED
    BY <1>1, <1>2, <1>3, <1>9, <2>1 DEF HandlingIsSound, Early
<1>11. StoreIsSound(x)'
  <2>1. Stored(x)' => approvals'[x] = Store!Pending(made)
    BY <1>3 DEF Stored
  <2>2. Investigates(x)' /\ TenantFor(req[x])' \in Tenant
    BY <1>1, <1>3, <1>4 DEF Investigates
  <2>3. pc[x] # "store" => call'[x] = Store!NoCall
    BY <1>2 DEF StoreIsSound
  <2> QED
    BY <1>1, <1>3, <1>4, <2>1, <2>2, <2>3 DEF StoreIsSound
<1> QED
  BY <1>1, <1>7, <1>8, <1>10, <1>11, OneExchangeAtATime

(* Two fields of a call set by the store.                                  *)
SetAnswer(f, y, v, w) == [f EXCEPT ![y].answer = v, ![y].row = w]
SetCall(f, y, c)      == [f EXCEPT ![y] = c]

(* An answer replaces the call (state/store.py 30-60).                     *)
LEMMA Answering ==
  ASSUME NEW f, NEW S, f = [y \in S |-> f[y]], NEW x \in S,
         NEW r, NEW a, NEW row, f[x] = At(r, a, row), NEW v, NEW w
  PROVE  SetAnswer(f, x, v, w) = SetCall(f, x, At(r, v, w))
<1> USE DEF SetAnswer, SetCall
<1> DEFINE old == f[x]
           half == [f EXCEPT ![x].answer = v]
<1>1. [old EXCEPT !.answer = v] = At(r, v, row)
  <2>1. old = At(r, a, row)
    OBVIOUS
  <2> HIDE DEF old
  <2> QED
    BY <2>1 DEF At
<1>2. half = [f EXCEPT ![x] = At(r, v, row)]
  BY <1>1
<1> HIDE DEF half, old
<1>3. half[x] = At(r, v, row) /\ half = [y \in S |-> half[y]]
      /\ \A y \in S \ {x} : half[y] = f[y]
  BY <1>2
<1> DEFINE mid == half[x]
<1>4. [mid EXCEPT !.row = w] = At(r, v, w)
  <2>1. mid = At(r, v, row)
    BY <1>3
  <2> HIDE DEF mid
  <2> QED
    BY <2>1 DEF At
<1>5. [half EXCEPT ![x].row = w] = [half EXCEPT ![x] = At(r, v, w)]
  BY <1>4
<1>6. [half EXCEPT ![x] = At(r, v, w)] = [f EXCEPT ![x] = At(r, v, w)]
  BY <1>2, <1>3
<1> QED
  BY <1>5, <1>6 DEF half

(* create_pending takes effect or raises while the loop is blocked (app.py *)
(* 230-238, 445-451).                                                      *)
LEMMA StoreStepIInv ==
  ASSUME IInv, [Next]_vars, NEW x \in Exchange, StoreStep(x)
  PROVE  IInv'
<1> PICK made : made = Creation(x)
  OBVIOUS
<1>1. /\ pc[x] = "store" /\ Store!Open(x) /\ UNCHANGED <<pc, reply, work, Unanswered>>
      /\ Store!Succeed(x) \/ Store!Raise(x)
  BY DEF StoreStep
<1>2. StoreIsSound(x) /\ Store!TypeOK
  BY WhatHolds
<1>3. /\ TenantFor(req[x]) \in Tenant /\ call \in [Exchange -> Store!Call \cup {Store!NoCall}]
      /\ limbo \subseteq Store!Request /\ approvals \in [Exchange -> Store!Row]
      /\ (Stored(x) => approvals[x] = Store!Pending(made))
      /\ \A q \in limbo : q.id = x => q = made
  BY <1>1, <1>2 DEF StoreIsSound, Store!TypeOK
<1>4. PICK row \in Store!Row : call[x] = At(made, "open", row)
  <2>1. PICK answer \in {"open", "ok", "error"}, row \in Store!Row : call[x] = At(made, answer, row)
    BY <1>1, <1>2 DEF StoreIsSound
  <2>2. call[x].answer = answer
    BY <2>1 DEF At
  <2>3. answer = "open"
    BY <1>1, <2>2 DEF Store!Open
  <2> QED
    BY <2>1, <2>3
<1>5. /\ made \in Store!Request /\ made.id = x /\ made.op = "create"
      /\ Store!Written(made) = Store!Pending(made)
      /\ Store!Pending(made) \in Store!Row /\ Store!Pending(made) # Store!Absent
  BY <1>3, CreationType
<1>6. call[x].request = made
  BY <1>4 DEF At
<1>7. ASSUME NEW a \in {"ok", "error"}, NEW w \in Store!Row PROVE At(made, a, w) \in Store!Call
  BY <1>5 DEF At, Store!Call, Store!Answer
<1>8. CASE Store!Succeed(x)
  <2>1. /\ approvals' = [approvals EXCEPT ![x] = Store!Pending(made)] /\ limbo' = limbo
        /\ call' = SetAnswer(call, x, "ok", Store!Pending(made))
    BY <1>5, <1>6, <1>8 DEF Store!Succeed, Store!Apply, Store!Answers, SetAnswer
  <2>2. call' = [call EXCEPT ![x] = At(made, "ok", Store!Pending(made))]
    <3>1. call = [y \in Exchange |-> call[y]]
      BY <1>3
    <3> QED
      BY <1>4, <2>1, <3>1, Answering DEF SetCall
  <2>3. Store!TypeOK'
    BY <1>3, <1>5, <1>7, <2>1, <2>2 DEF Store!TypeOK
  <2>4. /\ call'[x] = At(made, "ok", Store!Pending(made)) /\ approvals'[x] = Store!Pending(made)
        /\ \A y \in Exchange \ {x} : call'[y] = call[y] /\ approvals'[y] = approvals[y]
    BY <1>3, <2>1, <2>2
  <2>5. OnlyStore(x)
    BY <2>1, <2>3, <2>4 DEF OnlyStore
  <2>6. Stored(x)'
    BY <1>5, <2>4 DEF Stored
  <2>7. \E answer \in {"open", "ok", "error"}, w \in Store!Row :
          call'[x] = At(made, answer, w) /\ (answer = "ok" => Stored(x)')
    BY <1>5, <2>4, <2>6
  <2> QED
    BY <1>1, <1>3, <2>1, <2>4, <2>5, <2>7, StoreMoves
<1>9. CASE Store!Raise(x)
  <2>1. /\ approvals' = approvals /\ limbo' \in {limbo, limbo \cup {made}}
        /\ call' \in {call, SetAnswer(call, x, "error", Store!Absent)}
    BY <1>6, <1>9 DEF Store!Raise, SetAnswer
  <2>2. call' \in {call, [call EXCEPT ![x] = At(made, "error", Store!Absent)]}
    <3>1. call = [y \in Exchange |-> call[y]]
      BY <1>3
    <3>2. SetAnswer(call, x, "error", Store!Absent) = [call EXCEPT ![x] = At(made, "error", Store!Absent)]
      BY <1>4, <3>1, Answering DEF SetCall
    <3> QED
      BY <2>1, <3>2
  <2>3. Store!Absent \in Store!Row
    BY DEF Store!Row
  <2>4. Store!TypeOK'
    <3>1. call' \in [Exchange -> Store!Call \cup {Store!NoCall}]
      BY <1>3, <1>7, <2>2, <2>3
    <3>2. limbo' \subseteq Store!Request /\ approvals' \in [Exchange -> Store!Row]
      BY <1>3, <1>5, <2>1
    <3> QED
      BY <3>1, <3>2 DEF Store!TypeOK
  <2>5. /\ call'[x] \in {At(made, "open", row), At(made, "error", Store!Absent)}
        /\ \A y \in Exchange \ {x} : call'[y] = call[y]
    BY <1>3, <1>4, <2>2
  <2>6. OnlyStore(x)
    BY <1>5, <2>1, <2>4, <2>5 DEF OnlyStore
  <2>7. \E answer \in {"open", "ok", "error"}, w \in Store!Row :
          call'[x] = At(made, answer, w) /\ (answer = "ok" => Stored(x)')
    BY <2>3, <2>5
  <2>8. \A q \in limbo' : q.id = x => q = made
    BY <1>3, <2>1
  <2> QED
    BY <1>1, <2>1, <2>6, <2>7, <2>8, StoreMoves
<1> QED
  BY <1>1, <1>8, <1>9

(* A request left behind takes effect, or never will (redis.py 46-58,      *)
(* postgres.py 136-173).                                                   *)
LEMMA StoreLateIInv ==
  ASSUME IInv, [Next]_vars, StoreLate
  PROVE  IInv'
<1>1. PICK r \in limbo : Store!Late(r)
  BY DEF StoreLate
<1>2. UNCHANGED <<pc, reply, work, Unanswered>>
  BY DEF StoreLate
<1>3. r \in Store!Request /\ Store!TypeOK
  BY DEF IInv, TypeOK, Store!TypeOK
<1> PICK x \in Exchange : x = r.id
  BY <1>3 DEF Store!Request
<1> PICK made : made = Creation(x)
  OBVIOUS
<1>4. StoreIsSound(x)
  BY WhatHolds
<1>5. Pending(x)
  BY DEF Pending
<1>6. /\ r = made /\ TenantFor(req[x]) \in Tenant
      /\ call \in [Exchange -> Store!Call \cup {Store!NoCall}]
      /\ limbo \subseteq Store!Request /\ approvals \in [Exchange -> Store!Row]
      /\ \A q \in limbo : q.id = x => q = made
  BY <1>3, <1>4, <1>5 DEF StoreIsSound, Store!TypeOK
<1>7. /\ made.id = x /\ Store!Written(made) = Store!Pending(made)
      /\ Store!Pending(made) \in Store!Row /\ Store!Pending(made) # Store!Absent
  BY <1>6, CreationType
<1>8. /\ limbo' = limbo \ {made} /\ call' = call
      /\ approvals' \in {approvals, [approvals EXCEPT ![x] = Store!Pending(made)]}
  BY <1>1, <1>6, <1>7 DEF Store!Late, Store!Apply
<1>9. /\ approvals'[x] \in {approvals[x], Store!Pending(made)} /\ approvals' \in [Exchange -> Store!Row]
      /\ \A y \in Exchange \ {x} : approvals'[y] = approvals[y]
  BY <1>6, <1>7, <1>8
<1>10. OnlyStore(x)
  <2>1. Store!TypeOK'
    BY <1>6, <1>8, <1>9 DEF Store!TypeOK
  <2> QED
    BY <1>7, <1>8, <1>9, <2>1 DEF OnlyStore
<1>11. pc[x] = "store" =>
         \E answer \in {"open", "ok", "error"}, row \in Store!Row :
           call'[x] = At(made, answer, row) /\ (answer = "ok" => Stored(x)')
  <2>1. Stored(x) => Stored(x)'
    BY <1>7, <1>9 DEF Stored
  <2> QED
    BY <1>4, <1>8, <2>1 DEF StoreIsSound
<1> QED
  BY <1>2, <1>5, <1>6, <1>8, <1>9, <1>10, <1>11, StoreMoves

(* create_pending returned: 200 is said of an approval that is stored      *)
(* (app.py 238-254).                                                       *)
LEMMA ResumeIInv ==
  ASSUME IInv, [Next]_vars, NEW x \in Exchange, Resume(x)
  PROVE  IInv'
<1> PICK made, r, st : made = Creation(x) /\ r = req[x] /\ st = status[x]
  OBVIOUS
<1>1. /\ pc[x] = "store" /\ Store!Return(x)
      /\ UNCHANGED <<settings, req, route, called, result, overdue, status, counted>>
  BY DEF Resume, Unanswered, work
<1>2. PICK s \in (IF call[x].answer = "ok" THEN {200} ELSE {500, 504}) : Respond(x, s)
  BY DEF Resume, Raised
<1>3. pc' = [pc EXCEPT ![x] = "response"] /\ reply' = [reply EXCEPT ![x] = s]
  BY <1>2 DEF Respond, Goto
<1>4. s \in {200, 500, 504} /\ (s = 200 => call[x].answer = "ok")
  <2>1. CASE call[x].answer = "ok"
    BY <2>1
  <2>2. CASE call[x].answer # "ok"
    <3>1. s \in {500, 504}
      BY <2>2
    <3> QED
      BY <2>2, <3>1
  <2> QED
    BY <2>1, <2>2
<1>5. /\ TablesAreWhole /\ IsTyped(x) /\ HandlingIsSound(x) /\ StoreIsSound(x) /\ Uncounted(x)
      /\ Store!TypeOK
  BY WhatHolds
<1>6. /\ call' = [call EXCEPT ![x] = Store!NoCall] /\ approvals' = approvals /\ limbo' = limbo
      /\ call \in [Exchange -> Store!Call \cup {Store!NoCall}]
  BY <1>1, <1>5 DEF Store!Return, Store!TypeOK
<1>7. /\ Investigates(x) /\ result[x].approval /\ TenantFor(r) \in Tenant /\ r \in Requests[x]
      /\ (s = 200 => Stored(x)) /\ st \in {0, 504}
  <2>1. call[x].answer = "ok" => Stored(x)
    <3>1. PICK answer, row : call[x] = At(made, answer, row) /\ (answer = "ok" => Stored(x))
      BY <1>1, <1>5 DEF StoreIsSound
    <3> QED
      BY <3>1 DEF At
  <2> QED
    BY <1>1, <1>4, <1>5, <2>1 DEF StoreIsSound, HandlingIsSound, Uncounted
<1>8. /\ pc'[x] = "response" /\ reply'[x] = s /\ status'[x] = st /\ call'[x] = Store!NoCall
      /\ \A y \in Exchange \ {x} : call'[y] = call[y]
  BY <1>1, <1>3, <1>5, <1>6 DEF TablesAreWhole
<1>9. TenantFor(r)' = TenantFor(r) /\ Creation(x)' = made
  BY <1>1, TenantIsFixed
<1>10. /\ (Stored(x)' <=> Stored(x)) /\ (Pending(x)' <=> Pending(x)) /\ (Investigates(x)' <=> Investigates(x))
  BY <1>1, <1>6 DEF Stored, Pending, Investigates
<1>11. OnlyHandling(x)
  <2>1. Only(x, pc, pc') /\ Only(x, reply, reply')
    <3>1. pc = [y \in Exchange |-> pc[y]] /\ reply = [y \in Exchange |-> reply[y]]
      BY <1>5 DEF TablesAreWhole
    <3>2. Only(x, pc, pc')
      BY <1>3, <3>1 DEF Only
    <3>3. Only(x, reply, reply')
      BY <1>3, <3>1 DEF Only
    <3> QED
      BY <3>2, <3>3
  <2> QED
    BY <1>1, <1>5, <2>1 DEF OnlyHandling, Only, TablesAreWhole
<1>12. OnlyStore(x)
  <2>1. Store!TypeOK'
    BY <1>5, <1>6 DEF Store!TypeOK
  <2> QED
    BY <1>6, <1>8, <2>1 DEF OnlyStore
<1>13. IsTyped(x)'
  BY <1>1, <1>5, <1>8 DEF IsTyped, Place, Said
<1>14. HandlingIsSound(x)'
  <2>1. MayTell(x, status[x])' /\ MayTell(x, reply[x])'
    BY <1>7, <1>8, <1>10 DEF MayTell
  <2> QED
    BY <1>1, <1>5, <1>7, <1>8, <1>10, <2>1 DEF HandlingIsSound, Early
<1>15. StoreIsSound(x)'
  BY <1>1, <1>5, <1>6, <1>7, <1>8, <1>9, <1>10 DEF StoreIsSound
<1> QED
  BY <1>1, <1>11, <1>12, <1>13, <1>14, <1>15, OneExchangeAtATime

-----------------------------------------------------------------------------
(* The process starts with nothing in progress (app.py 106-129).           *)
LEMMA InitIInv == Init => IInv
<1> SUFFICES ASSUME Init PROVE IInv
  OBVIOUS
<1>1. /\ settings \in Configurations
      /\ pc = [y \in Exchange |-> "new"] /\ req = [y \in Exchange |-> NoRequest]
      /\ route = [y \in Exchange |-> "human_review"] /\ called = [y \in Exchange |-> 0]
      /\ result = [y \in Exchange |-> NoResult] /\ reply = [y \in Exchange |-> 0]
      /\ overdue = [y \in Exchange |-> FALSE] /\ status = [y \in Exchange |-> 0]
      /\ counted = [y \in Exchange |-> <<>>]
  BY DEF Init
<1>2. /\ approvals = [y \in Exchange |-> Store!Absent] /\ call = [y \in Exchange |-> Store!NoCall]
      /\ limbo = {}
  BY DEF Init, Store!Init
<1>3. CountsIInv
  BY <1>1 DEF CountsIInv, TablesArePerExchange, Uncounted, Truth
<1>4. Store!TypeOK
  BY <1>2 DEF Store!TypeOK, Store!Row
<1>5. TypeOK
  BY <1>1, <1>4 DEF TypeOK
<1>6. WorkIsPerExchange
  BY <1>1 DEF WorkIsPerExchange
<1>7. ASSUME NEW x \in Exchange PROVE HandlingIsSound(x) /\ StoreIsSound(x)
  <2>1. /\ pc[x] = "new" /\ called[x] = 0 /\ result[x] = NoResult /\ reply[x] = 0 /\ status[x] = 0
        /\ call[x] = Store!NoCall /\ ~ Stored(x) /\ ~ Pending(x)
    BY <1>1, <1>2 DEF Stored, Pending
  <2>2. MayTell(x, status[x]) /\ MayTell(x, reply[x])
    BY <2>1 DEF MayTell
  <2> QED
    BY <1>2, <2>1, <2>2 DEF HandlingIsSound, StoreIsSound, Early
<1> QED
  BY <1>3, <1>5, <1>6, <1>7 DEF IInv

(* One case per action of the loop, of the store and of the timers.        *)
LEMMA NextIInv == IInv /\ [Next]_vars => IInv'
<1> SUFFICES ASSUME IInv, [Next]_vars PROVE IInv'
  OBVIOUS
<1>1. ASSUME NEW x \in Exchange, Handle(x) PROVE IInv'
  <2>1. CASE \E limited \in BOOLEAN : Refuse(x, limited)
    BY <2>1, RefuseIInv
  <2>2. CASE Inform(x)
    BY <2>2, InformIInv
  <2>3. CASE AskModel(x)
    BY <2>3, AskModelIInv
  <2>4. CASE Retrieved(x)
    BY <2>4, RetrievedIInv
  <2>5. CASE ModelEnds(x)
    BY <2>5, ModelEndsIInv
  <2>6. CASE \E node \in Domain \cup {"human_review"} : Investigate(x, node)
    BY <2>6, InvestigateIInv
  <2>7. CASE ToolReturns(x)
    BY <2>7, ToolReturnsIInv
  <2>8. CASE ConcludeFailed(x) \/ \E hits \in SUBSET Hit : Conclude(x, hits)
    BY <2>8, ConcludeIInv
  <2> QED
    BY <1>1, <2>1, <2>2, <2>3, <2>4, <2>5, <2>6, <2>7, <2>8 DEF Handle
<1>2. ASSUME NEW x \in Exchange, NEW r \in Requests[x], Arrive(x, r) PROVE IInv'
  BY <1>2, ArriveIInv
<1>3. ASSUME NEW x \in Exchange, StoreStep(x) PROVE IInv'
  BY <1>3, StoreStepIInv
<1>4. ASSUME NEW x \in Exchange, Resume(x) PROVE IInv'
  BY <1>4, ResumeIInv
<1>5. ASSUME NEW x \in Exchange, Deliver(x) PROVE IInv'
  BY <1>5, DeliverIInv
<1>6. ASSUME NEW x \in Exchange, Expire(x) \/ TimeOut(x) PROVE IInv'
  BY <1>6, TimerIInv
<1>7. CASE StoreLate
  BY <1>7, StoreLateIInv
<1>8. CASE UNCHANGED vars
  <2>1. UNCHANGED <<settings, pc, req, route, called, result, reply, overdue, status, counted>>
        /\ UNCHANGED <<approvals, call, limbo>>
    BY <1>8 DEF vars, work, store
  <2>2. CountsIInv' /\ WorkIsPerExchange'
    BY <2>1, CountsStep DEF IInv, WorkIsPerExchange
  <2>3. TypeOK'
    BY <2>1 DEF IInv, TypeOK, Store!TypeOK
  <2>4. ASSUME NEW y \in Exchange PROVE HandlingIsSound(y)' /\ StoreIsSound(y)'
    <3>1. Same(y) /\ settings' = settings
      BY <2>1 DEF Same
    <3> QED
      BY <3>1, SameStaysSound DEF IInv
  <2> QED
    BY <2>2, <2>3, <2>4 DEF IInv
<1> QED
  BY <1>1, <1>2, <1>3, <1>4, <1>5, <1>6, <1>7, <1>8 DEF Next

(* The inductive invariant of the request path.                            *)
THEOREM Invariance == Spec => []IInv
<1> QED
  BY InitIInv, NextIInv, PTL DEF Spec

(* Every status is one the code can answer, every result one of a          *)
(* specialist, and no exchange makes a third tool call (models.py 35-79,   *)
(* agents/base.py 10-25).                                                  *)
THEOREM TypeCorrect == Spec => []TypeOK
<1>1. IInv => TypeOK
  BY DEF IInv
<1> QED
  BY <1>1, Invariance, PTL

(* What the client of an investigation was told is what the store holds,   *)
(* however the timer races the handler and whatever the store still does   *)
(* later: 200 exactly of the approvals that exist, nothing done after a    *)
(* refusal, no approval of another tenant, and no tool called for a        *)
(* consequential action (middleware.py 58-65, app.py 229-254, mock.py      *)
(* 28-34).                                                                 *)
THEOREM AnswersAreTrue == Spec => []AnswersTellTheTruth
<1>1. IInv => AnswersTellTheTruth
  <2> SUFFICES ASSUME IInv, NEW x \in Exchange
      PROVE  LET r == req[x] IN
             /\ status[x] = 200 /\ r.endpoint \in Investigations => (Stored(x) <=> result[x].approval)
             /\ Stored(x) \/ Pending(x) =>
                  /\ r.endpoint \in Investigations /\ result[x].approval
                  /\ status[x] \in {0, 200, 500, 504}
             /\ Stored(x) => approvals[x].tenant = TenantFor(r) /\ approvals[x].status = "pending"
             /\ status[x] \in 400..499 => called[x] = 0 /\ result[x] = NoResult
             /\ status[x] # 0 /\ r.endpoint \in Investigations /\ Consequential(r.query) =>
                  called[x] = 0 /\ (result[x] # NoResult => result[x].approval)
    BY DEF AnswersTellTheTruth
  <2>1. HandlingIsSound(x) /\ StoreIsSound(x) /\ Uncounted(x)
    BY WhatHolds
  <2>2. Stored(x) \/ Pending(x) => Investigates(x) /\ result[x].approval /\ TenantFor(req[x]) \in Tenant
    BY <2>1 DEF StoreIsSound
  <2>3. MayTell(x, status[x])
    BY <2>1 DEF HandlingIsSound
  <2>4. status[x] = 200 /\ Investigates(x) => (Stored(x) <=> result[x].approval)
    BY <2>2, <2>3 DEF MayTell
  <2>5. Stored(x) => approvals[x].tenant = TenantFor(req[x]) /\ approvals[x].status = "pending"
    <3>1. Stored(x) => approvals[x] = Store!Pending(Creation(x))
      BY <2>1 DEF StoreIsSound
    <3> QED
      BY <2>2, <3>1, CreationType
  <2>6. status[x] # 0 /\ Investigates(x) /\ Consequential(req[x].query) =>
          called[x] = 0 /\ (result[x] # NoResult => result[x].approval)
    BY <2>1 DEF HandlingIsSound, Uncounted
  <2> QED
    BY <2>2, <2>3, <2>4, <2>5, <2>6 DEF MayTell, Investigates
<1> QED
  BY <1>1, Invariance, PTL

-----------------------------------------------------------------------------
(***************************************************************************)
(* The request path as a client of the store, and as it advances.          *)
(***************************************************************************)
(* What is stored for an exchange stays as it was created, and what its    *)
(* client was told and what was counted of it are not taken back           *)
(* (middleware.py 48-84).                                                  *)
AnswersStay ==
  [][\A x \in Exchange :
       /\ Stored(x) => approvals'[x] = approvals[x]
       /\ status[x] # 0 => status'[x] = status[x]
       /\ counted[x] # <<>> => counted'[x] = counted[x]]_vars

(* A handler's step that touches the store is its call of create_pending,  *)
(* for the tenant the request acts for (app.py 230-238, 440-452).          *)
LEMMA HandlerInvokes ==
  ASSUME IInv, IInv', NEW x \in Exchange, Handle(x)
  PROVE  UNCHANGED store \/ (Creation(x) \in Store!Request /\ Store!Invoke(x, Creation(x)))
<1>1. UNCHANGED <<settings, req>>
  BY DEF Handle, Refuse, Inform, AskModel, Retrieved, ModelEnds, Investigate, ToolReturns,
         ConcludeFailed, Conclude, work, Unanswered
<1>2. UNCHANGED store \/ (Goto(x, "store") /\ Store!Invoke(x, Creation(x)))
  <2>1. ASSUME NEW res, Settle(x, res)
        PROVE  UNCHANGED store \/ (Goto(x, "store") /\ Store!Invoke(x, Creation(x)))
    BY <2>1 DEF Settle
  <2>2. ASSUME NEW node, Investigate(x, node)
        PROVE  UNCHANGED store \/ (Goto(x, "store") /\ Store!Invoke(x, Creation(x)))
    BY <2>1, <2>2 DEF Investigate
  <2>3. CASE ConcludeFailed(x) \/ \E hits \in SUBSET Hit : Conclude(x, hits)
    BY <2>1, <2>3 DEF ConcludeFailed, Conclude
  <2>4. ASSUME NEW limited, Refuse(x, limited) PROVE UNCHANGED store
    BY <2>4 DEF Refuse
  <2>5. Inform(x) \/ AskModel(x) \/ Retrieved(x) \/ ModelEnds(x) \/ ToolReturns(x) => UNCHANGED store
    BY DEF Inform, AskModel, Retrieved, ModelEnds, ToolReturns
  <2> QED
    BY <2>2, <2>3, <2>4, <2>5 DEF Handle
<1>3. CASE UNCHANGED store
  BY <1>3
<1>4. CASE Goto(x, "store") /\ Store!Invoke(x, Creation(x))
  <2>1. pc'[x] = "store" /\ StoreIsSound(x)'
    BY <1>4, WhatHolds DEF Goto, TablesAreWhole, IInv
  <2>2. TenantFor(req[x])' \in Tenant
    BY <2>1 DEF StoreIsSound
  <2>3. TenantFor(req[x]) \in Tenant
    BY <1>1, <2>2, TenantIsFixed
  <2> QED
    BY <1>4, <2>3, CreationType
<1> QED
  BY <1>2, <1>3, <1>4

(* Every step of the path is one the store contract allows.                *)
LEMMA NextUsesTheStore ==
  ASSUME IInv, [Next]_vars PROVE Store!Next \/ UNCHANGED Store!vars
<1>0. IInv'
  BY NextIInv
<1>1. ASSUME NEW x \in Exchange, Handle(x) PROVE Store!Next \/ UNCHANGED Store!vars
  <2>1. UNCHANGED store \/ (Creation(x) \in Store!Request /\ Store!Invoke(x, Creation(x)))
    BY <1>0, <1>1, HandlerInvokes
  <2> QED
    BY <2>1 DEF Store!Next, Store!vars, store
<1>2. ASSUME NEW x \in Exchange, StoreStep(x) PROVE Store!Next
  BY <1>2 DEF StoreStep, Store!Next
<1>3. ASSUME NEW x \in Exchange, Resume(x) PROVE Store!Next
  BY <1>3 DEF Resume, Store!Next
<1>4. CASE StoreLate
  BY <1>4 DEF StoreLate, Store!Next
<1>5. ASSUME NEW x \in Exchange, NEW r, Arrive(x, r) PROVE UNCHANGED Store!vars
  BY <1>5 DEF Arrive, store, Store!vars
<1>6. ASSUME NEW x \in Exchange, Deliver(x) \/ Expire(x) \/ TimeOut(x) PROVE UNCHANGED Store!vars
  BY <1>6 DEF Deliver, Expire, TimeOut, store, Store!vars
<1>7. UNCHANGED vars => UNCHANGED Store!vars
  BY DEF vars, store, Store!vars
<1> QED
  BY <1>1, <1>2, <1>3, <1>4, <1>5, <1>6, <1>7 DEF Next

(* The exchanges of any number of clients, with their timers, retries and  *)
(* tools, use the store as its protocol says: any backend that implements  *)
(* the contract will do (app.py 229-254, state/store.py 30-60).            *)
THEOREM PathUsesTheContract == Spec => Store!Spec
<1>1. Init => Store!Init
  BY DEF Init
<1>2. IInv /\ [Next]_vars => [Store!Next]_(Store!vars)
  BY NextUsesTheStore
<1> QED
  BY <1>1, <1>2, Invariance, PTL DEF Spec, Store!Spec

(* No step takes an approval back or changes it.                           *)
LEMMA ApprovalsStay ==
  ASSUME IInv, Store!Next \/ UNCHANGED Store!vars, NEW x \in Exchange, Stored(x)
  PROVE  approvals'[x] = approvals[x]
<1>1. \A y \in Exchange : StoreIsSound(y)
  BY WhatHolds
<1>2. Store!TypeOK
  BY WhatHolds
<1>3. ASSUME NEW r, r.id \in Exchange, r = Creation(r.id), Store!CanApply(r), Store!Apply(r)
      PROVE  approvals'[x] = approvals[x]
  <2>1. r.op = "create" /\ r.id # x
    BY <1>3 DEF Creation, Store!CanApply, Stored
  <2> QED
    BY <1>2, <1>3, <2>1 DEF Store!Apply, Store!TypeOK
<1>4. ASSUME NEW c \in Exchange, Store!Succeed(c) PROVE approvals'[x] = approvals[x]
  <2>1. call[c] # Store!NoCall /\ Store!CanApply(call[c].request) /\ Store!Apply(call[c].request)
    BY <1>4 DEF Store!Succeed, Store!Open
  <2>2. \E answer, row : call[c] = At(Creation(c), answer, row)
    BY <1>1, <2>1 DEF StoreIsSound
  <2>3. call[c].request = Creation(c)
    BY <2>2 DEF At
  <2>4. Creation(c).id = c
    BY DEF Creation
  <2> QED
    BY <1>3, <2>1, <2>3, <2>4
<1>5. ASSUME NEW r \in limbo, Store!Late(r) PROVE approvals'[x] = approvals[x]
  <2>1. r.id \in Exchange
    BY <1>2 DEF Store!TypeOK, Store!Request
  <2>2. r = Creation(r.id)
    BY <1>1, <2>1 DEF StoreIsSound
  <2>3. (Store!CanApply(r) /\ Store!Apply(r)) \/ approvals' = approvals
    BY <1>5 DEF Store!Late
  <2> QED
    BY <1>3, <2>1, <2>2, <2>3
<1>6. ASSUME NEW c \in Exchange,
             \/ \E r \in Store!Request : Store!Invoke(c, r)
             \/ Store!Refuse(c) \/ Store!Read(c) \/ Store!Raise(c) \/ Store!Return(c)
      PROVE  approvals' = approvals
  BY <1>6 DEF Store!Invoke, Store!Refuse, Store!Read, Store!Raise, Store!Return
<1> QED
  BY <1>4, <1>5, <1>6 DEF Store!Next, Store!vars

(* A client is answered once and counted once: neither the late response   *)
(* of a handler that was timed out nor a timer that fires as the response  *)
(* leaves changes that, and an approval that was created stays             *)
(* (middleware.py 48-84, app.py 229-254).                                  *)
THEOREM NothingIsTakenBack == Spec => AnswersStay
<1>1. ASSUME IInv, [Next]_vars, NEW x \in Exchange
      PROVE  /\ Stored(x) => approvals'[x] = approvals[x]
             /\ status[x] # 0 => status'[x] = status[x]
             /\ counted[x] # <<>> => counted'[x] = counted[x]
  <2>1. Stored(x) => approvals'[x] = approvals[x]
    BY <1>1, NextUsesTheStore, ApprovalsStay
  <2>2. TablesAreWhole /\ Uncounted(x) /\ Truth(x)
    BY <1>1, WhatHolds DEF IInv, CountsIInv
  <2>3. ASSUME NEW y \in Exchange,
               \/ \E r \in Requests[y] : Arrive(y, r)
               \/ Deliver(y) \/ Expire(y) \/ TimeOut(y)
        PROVE  /\ status[x] # 0 => status'[x] = status[x]
               /\ counted[x] # <<>> => counted'[x] = counted[x]
    <3>1. CASE y # x
      <4>1. \/ status' = status
            \/ \E s : status' = [status EXCEPT ![y] = s]
        BY <2>3 DEF Arrive, Deliver, Expire, TimeOut, Answer
      <4>2. \/ counted' = counted
            \/ \E d : counted' = [counted EXCEPT ![y] = d]
        BY <2>3 DEF Arrive, Deliver, Expire, TimeOut, Count
      <4>3. status'[x] = status[x]
        BY <2>2, <3>1, <4>1 DEF TablesAreWhole
      <4>4. counted'[x] = counted[x]
        BY <2>2, <3>1, <4>2 DEF TablesAreWhole
      <4> QED
        BY <4>3, <4>4
    <3>2. CASE \E r \in Requests[x] : Arrive(x, r)
      BY <2>2, <3>2 DEF Arrive, Uncounted
    <3>3. CASE Deliver(x)
      BY <2>2, <3>3 DEF Deliver, Answer, Count, Uncounted, TablesAreWhole
    <3>4. CASE Expire(x) \/ TimeOut(x)
      BY <2>2, <3>4 DEF Expire, TimeOut, Uncounted
    <3> QED
      BY <2>3, <3>1, <3>2, <3>3, <3>4
  <2>4. ASSUME NEW y \in Exchange, Handle(y) PROVE UNCHANGED <<status, counted>>
    BY <2>4, HandlingIsElsewhere DEF Elsewhere
  <2>5. (\E y \in Exchange : StoreStep(y) \/ Resume(y)) \/ StoreLate \/ UNCHANGED vars
          => UNCHANGED <<status, counted>>
    BY DEF StoreStep, Resume, StoreLate, Unanswered, vars
  <2>6. /\ status[x] # 0 => status'[x] = status[x]
        /\ counted[x] # <<>> => counted'[x] = counted[x]
    BY <1>1, <2>3, <2>4, <2>5 DEF Next
  <2> QED
    BY <2>1, <2>6
<1>2. IInv /\ [Next]_vars =>
        [\A x \in Exchange :
           /\ Stored(x) => approvals'[x] = approvals[x]
           /\ status[x] # 0 => status'[x] = status[x]
           /\ counted[x] # <<>> => counted'[x] = counted[x]]_vars
  BY <1>1
<1> QED
  BY <1>2, Invariance, PTL DEF AnswersStay, Spec

-----------------------------------------------------------------------------
(* How far an exchange is from its end; waiting on the store counts one    *)
(* more while its call is open.                                            *)
Distance(step, calls, open) ==
  CASE step = "new"          -> 10
    [] step = "dependencies" -> 9
    [] step = "retrieval"    -> 8
    [] step = "model"        -> 7
    [] step = "agent"        -> 6 - calls
    [] step = "store"        -> IF open THEN 3 ELSE 2
    [] step = "response"     -> 1
    [] OTHER                 -> 0

ToGo(x) == Distance(pc[x], called[x], Store!Open(x))

OwnStep(x) ==
  \/ \E r \in Requests[x] : Arrive(x, r)
  \/ Handle(x) \/ StoreEnds(x) \/ Resume(x) \/ Deliver(x)

(* No step takes an exchange away from its end, what its handler, store    *)
(* and middleware do brings it nearer, and a timer that has run out stays  *)
(* so until the client has an answer.                                      *)
Advances(x) ==
  /\ ToGo(x)' <= ToGo(x)
  /\ OwnStep(x) => ToGo(x)' < ToGo(x)
  /\ overdue[x] => overdue'[x] \/ status'[x] # 0

ExchangesAdvance == [][\A x \in Exchange : Advances(x)]_vars

(* The distance is a number, and 0 only at the end.                        *)
LEMMA DistanceType ==
  ASSUME NEW step \in Place, NEW n \in 0..2, NEW open \in BOOLEAN
  PROVE  Distance(step, n, open) \in 0..10
BY DEF Place, Distance

(* A step of one handler leaves the others' (one event loop runs them).    *)
LEMMA HandlesOne ==
  ASSUME NEW x \in Exchange, Handle(x)
  PROVE  /\ pc' = pc \/ \E p : pc' = [pc EXCEPT ![x] = p]
         /\ called' = called \/ \E n : called' = [called EXCEPT ![x] = n]
<1>1. ASSUME NEW res, Settle(x, res) PROVE \E p : pc' = [pc EXCEPT ![x] = p]
  BY <1>1 DEF Settle, Respond, Goto
<1>2. ASSUME NEW node, Investigate(x, node) PROVE (\E p : pc' = [pc EXCEPT ![x] = p]) /\ called' = called
  BY <1>1, <1>2 DEF Investigate, Respond, Goto
<1>3. ASSUME NEW limited, Refuse(x, limited) PROVE (\E p : pc' = [pc EXCEPT ![x] = p]) /\ called' = called
  BY <1>3 DEF Refuse, Respond, Goto, work
<1>4. CASE Inform(x) \/ AskModel(x) \/ Retrieved(x) \/ ModelEnds(x)
  BY <1>4 DEF Inform, AskModel, Retrieved, ModelEnds, Respond, Goto, work
<1>5. CASE ToolReturns(x)
  BY <1>5 DEF ToolReturns
<1>6. ASSUME NEW hits, Conclude(x, hits)
      PROVE  /\ \E p : pc' = [pc EXCEPT ![x] = p]
             /\ called' = called \/ \E n : called' = [called EXCEPT ![x] = n]
  BY <1>1, <1>6 DEF Conclude
<1>7. CASE ConcludeFailed(x)
  BY <1>1, <1>7 DEF ConcludeFailed
<1> QED
  BY <1>2, <1>3, <1>4, <1>5, <1>6, <1>7 DEF Handle

(* A handler goes on to what it awaits next, or calls the next tool        *)
(* (app.py 163-254, 272-356).                                              *)
LEMMA HandlerAdvances ==
  ASSUME IInv, IInv', NEW x \in Exchange, Handle(x)
  PROVE  ToGo(x)' < ToGo(x)
<1>1. TablesAreWhole /\ IsTyped(x)
  BY WhatHolds
<1>2. called'[x] \in 0..2 /\ called[x] \in 0..2
  BY DEF IInv, TypeOK
<1>3. Store!Open(x) \in BOOLEAN /\ Store!Open(x)' \in BOOLEAN
  BY DEF Store!Open
<1>4. ASSUME NEW p, Goto(x, p) PROVE pc'[x] = p
  BY <1>1, <1>4 DEF Goto, TablesAreWhole
<1>5. ASSUME NEW res, Settle(x, res) PROVE pc'[x] \in {"store", "response"}
  BY <1>4, <1>5 DEF Settle, Respond
<1>6. CASE pc[x] = "agent" /\ pc'[x] \in {"store", "response"}
  BY <1>2, <1>3, <1>6 DEF ToGo, Distance
<1>7. CASE pc[x] = "dependencies" /\ pc'[x] \in {"retrieval", "model", "agent", "store", "response"}
  BY <1>2, <1>3, <1>7 DEF ToGo, Distance
<1>8. CASE pc[x] = "retrieval" /\ pc'[x] \in {"model", "response"}
  BY <1>2, <1>3, <1>8 DEF ToGo, Distance
<1>9. CASE pc[x] = "model" /\ pc'[x] = "response"
  BY <1>9 DEF ToGo, Distance
<1>10. CASE ToolReturns(x)
  <2>1. pc[x] = "agent" /\ pc'[x] = "agent" /\ called'[x] = called[x] + 1
    BY <1>1, <1>10 DEF ToolReturns, TablesAreWhole
  <2> QED
    BY <1>2, <2>1 DEF ToGo, Distance
<1>11. ASSUME NEW node, Investigate(x, node)
       PROVE  pc[x] = "dependencies" /\ pc'[x] \in {"agent", "store", "response"}
  BY <1>4, <1>5, <1>11 DEF Investigate, Admitted, Respond
<1>12. ASSUME NEW limited, Refuse(x, limited) PROVE pc[x] = "dependencies" /\ pc'[x] = "response"
  BY <1>4, <1>12 DEF Refuse, Respond
<1>13. CASE Inform(x)
  BY <1>4, <1>7, <1>13 DEF Inform, Admitted, Respond
<1>14. CASE AskModel(x)
  <2>1. pc[x] = "dependencies" /\ pc'[x] \in {"retrieval", "model", "response"}
    BY <1>4, <1>14 DEF AskModel, Admitted, Respond
  <2> QED
    BY <1>7, <2>1
<1>15. CASE Retrieved(x)
  BY <1>4, <1>8, <1>15 DEF Retrieved, Respond
<1>16. CASE ModelEnds(x)
  BY <1>4, <1>9, <1>16 DEF ModelEnds, Respond
<1>17. CASE ConcludeFailed(x) \/ \E hits \in SUBSET Hit : Conclude(x, hits)
  BY <1>5, <1>6, <1>17 DEF ConcludeFailed, Conclude
<1> QED
  BY <1>7, <1>10, <1>11, <1>12, <1>13, <1>14, <1>15, <1>16, <1>17 DEF Handle

(* A call of the store ends once; the response follows and is delivered    *)
(* (app.py 229-254, middleware.py 58-71).                                  *)
LEMMA OwnStepAdvances ==
  ASSUME IInv, IInv', NEW x \in Exchange, OwnStep(x)
  PROVE  ToGo(x)' < ToGo(x)
<1>1. TablesAreWhole
  BY WhatHolds
<1>2. ASSUME NEW p, Goto(x, p) PROVE pc'[x] = p
  BY <1>1, <1>2 DEF Goto, TablesAreWhole
<1>3. ASSUME NEW r, Arrive(x, r) PROVE pc[x] = "new" /\ pc'[x] \in {"done", "dependencies"}
  BY <1>2, <1>3 DEF Arrive
<1>4. CASE \E r \in Requests[x] : Arrive(x, r)
  BY <1>3, <1>4 DEF ToGo, Distance
<1>5. CASE StoreEnds(x)
  <2>1. pc[x] = "store" /\ pc'[x] = "store" /\ Store!Open(x) /\ ~ Store!Open(x)'
    BY <1>5 DEF StoreEnds, StoreStep
  <2> QED
    BY <2>1 DEF ToGo, Distance
<1>6. CASE Resume(x)
  <2>1. pc[x] = "store" /\ pc'[x] = "response"
    BY <1>2, <1>6 DEF Resume, Respond
  <2> QED
    BY <2>1 DEF ToGo, Distance
<1>7. CASE Deliver(x)
  <2>1. pc[x] = "response" /\ pc'[x] = "done"
    BY <1>2, <1>7 DEF Deliver
  <2> QED
    BY <2>1 DEF ToGo, Distance
<1> QED
  BY <1>4, <1>5, <1>6, <1>7, HandlerAdvances DEF OwnStep

(* A store call of one client is not another's (state/store.py 30-60).     *)
LEMMA StoreMovesOne ==
  ASSUME Store!TypeOK, NEW x \in Exchange, NEW y \in Exchange \ {x},
         \/ \E r : Store!Invoke(y, r)
         \/ Store!Succeed(y) \/ Store!Raise(y) \/ Store!Return(y)
  PROVE  call'[x] = call[x]
<1>1. call = [z \in Exchange |-> call[z]]
  BY DEF Store!TypeOK
<1>2. ASSUME NEW v, NEW w, call' = [call EXCEPT ![y].answer = v, ![y].row = w]
      PROVE  call'[x] = call[x]
  BY <1>1, <1>2
<1>3. CASE (\E r : Store!Invoke(y, r)) \/ Store!Return(y)
  BY <1>1, <1>3 DEF Store!Invoke, Store!Return
<1>4. CASE Store!Succeed(y) \/ Store!Raise(y)
  BY <1>2, <1>4 DEF Store!Succeed, Store!Raise, Store!Answers
<1> QED
  BY <1>3, <1>4

(* Another exchange's step leaves this one where it is.                    *)
LEMMA OthersStay ==
  ASSUME IInv, IInv', NEW x \in Exchange, NEW y \in Exchange \ {x},
         OwnStep(y) \/ StoreStep(y) \/ Expire(y) \/ TimeOut(y)
  PROVE  pc'[x] = pc[x] /\ called'[x] = called[x] /\ call'[x] = call[x] /\ overdue'[x] = overdue[x]
<1>1. TablesAreWhole /\ Store!TypeOK
  BY WhatHolds
<1>2. CASE Handle(y)
  <2>1. pc'[x] = pc[x] /\ called'[x] = called[x]
    BY <1>1, <1>2, HandlesOne DEF TablesAreWhole
  <2>2. overdue' = overdue
    BY <1>2, HandlingIsElsewhere DEF Elsewhere
  <2>3. call'[x] = call[x]
    <3>1. UNCHANGED store \/ Store!Invoke(y, Creation(y))
      BY <1>2, HandlerInvokes
    <3> QED
      BY <1>1, <3>1, StoreMovesOne DEF store
  <2> QED
    BY <2>1, <2>2, <2>3
<1>3. CASE StoreStep(y)
  BY <1>1, <1>3, StoreMovesOne DEF StoreStep, work, Unanswered
<1>4. CASE Resume(y)
  <2>1. \E p : pc' = [pc EXCEPT ![y] = p]
    BY <1>4 DEF Resume, Respond, Goto
  <2>2. called' = called /\ overdue' = overdue /\ Store!Return(y)
    BY <1>4 DEF Resume, work, Unanswered
  <2> QED
    BY <1>1, <2>1, <2>2, StoreMovesOne DEF TablesAreWhole
<1>5. CASE Deliver(y) \/ Expire(y) \/ TimeOut(y) \/ \E r \in Requests[y] : Arrive(y, r)
  <2>1. pc' = pc \/ \E p : pc' = [pc EXCEPT ![y] = p]
    BY <1>5 DEF Deliver, Expire, TimeOut, Arrive, Goto
  <2>2. overdue' = overdue \/ \E o : overdue' = [overdue EXCEPT ![y] = o]
    BY <1>5 DEF Deliver, Expire, TimeOut, Arrive, StopTimer
  <2>3. called' = called /\ call' = call
    BY <1>5 DEF Deliver, Expire, TimeOut, Arrive, work, store
  <2> QED
    BY <1>1, <2>1, <2>2, <2>3 DEF TablesAreWhole
<1> QED
  BY <1>2, <1>3, <1>4, <1>5 DEF OwnStep, StoreEnds

(* A handler has at most ten steps to its end, whether its client was      *)
(* timed out or not, and nobody else's step puts it off; a timer that ran  *)
(* out is not forgotten before the client has an answer.  What is left of  *)
(* EveryExchangeIsAnswered is that time passes, the loop runs what is      *)
(* ready and the store's driver ends its calls (middleware.py 48-84,       *)
(* app.py 163-254).                                                        *)
THEOREM ExchangesOnlyAdvance == Spec => ExchangesAdvance
<1>1. ASSUME IInv, [Next]_vars, NEW x \in Exchange PROVE Advances(x)
  <2>0. /\ IInv' /\ TablesAreWhole /\ Uncounted(x) /\ Truth(x)
        /\ reply[x] \in Said /\ (pc[x] = "response" <=> reply[x] # 0)
    BY <1>1, NextIInv, WhatHolds DEF IInv, CountsIInv, IsTyped, HandlingIsSound
  <2>1. ToGo(x) \in 0..10 /\ ToGo(x)' \in 0..10
    <3>1. Store!Open(x) \in BOOLEAN /\ Store!Open(x)' \in BOOLEAN
      BY DEF Store!Open
    <3>2. pc[x] \in Place /\ called[x] \in 0..2 /\ pc'[x] \in Place /\ called'[x] \in 0..2
      BY <1>1, <2>0 DEF IInv, TypeOK, Place
    <3> QED
      BY <3>1, <3>2, DistanceType DEF ToGo
  <2>2. ASSUME pc'[x] = pc[x], called'[x] = called[x], call'[x] = call[x] PROVE ToGo(x)' = ToGo(x)
    BY <2>2 DEF ToGo, Store!Open
  <2>3. ASSUME NEW y \in Exchange \ {x}, OwnStep(y) \/ StoreStep(y) \/ Expire(y) \/ TimeOut(y)
        PROVE  ToGo(x)' = ToGo(x) /\ overdue'[x] = overdue[x]
    BY <1>1, <2>0, <2>2, <2>3, OthersStay
  <2>4. ASSUME OwnStep(x) PROVE ToGo(x)' < ToGo(x) /\ (overdue[x] => overdue'[x] \/ status'[x] # 0)
    <3>1. ToGo(x)' < ToGo(x)
      BY <1>1, <2>0, <2>4, OwnStepAdvances
    <3>2. CASE Deliver(x)
      <4>1. pc[x] = "response" /\ (status[x] = 0 => status' = [status EXCEPT ![x] = reply[x]])
            /\ (status[x] # 0 => status' = status)
        BY <3>2 DEF Deliver, Answer
      <4>2. status'[x] # 0
        BY <2>0, <4>1 DEF TablesAreWhole
      <4> QED
        BY <3>1, <4>2
    <3>3. CASE Handle(x)
      BY <3>1, <3>3, HandlingIsElsewhere DEF Elsewhere
    <3>4. CASE (\E r \in Requests[x] : Arrive(x, r)) \/ StoreEnds(x) \/ Resume(x)
      BY <3>1, <3>4 DEF Arrive, StoreEnds, StoreStep, Resume, Unanswered
    <3> QED
      BY <2>4, <3>2, <3>3, <3>4 DEF OwnStep
  <2>5. ASSUME StoreStep(x) PROVE ToGo(x)' <= ToGo(x) /\ overdue' = overdue
    <3>1. pc' = pc /\ pc[x] = "store" /\ Store!Open(x) /\ overdue' = overdue
      BY <2>5 DEF StoreStep, Unanswered
    <3>2. ToGo(x) = 3 /\ ToGo(x)' \in {2, 3}
      BY <3>1 DEF ToGo, Distance
    <3> QED
      BY <3>1, <3>2
  <2>6. ASSUME Expire(x) \/ TimeOut(x)
        PROVE  ToGo(x)' = ToGo(x) /\ (overdue[x] => overdue'[x] \/ status'[x] # 0)
    <3>1. pc' = pc /\ called' = called /\ call' = call
      BY <2>6 DEF Expire, TimeOut, work, store
    <3>2. CASE Expire(x)
      BY <2>2, <3>1, <3>2 DEF Expire
    <3>3. CASE TimeOut(x)
      <4>1. status'[x] = 504
        BY <2>0, <3>3 DEF TimeOut, Answer, TablesAreWhole
      <4> QED
        BY <2>2, <3>1, <4>1
    <3> QED
      BY <2>6, <3>2, <3>3
  <2>7. ASSUME StoreLate \/ UNCHANGED vars PROVE ToGo(x)' = ToGo(x) /\ overdue' = overdue
    <3>1. pc' = pc /\ called' = called /\ call' = call /\ overdue' = overdue
      BY <2>7 DEF StoreLate, Store!Late, work, store, Unanswered, vars
    <3> QED
      BY <2>2, <3>1
  <2>8. CASE OwnStep(x)
    BY <2>1, <2>4, <2>8 DEF Advances
  <2>9. CASE ~ OwnStep(x)
    <3>1. ToGo(x)' <= ToGo(x) /\ (overdue[x] => overdue'[x] \/ status'[x] # 0)
      <4>1. \/ \E y \in Exchange : OwnStep(y) \/ StoreStep(y) \/ Expire(y) \/ TimeOut(y)
            \/ StoreLate \/ UNCHANGED vars
        BY <1>1 DEF Next, OwnStep
      <4> QED
        BY <2>1, <2>3, <2>5, <2>6, <2>7, <2>9, <4>1
    <3> QED
      BY <2>9, <3>1 DEF Advances
  <2> QED
    BY <2>8, <2>9
<1>2. IInv /\ [Next]_vars => [\A x \in Exchange : Advances(x)]_vars
  BY <1>1
<1> QED
  BY <1>2, Invariance, PTL DEF ExchangesAdvance, Spec
=============================================================================
