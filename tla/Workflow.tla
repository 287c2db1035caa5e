------------------------------ MODULE Workflow ------------------------------
(***************************************************************************)
(* The operations workflow: how a query is classified (models/mock.py,     *)
(* orchestration/supervisor.py), which tools the chosen specialist calls   *)
(* (agents/, mcp_boundary/factory.py and servers.py over                   *)
(* domain/novabank.py) and what it concludes (agents/,                     *)
(* orchestration/operations.py).  Operators only.                          *)
(*                                                                         *)
(* A query is reduced to what these tests find in it: a verb of a          *)
(* consequential action, an amount of money, the number of terms of each   *)
(* domain, the first identifiers, and whether it is over 500 characters.   *)
(***************************************************************************)
EXTENDS Integers, Sequences

CONSTANTS
  Customer,     (* identifiers of the form CUST-9999                       *)
  Transaction,  (* identifiers of the form TXN-9999                        *)
  Account,
  Accounts,     (* accounts of each customer in the repository             *)
  Owner,        (* customer of each transaction in the repository          *)
  Hit,          (* chunks policy.search can find                           *)
  NoMatch       (* no identifier in the query                              *)

ASSUME RecordsAreConsistent ==
  /\ DOMAIN Accounts \subseteq Customer /\ Accounts \in [DOMAIN Accounts -> SUBSET Account]
  /\ DOMAIN Owner \subseteq Transaction /\ Owner \in [DOMAIN Owner -> DOMAIN Accounts]
  /\ NoMatch \notin Customer \cup Transaction

Domain == {"payments", "customer", "policy"}

Query ==
  [verb : BOOLEAN, amount : BOOLEAN, terms : [Domain -> Nat],
   customer : Customer \cup {NoMatch}, transaction : Transaction \cup {NoMatch},
   over_500 : BOOLEAN]

Consequential(q) == q.verb /\ q.amount

Best(q) == {d \in Domain : q.terms[d] > 0 /\ \A e \in Domain : q.terms[e] <= q.terms[d]}

(* classify_route, with its stable priority.                               *)
Route(q) ==
  CASE Consequential(q) \/ Best(q) = {} -> "human_review"
    [] OTHER -> CHOOSE d \in Best(q) :
                  \/ d = "payments"
                  \/ d = "customer" /\ "payments" \notin Best(q)
                  \/ Best(q) = {"policy"}

(* SupervisorWorkflow._classify: if the model raises, a human reviews.     *)
Routes(q) == {Route(q), "human_review"}

-----------------------------------------------------------------------------
(* The registrations of build_local_mcp_gateway: the agent each tool is    *)
(* for.  All require the role agent.invoke.                                *)
Tool == {"customer.get_customer", "customer.get_accounts", "payments.get_transaction", "policy.search"}

ToolAgent ==
  [tool \in Tool |->
     CASE tool = "payments.get_transaction" -> "payments"
       [] tool = "policy.search" -> "policy"
       [] OTHER -> "customer"]

ToolsOf(agent) == {tool \in Tool : ToolAgent[tool] = agent}

(* A bug for the runs to catch: the profile read again after the accounts. *)
CallsAgain(agent, q) ==
  <<"customer.get_customer", "customer.get_accounts", "customer.get_customer">>

(* The calls a specialist makes, in order, while each succeeds.            *)
Calls(agent, q) ==
  CASE agent = "customer" /\ q.customer # NoMatch ->
         <<"customer.get_customer", "customer.get_accounts">>
    [] agent = "payments" /\ q.transaction # NoMatch -> <<"payments.get_transaction">>
    [] agent = "policy" -> <<"policy.search">>
    [] OTHER -> <<>>

(* Whether a call can succeed: its arguments are valid, its record is in   *)
(* the repository and its caller has the role.                             *)
Possible(tool, q, roles) ==
  /\ "agent.invoke" \in roles
  /\ tool = "customer.get_customer" => q.customer \in DOMAIN Accounts
  /\ tool = "payments.get_transaction" => q.transaction \in DOMAIN Owner
  /\ tool = "policy.search" => ~ q.over_500

-----------------------------------------------------------------------------
ErrorCode ==
  {"none", "CUSTOMER_ID_REQUIRED", "CUSTOMER_TOOL_FAILURE", "TRANSACTION_ID_REQUIRED",
   "PAYMENT_TOOL_FAILURE", "CUSTOMER_TRANSACTION_MISMATCH", "POLICY_TOOL_FAILURE",
   "POLICY_NOT_FOUND", "SPECIALIST_FAILURE"}

Result ==
  [agent : Domain \cup {"human_review"}, evidence : SUBSET (Customer \cup Account \cup Transaction \cup Hit),
   approval : BOOLEAN, error : ErrorCode]

Asks(agent, error)   == [agent |-> agent, evidence |-> {}, approval |-> FALSE, error |-> error]
Review(agent, error) == [agent |-> agent, evidence |-> {}, approval |-> TRUE, error |-> error]
Found(agent, found)  == [agent |-> agent, evidence |-> found, approval |-> FALSE, error |-> "none"]

(* `failed`: a tool call raised MCPGatewayError; `hits`: what              *)
(* policy.search found.                                                    *)
CustomerResult(q, failed) ==
  IF q.customer = NoMatch THEN Asks("customer", "CUSTOMER_ID_REQUIRED")
  ELSE IF failed THEN Review("customer", "CUSTOMER_TOOL_FAILURE")
  ELSE Found("customer", {q.customer} \cup Accounts[q.customer])

PaymentsResult(q, failed) ==
  IF q.transaction = NoMatch THEN Asks("payments", "TRANSACTION_ID_REQUIRED")
  ELSE IF failed THEN Review("payments", "PAYMENT_TOOL_FAILURE")
  ELSE IF q.customer \notin {NoMatch, Owner[q.transaction]}
    THEN Review("payments", "CUSTOMER_TRANSACTION_MISMATCH")
  ELSE Found("payments", {q.transaction})

PolicyResult(failed, hits) ==
  IF failed THEN Review("policy", "POLICY_TOOL_FAILURE")
  ELSE IF hits = {} THEN Review("policy", "POLICY_NOT_FOUND")
  ELSE Found("policy", hits)

(* The node that ran, if it raised nothing.                                *)
Concluded(route, q, failed, hits) ==
  CASE route = "customer" -> CustomerResult(q, failed)
    [] route = "payments" -> PaymentsResult(q, failed)
    [] route = "policy" -> PolicyResult(failed, hits)
    [] OTHER -> Review("human_review", "none")

(* _run_specialist: any other exception of a specialist.                   *)
SpecialistFailed == Review("human_review", "SPECIALIST_FAILURE")

-----------------------------------------------------------------------------
(* The skill registry: the tools each agent's skills may name, and what    *)
(* list_approved and GET /skills show of a set of definitions.             *)
ApprovedTools ==
  [agent \in Domain |->
     CASE agent = "customer" -> {"customer.get_customer", "customer.get_accounts"}
       [] agent = "payments" -> {"payments.get_transaction"}
       [] OTHER -> {"policy.search"}]

RegistryAccepts(definitions) ==
  /\ \A d, e \in definitions : d.name = e.name /\ d.version = e.version => d = e
  /\ \A d \in definitions : d.allowed_tools \subseteq ApprovedTools[d.agent]

ListedSkills(definitions, allowed) ==
  {d \in definitions : d.governance_state = "approved" /\ d.name \in allowed}
=============================================================================
