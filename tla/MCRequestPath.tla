--------------------------- MODULE MCRequestPath ---------------------------
(* RequestPath for TLC: one request for each way through a route, from     *)
(* callers that carry both headers and a token.                            *)
EXTENDS RequestPath

CONSTANTS x1, x2

MCEntitlements == [t \in Tenant |-> IF t = "kyc-review" THEN {"customer"} ELSE {"transactions"}]
MCAccounts == [c \in {"CUST-1098"} |-> {"ACCT-2001"}]
MCOwner == [x \in {"TXN-5001"} |-> "CUST-1098"]
MCHitRoles == [h \in Hit |-> {"transactions"}]

Config(env, backend, jwt) ==
  [app_env |-> env, state_backend |-> backend, connection_url |-> TRUE, jwt |-> jwt, azure |-> {}, endpoints |-> {}]
MCConfigurations == {Config("local", "sqlite", FALSE), Config("production", "redis", TRUE), Config("development", "sqlite", FALSE)}

Ann == [user |-> "ann", roles |-> {"agent.invoke", "platform.viewer"}, tenant |-> "payment-disputes",
        token |-> [verified |-> TRUE, claim |-> {"agent.invoke", "platform.viewer", "payment-disputes"}, subject |-> "ann"]]
Long == [Ann EXCEPT !.user = "long", !.token.subject = "long"]
NoRoles == [Ann EXCEPT !.roles = {}, !.token.claim = {"kyc-review"}]
TwoTenants == [Ann EXCEPT !.tenant = NoTenant, !.token.claim = @ \cup {"kyc-review"}]
Nobody == [Ann EXCEPT !.user = NoSubject, !.token = NoToken]

Words(d) == [e \in Domain |-> IF e = d THEN 1 ELSE 0]
Asking(d) ==
  [verb |-> FALSE, amount |-> FALSE, terms |-> Words(d), customer |-> NoMatch, transaction |-> NoMatch, over_500 |-> FALSE]
Profile == [Asking("customer") EXCEPT !.customer = "CUST-1098"]
Failed  == [Asking("payments") EXCEPT !.transaction = "TXN-5001"]
Swapped == [Failed EXCEPT !.customer = "CUST-2042"]
Refund  == [Failed EXCEPT !.verb = TRUE, !.amount = TRUE]
Lengthy == [Asking("policy") EXCEPT !.over_500 = TRUE]

To(endpoint, credentials, query) ==
  [endpoint |-> endpoint, oversized |-> FALSE, body |-> "valid", credentials |-> credentials,
   form |-> "payment-disputes", query |-> query]

Every ==
  {To("investigate", Ann, q) : q \in {Refund, Profile, Asking("customer"), Swapped}}
    \cup {To("investigate", u, Failed) : u \in {Long, NoRoles, TwoTenants}}
    \cup {To("demo_rag", Nobody, q) : q \in {Lengthy, Asking("policy")}}
    \cup {[To("demo_investigate", Nobody, Failed) EXCEPT !.form = NoTenant]}
    \cup {To("answer", Ann, Asking("policy")), To("generate", Ann, Asking("policy")), To("info", Nobody, Profile)}
    \cup {[To("route", Ann, Profile) EXCEPT !.body = b] : b \in {"valid", "malformed", "invalid"}}
    \cup {[To("live", Nobody, Profile) EXCEPT !.oversized = TRUE]}

MCRequests ==
  [x \in Exchange |->
     IF x = x1 THEN Every
     ELSE {To("demo_investigate", Nobody, Asking("policy"))}]
=============================================================================
