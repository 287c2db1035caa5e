------------------------------ MODULE Identity ------------------------------
(***************************************************************************)
(* Who a request acts as: the settings the gateway accepts                 *)
(* (gateway/config.py), get_principal and get_tenant_context               *)
(* (gateway/auth.py), the verified token (gateway/jwt_identity.py) and the *)
(* tenant registry (tenancy/).  Operators only: nothing here has state.    *)
(*                                                                         *)
(* A header that is missing, blank or names no registered tenant is        *)
(* NoSubject or NoTenant.  Of the settings, the wildcard origin, the       *)
(* prefix, the empty allowlist and the PII lists are left out.             *)
(***************************************************************************)
EXTENDS FiniteSets

CONSTANTS
  Tenant,        (* names of the registered bundles                        *)
  Role,          (* other names a header or claim may list: roles, entitlements *)
  Entitlements,  (* bundle.entitlements, by tenant                         *)
  Subject,       (* subjects                                               *)
  NoSubject, NoTenant, NoToken

ASSUME BundlesAreValid ==
  /\ IsFiniteSet(Tenant) /\ Tenant # {} /\ Tenant \cap Role = {}
  /\ Entitlements \in [Tenant -> (SUBSET Role) \ {{}}]
ASSUME NothingIsNoName == NoSubject \notin Subject /\ NoTenant \notin Tenant

Deployed == {"staging", "production"}
Azure == {"azure_openai", "azure_content_safety", "azure_search"}

(* `azure`: the providers selected; `endpoints`: those with an endpoint.   *)
Settings ==
  [app_env : {"local", "test", "development"} \cup Deployed,
   state_backend : {"sqlite", "postgresql", "redis"}, connection_url : BOOLEAN,
   jwt : BOOLEAN, azure : SUBSET Azure, endpoints : SUBSET Azure]

(* validate_security_boundaries                                            *)
Accepted(s) ==
  /\ s.state_backend # "sqlite" => s.connection_url
  /\ s.app_env \in Deployed => s.state_backend # "sqlite" /\ s.jwt
  /\ s.azure \subseteq s.endpoints

-----------------------------------------------------------------------------
(* A token: whether its signature and registered claims verify, the        *)
(* strings in its tenant claim, and its subject.                           *)
Token == [verified : BOOLEAN, claim : SUBSET (Tenant \cup Role), subject : Subject \cup {NoSubject}]

Credentials ==
  [user : Subject \cup {NoSubject}, roles : SUBSET (Tenant \cup Role),
   tenant : Tenant \cup {NoTenant}, token : Token \cup {NoToken}]

TenantMatches(token) == token.claim \cap Tenant

(* EntraIdentityResolver.resolve                                           *)
Resolves(token) ==
  /\ token # NoToken
  /\ token.verified
  /\ Cardinality(TenantMatches(token)) = 1
  /\ token.subject # NoSubject

Headers(s) == s.app_env \in {"local", "test"}

(* The status get_principal refuses with, or 200.                          *)
PrincipalStatus(s, c) ==
  IF Headers(s) THEN IF c.user = NoSubject THEN 401 ELSE 200
  ELSE IF ~ s.jwt THEN 503
  ELSE IF Resolves(c.token) THEN 200 ELSE 401

Principal(s, c) ==
  IF Headers(s)
    THEN [subject |-> c.user, roles |-> c.roles]
    ELSE [subject |-> c.token.subject, roles |-> c.token.claim \ TenantMatches(c.token)]

TenantOf(s, c) ==
  IF Headers(s) THEN c.tenant ELSE CHOOSE t \in Tenant : t \in TenantMatches(c.token)

(* get_tenant_context, once get_principal has passed.                      *)
TenantStatus(s, c) == IF TenantOf(s, c) = NoTenant THEN 400 ELSE 200

(* require_roles                                                           *)
RolesStatus(p, required) == IF required \subseteq p.roles THEN 200 ELSE 403
=============================================================================
