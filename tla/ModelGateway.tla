---------------------------- MODULE ModelGateway ----------------------------
(***************************************************************************)
(* ModelGateway.generate of model_gateway/gateway.py with the              *)
(* TenantBudgetPolicy of model_gateway/policy.py: the generations that the *)
(* tasks of one event loop ask for, and the ledger they share.             *)
(*                                                                         *)
(* `generate` is suspended while content safety checks the request, while  *)
(* the provider generates and while content safety checks the answer; the  *)
(* code between two of these is one step.  The detectors and the provider  *)
(* are external; PiiGuard has what the code makes of their findings.       *)
(***************************************************************************)
EXTENDS PiiGuard, Sequences, Functions

CONSTANTS
  Task,            (* asyncio tasks; each asks for one generation          *)
  Tenant, Model,
  AllowedModels,   (* the allowlist                                        *)
  Texts,           (* what may be asked, and its cost in a unit of money   *)
  Ceilings,        (* ceilings of the tenants that have a bundle           *)
  DefaultCeiling,  (* ceiling of any other tenant                          *)
  MaxAttempts,
  Window,          (* window_seconds                                       *)
  Time             (* readings of time.monotonic()                         *)

ASSUME CeilingsArePositive ==
  /\ DOMAIN Ceilings \subseteq Tenant
  /\ \A t \in DOMAIN Ceilings : Ceilings[t] \in Nat \ {0}
  /\ DefaultCeiling \in Nat \ {0}
ASSUME LimitsArePositive == MaxAttempts \in Nat \ {0} /\ Window \in Nat \ {0}
ASSUME TextsAreTexts == \A t \in Texts : IsText(t)
ASSUME ReadingsAreNaturals == Time \subseteq Nat

VARIABLES
  now,        (* time.monotonic()                                          *)
  spend,      (* _spend: the ledger of each tenant, oldest entry first     *)
  pc,         (* where each generation is suspended                        *)
  req,        (* its request, while it runs                                *)
  attempt,    (* its local `attempt`, 0 before the first                   *)
  outcome,    (* its local `outcome`                                       *)
  answer,     (* what the caller gets: a result, or which exception        *)
  events,     (* MODEL_GATEWAY_CALLS: what telemetry has counted of each   *)
  ends,       (* history: how the attempts of each generation ended        *)
  reserved    (* history: every reservation of each tenant                 *)

vars == <<now, spend, pc, req, attempt, outcome, answer, events, ends, reserved>>

Request == [tenant : Tenant, model : Model, text : Texts]

(* _apply_pii_guard_to_request: `prompt` is what is left of the text.      *)
SanitizedRequest(r) ==
  [tenant |-> r.tenant, model |-> r.model, text |-> r.text, prompt |-> Sanitized(r.text)]
NoRequest == [tenant |-> "none"]
Reservation == [time : Nat, cost : Nat]
Outcome == {"success", "error", "timeout", "provider_error", "pii_blocked", "content_safety_blocked"}
Answer  == {"none", "result", "not_allowed", "over_budget", "pii_blocked", "content_safety_blocked",
            "provider_failure", "timed_out", "error", "cancelled"}

Init ==
  /\ now = 0
  /\ spend = [t \in Tenant |-> <<>>]
  /\ pc = [k \in Task |-> "new"]
  /\ req = [k \in Task |-> NoRequest]
  /\ attempt = [k \in Task |-> 0]
  /\ outcome = [k \in Task |-> "error"]
  /\ answer = [k \in Task |-> "none"]
  /\ events = [k \in Task |-> <<>>]
  /\ ends = [k \in Task |-> <<>>]
  /\ reserved = [t \in Tenant |-> <<>>]

Budget == <<spend, reserved>>

-----------------------------------------------------------------------------
(***************************************************************************)
(* TenantBudgetPolicy.                                                     *)
(***************************************************************************)
(* Bugs for the runs to catch: a window too short by one, an event that is *)
(* lost when the provider fails, and attempts that are never counted out.  *)
ExpiredEarly(time)      == time <= now - Window + 1
EventUnlessFailed(k, o) == IF o = "provider_error" THEN events
                           ELSE [events EXCEPT ![k] = Append(@, o)]
NoLastAttempt(n)        == FALSE

CeilingOf(t) == IF t \in DOMAIN Ceilings THEN Ceilings[t] ELSE DefaultCeiling

Expired(time) == time <= now - Window

(* `while ledger and ledger[0][0] <= now - window: ledger.popleft()`       *)
Purged(ledger) ==
  LET n == CHOOSE m \in 0..Len(ledger) :
             /\ \A i \in 1..m : Expired(ledger[i].time)
             /\ m < Len(ledger) => ~ Expired(ledger[m + 1].time)
  IN SubSeq(ledger, n + 1, Len(ledger))

Total(ledger) == SumFunction([i \in DOMAIN ledger |-> ledger[i].cost])

WithinCeiling(r) == Total(Purged(spend[r.tenant])) + r.text.cost <= CeilingOf(r.tenant)

(* check_and_reserve                                                       *)
Reserve(r) ==
  LET entry == [time |-> now, cost |-> r.text.cost] IN
  /\ WithinCeiling(r)
  /\ spend' = [spend EXCEPT ![r.tenant] = Append(Purged(@), entry)]
  /\ reserved' = [reserved EXCEPT ![r.tenant] = Append(@, entry)]

OverBudget(r) ==
  /\ ~ WithinCeiling(r)
  /\ spend' = [spend EXCEPT ![r.tenant] = Purged(@)]
  /\ UNCHANGED reserved

(* spent_gbp, which purges too.                                            *)
spent_gbp(t) ==
  /\ spend' = [spend EXCEPT ![t] = Purged(@)]
  /\ UNCHANGED <<now, pc, req, attempt, outcome, answer, events, ends, reserved>>

-----------------------------------------------------------------------------
Goto(k, next) == pc' = [pc EXCEPT ![k] = next]

(* An exception before the reservation: telemetry never hears of the call. *)
Reject(k, a) ==
  /\ Goto(k, "done")
  /\ req' = [req EXCEPT ![k] = NoRequest]
  /\ answer' = [answer EXCEPT ![k] = a]
  /\ UNCHANGED <<now, attempt, outcome, events, ends>>

Event(k, o) == [events EXCEPT ![k] = Append(@, o)]

(* A return or an exception after it, with the `finally` that records it.  *)
Finish(k, o, a) ==
  /\ Goto(k, "done")
  /\ req' = [req EXCEPT ![k] = NoRequest]
  /\ outcome' = [outcome EXCEPT ![k] = o]
  /\ answer' = [answer EXCEPT ![k] = a]
  /\ events' = Event(k, o)
  /\ UNCHANGED <<now, attempt, Budget>>

AttemptEnded(k, how) == ends' = [ends EXCEPT ![k] = Append(@, how)]

-----------------------------------------------------------------------------
RejectModel(k, r) ==
  /\ pc[k] = "new"
  /\ r.model \notin AllowedModels
  /\ Reject(k, "not_allowed")
  /\ UNCHANGED Budget

RejectPii(k, r) ==
  /\ pc[k] = "new"
  /\ r.model \in AllowedModels
  /\ PiiBlocked(r.text)
  /\ Reject(k, "pii_blocked")
  /\ UNCHANGED Budget

CheckRequest(k, r) ==
  /\ pc[k] = "new"
  /\ r.model \in AllowedModels
  /\ ~ PiiBlocked(r.text)
  /\ req' = [req EXCEPT ![k] = SanitizedRequest(r)]
  /\ Goto(k, "request_check")
  /\ UNCHANGED <<now, spend, attempt, outcome, answer, events, ends, reserved>>

(* The guard blocks; or the check raises or times out, whatever the text.  *)
RejectContent(k) ==
  /\ pc[k] = "request_check"
  /\ Reject(k, "content_safety_blocked")
  /\ UNCHANGED Budget

RejectCost(k) ==
  /\ pc[k] = "request_check"
  /\ ~ ContentBlocked(req[k].text)
  /\ OverBudget(req[k])
  /\ Reject(k, "over_budget")

(* The reservation and the first call of the provider.                     *)
Start(k) ==
  /\ pc[k] = "request_check"
  /\ ~ ContentBlocked(req[k].text)
  /\ Reserve(req[k])
  /\ attempt' = [attempt EXCEPT ![k] = 1]
  /\ Goto(k, "provider")
  /\ UNCHANGED <<now, req, outcome, answer, events, ends>>

(* The provider answered; PII detection lets the text through or not.      *)
CheckAnswer(k) ==
  /\ pc[k] = "provider"
  /\ Goto(k, "answer_check")
  /\ UNCHANGED <<now, spend, req, attempt, outcome, answer, events, ends, reserved>>

BlockPii(k) ==
  /\ pc[k] = "provider"
  /\ AttemptEnded(k, "blocked")
  /\ Finish(k, "pii_blocked", "pii_blocked")

LastAttempt(n) == n = MaxAttempts

(* o is "timeout" or "provider_error" (a ModelProviderFailure).            *)
Retry(k, o) ==
  /\ pc[k] = "provider"
  /\ ~ LastAttempt(attempt[k])
  /\ AttemptEnded(k, o)
  /\ outcome' = [outcome EXCEPT ![k] = o]
  /\ attempt' = [attempt EXCEPT ![k] = @ + 1]
  /\ UNCHANGED <<now, spend, pc, req, answer, events, reserved>>

(* A provider's failure is raised again; a timeout falls out of the loop   *)
(* to "Model provider timed out on every attempt".                         *)
GiveUp(k, o) ==
  /\ pc[k] = "provider"
  /\ LastAttempt(attempt[k])
  /\ AttemptEnded(k, o)
  /\ Finish(k, o, IF o = "timeout" THEN "timed_out" ELSE "provider_failure")

(* Any other exception, of the provider or of PII detection, leaves        *)
(* `outcome` as it is.                                                     *)
RaiseOther(k) ==
  /\ pc[k] = "provider"
  /\ AttemptEnded(k, "raised")
  /\ Finish(k, outcome[k], "error")

Answered(k) ==
  /\ pc[k] = "answer_check"
  /\ AttemptEnded(k, "answered")
  /\ Finish(k, "success", "result")

BlockContent(k) ==
  /\ pc[k] = "answer_check"
  /\ AttemptEnded(k, "blocked")
  /\ Finish(k, "content_safety_blocked", "content_safety_blocked")

(* The task is cancelled at one of its three awaits.                       *)
Cancel(k) ==
  \/ /\ pc[k] = "request_check"
     /\ Reject(k, "cancelled")
     /\ UNCHANGED Budget
  \/ /\ pc[k] \in {"provider", "answer_check"}
     /\ AttemptEnded(k, "cancelled")
     /\ Finish(k, outcome[k], "cancelled")

Tick(later) ==
  /\ later > now
  /\ now' = later
  /\ UNCHANGED <<spend, pc, req, attempt, outcome, answer, events, ends, reserved>>

Begin(k) == \E r \in Request : RejectModel(k, r) \/ RejectPii(k, r) \/ CheckRequest(k, r)

RequestChecked(k) == RejectContent(k) \/ RejectCost(k) \/ Start(k)

ProviderEnds(k) ==
  \/ CheckAnswer(k) \/ BlockPii(k) \/ RaiseOther(k)
  \/ \E o \in {"timeout", "provider_error"} : Retry(k, o) \/ GiveUp(k, o)

AnswerChecked(k) == Answered(k) \/ BlockContent(k)

Next ==
  \/ \E k \in Task :
       Begin(k) \/ RequestChecked(k) \/ ProviderEnds(k) \/ AnswerChecked(k) \/ Cancel(k)
  \/ \E t \in Tenant : spent_gbp(t)
  \/ \E later \in Time : Tick(later)

Spec == Init /\ [][Next]_vars

(* A bug for the runs to catch: only the provider is waited for with a     *)
(* timeout.                                                                *)
ProviderTimed(k) == ProviderEnds(k)

(* asyncio.timeout ends both checks and every attempt.                     *)
Timed(k) == RequestChecked(k) \/ ProviderEnds(k) \/ AnswerChecked(k)

FairSpec == Spec /\ \A k \in Task : WF_vars(Timed(k))
-----------------------------------------------------------------------------
TypeOK ==
  /\ now \in Nat
  /\ spend \in [Tenant -> Seq(Reservation)] /\ reserved \in [Tenant -> Seq(Reservation)]
  /\ pc \in [Task -> {"new", "request_check", "provider", "answer_check", "done"}]
  /\ DOMAIN req = Task
  /\ \A k \in Task : req[k] # NoRequest => req[k].text \in Texts /\ req[k].tenant \in Tenant
  /\ attempt \in [Task -> 0..MaxAttempts]
  /\ outcome \in [Task -> Outcome] /\ answer \in [Task -> Answer]
  /\ events \in [Task -> Seq(Outcome)]
  /\ ends \in [Task -> Seq({"timeout", "provider_error", "blocked", "raised", "answered", "cancelled"})]

ReservedIn(t, x) == {i \in DOMAIN reserved[t] : x - Window < reserved[t][i].time /\ reserved[t][i].time <= x}

(* "fail closed once a ceiling is reached": in no window, wherever it      *)
(* starts, do a tenant's reservations add up to more than its ceiling,     *)
(* with generations of all tenants suspended in between (policy.py 67-79). *)
CeilingHolds ==
  \A t \in Tenant : \A x \in 0..now :
    SumFunctionOnSet([i \in DOMAIN reserved[t] |-> reserved[t][i].cost], ReservedIn(t, x))
      <= CeilingOf(t)

(* Telemetry counts a generation once, if it reserved, and as what it was: *)
(* "success" exactly for a result, a block as a block, and a provider's    *)
(* failure or a timeout only after that many attempts really ended so      *)
(* (gateway.py 121-132, contracts.py 23).                                  *)
EventTellsTruth ==
  \A k \in Task :
    /\ Len(events[k]) = IF pc[k] = "done" /\ attempt[k] > 0 THEN 1 ELSE 0
    /\ \A n \in DOMAIN events[k] :
         LET o == events[k][n]  how == ends[k] IN
         /\ Len(how) = attempt[k]
         /\ o = "success" <=> answer[k] = "result"
         /\ o \in {"pii_blocked", "content_safety_blocked"} <=> how[Len(how)] = "blocked"
         /\ answer[k] \in {"provider_failure", "timed_out"} =>
              /\ Len(how) = MaxAttempts /\ how[MaxAttempts] = o
              /\ \A i \in 1..MaxAttempts : how[i] \in {"timeout", "provider_error"}

(* A generation ends even if its provider or a content safety check hangs  *)
(* (gateway.py 94 and 181).                                                *)
EveryGenerationEnds ==
  \A k \in Task : pc[k] \in {"request_check", "provider", "answer_check"} ~> pc[k] = "done"

(* Of the text a provider is sent, the start of every finding is masked,   *)
(* and what is left of a finding is its tail after a masked one that       *)
(* overlaps it (pii.py 101-117: the one with the earlier start is masked,  *)
(* the score only decides between equal starts).  No blocked entity and no *)
(* severity at its threshold, or unknown, gets there (gateway.py 75-78).   *)
PromptIsScreened ==
  \A k \in Task : pc[k] \in {"provider", "answer_check"} =>
    LET t == req[k].text  sent == req[k].prompt IN
    /\ \A f \in t.findings :
         /\ f.type \notin BlockEntities
         /\ f.start \notin sent
         /\ \A p \in Span(f) \cap sent :
              \E g \in t.findings : Before(g, f) /\ g.end > f.start /\ g.end <= p /\ Span(g) \cap sent = {}
    /\ sent \cup UNION {Span(f) : f \in t.findings} = 0..t.length-1
    /\ \A c \in DOMAIN Thresholds : t.severity[c] # Missing /\ t.severity[c] < Thresholds[c]
=============================================================================
