----------------------------- MODULE McpGateway -----------------------------
(***************************************************************************)
(* GovernedMCPGateway of mcp_boundary/gateway.py: the invocations that the *)
(* tasks of one event loop make, each with its policy checks, limiter,     *)
(* attempts and audit record.                                              *)
(*                                                                         *)
(* `invoke` is suspended only while a tool's handler runs, so what comes   *)
(* before an attempt and what follows it are one step each, and other      *)
(* tasks run in between.  A handler is external: it may return a result or *)
(* garbage, raise, or outlast its timeout.                                 *)
(***************************************************************************)
EXTENDS Integers, Sequences, FiniteSets

CONSTANTS
  Task,           (* asyncio tasks; each makes one invocation              *)
  Subject, Agent, Role, Tool,
  Registered,     (* tools with a ToolRegistration                         *)
  AllowedAgents,  (* registration.allowed_agents, by tool                  *)
  RequiredRoles,  (* registration.required_roles, by tool                  *)
  MaxAttempts,
  Limit, Window,  (* rate_limit, rate_window_seconds                       *)
  Time            (* readings of time.monotonic()                          *)

ASSUME ToolsAreRegistered ==
  /\ Registered \subseteq Tool
  /\ AllowedAgents \in [Registered -> SUBSET Agent]
  /\ RequiredRoles \in [Registered -> SUBSET Role]
ASSUME LimitsArePositive ==
  /\ MaxAttempts \in Nat \ {0}
  /\ Limit \in Nat \ {0} /\ Window \in Nat \ {0}
ASSUME TimesAreNaturals == Time \subseteq Nat

Key == Subject \X Registered

VARIABLES
  now,        (* time.monotonic()                                          *)
  requests,   (* _requests: the limiter's deque of each key                *)
  pc,         (* "new", "attempt" (the handler runs) or "done"             *)
  req,        (* arguments of invoke, while it runs                        *)
  attempts,   (* its local `attempts`                                      *)
  outcome,    (* its local `outcome`                                       *)
  answer,     (* what the caller gets: an output, or which exception       *)
  audit,      (* the records of the AuditSink                              *)
  calls,      (* history: times the handler was called for the task,       *)
              (* counted up to MaxAttempts + 1                             *)
  verdict,    (* history: the last verdict of each limiter at this time    *)
  admitted    (* history: times of the admissions of each limiter          *)

vars == <<now, requests, pc, req, attempts, outcome, answer, audit, calls, verdict, admitted>>

(* `valid`: the arguments pass the tool's input model.                     *)
Request == [subject : Subject, agent : Agent, roles : SUBSET Role, tool : Tool, valid : BOOLEAN]
NoRequest == [tool |-> "none"]
Outcome == {"success", "denied", "invalid", "timeout", "error"}
Answer  == {"none", "output", "not_found", "access_denied", "invalid_arguments", "failure", "cancelled"}

Init ==
  /\ now = 0
  /\ requests = [k \in Key |-> <<>>]
  /\ pc = [t \in Task |-> "new"]
  /\ req = [t \in Task |-> NoRequest]
  /\ attempts = [t \in Task |-> 0]
  /\ outcome = [t \in Task |-> "error"]
  /\ answer = [t \in Task |-> "none"]
  /\ audit = <<>>
  /\ calls = [t \in Task |-> 0]
  /\ verdict = [k \in Key |-> "none"]
  /\ admitted = [k \in Key |-> <<>>]

-----------------------------------------------------------------------------
(* Bugs for the runs to catch: no role check, one attempt too many, a      *)
(* record of an earlier outcome, a window too short by one.                *)
AllowsAnyRole(r)    == r.tool \in Registered /\ r.agent \in AllowedAgents[r.tool]
OneAttemptMore(n)   == n = MaxAttempts + 1
RecordFirstOutcome(t, o, a, n) ==
  Append(audit, [task |-> t, outcome |-> outcome[t], attempts |-> n])
ExpiredEarly(time)  == time <= now - Window + 1

(* The deny-by-default policy: a registered tool, an allowed agent, and    *)
(* every required role.                                                    *)
Allows(r) ==
  /\ r.tool \in Registered
  /\ r.agent \in AllowedAgents[r.tool]
  /\ RequiredRoles[r.tool] \subseteq r.roles

KeyOf(r) == <<r.subject, r.tool>>

Expired(time) == time <= now - Window

(* `while requests and requests[0] <= now - window: requests.popleft()`    *)
Purged(entries) ==
  LET n == CHOOSE m \in 0..Len(entries) :
             /\ \A i \in 1..m : Expired(entries[i])
             /\ m < Len(entries) => ~ Expired(entries[m + 1])
  IN SubSeq(entries, n + 1, Len(entries))

(* _check_rate_limit                                                       *)
RateLimited(r) ==
  LET k == KeyOf(r)  left == Purged(requests[k]) IN
  /\ Len(left) >= Limit
  /\ requests' = [requests EXCEPT ![k] = left]
  /\ verdict' = [verdict EXCEPT ![k] = "denied"]
  /\ UNCHANGED admitted

Admitted(r) ==
  LET k == KeyOf(r)  left == Purged(requests[k]) IN
  /\ Len(left) < Limit
  /\ requests' = [requests EXCEPT ![k] = Append(left, now)]
  /\ verdict' = [verdict EXCEPT ![k] = "admitted"]
  /\ admitted' = [admitted EXCEPT ![k] = Append(@, now)]

Record(t, o, a, n) == Append(audit, [task |-> t, outcome |-> o, attempts |-> n])

(* The end of invoke, with the `finally` that writes the audit record.     *)
Finish(t, o, a, n) ==
  /\ pc' = [pc EXCEPT ![t] = "done"]
  /\ req' = [req EXCEPT ![t] = NoRequest]
  /\ outcome' = [outcome EXCEPT ![t] = o]
  /\ answer' = [answer EXCEPT ![t] = a]
  /\ audit' = Record(t, o, a, n)
  /\ UNCHANGED <<attempts, calls>>

CountCall(t) == calls' = [calls EXCEPT ![t] = IF @ > MaxAttempts THEN @ ELSE @ + 1]

(* A bug for the runs to catch: the attempt is not counted.                *)
AttemptUncounted(t, n) ==
  /\ pc' = [pc EXCEPT ![t] = "attempt"]
  /\ attempts' = [attempts EXCEPT ![t] = 1]
  /\ CountCall(t)
  /\ UNCHANGED <<answer, audit>>

(* The handler is called (again).                                          *)
Attempt(t, n) ==
  /\ pc' = [pc EXCEPT ![t] = "attempt"]
  /\ attempts' = [attempts EXCEPT ![t] = n]
  /\ CountCall(t)
  /\ UNCHANGED <<answer, audit>>

-----------------------------------------------------------------------------
(* invoke, up to its first await.  A call that is rate limited or invalid  *)
(* has passed the policy; an invalid one has used up an admission.         *)
Deny(t, r) ==
  /\ pc[t] = "new"
  /\ ~ Allows(r)
  /\ Finish(t, "denied", IF r.tool \in Registered THEN "access_denied" ELSE "not_found", 0)
  /\ UNCHANGED <<now, requests, verdict, admitted>>

DenyByRate(t, r) ==
  /\ pc[t] = "new"
  /\ Allows(r)
  /\ RateLimited(r)
  /\ Finish(t, "denied", "access_denied", 0)
  /\ UNCHANGED now

RejectArguments(t, r) ==
  /\ pc[t] = "new"
  /\ Allows(r)
  /\ Admitted(r)
  /\ ~ r.valid
  /\ Finish(t, "invalid", "invalid_arguments", 0)
  /\ UNCHANGED now

Start(t, r) ==
  /\ pc[t] = "new"
  /\ Allows(r)
  /\ Admitted(r)
  /\ r.valid
  /\ req' = [req EXCEPT ![t] = r]
  /\ Attempt(t, 1)
  /\ UNCHANGED <<now, outcome>>

Limiters == <<now, requests, verdict, admitted>>

(* The handler returned a result that passes the output model.             *)
Succeed(t) ==
  /\ pc[t] = "attempt"
  /\ Finish(t, "success", "output", attempts[t])
  /\ UNCHANGED Limiters

(* LookupError, or a result the output model rejects: never retried.       *)
NoValidResult(t) ==
  /\ pc[t] = "attempt"
  /\ Finish(t, "error", "failure", attempts[t])
  /\ UNCHANGED Limiters

LastAttempt(n) == n = MaxAttempts

(* A timeout (o = "timeout") or another exception (o = "error").           *)
Fail(t, o) ==
  /\ pc[t] = "attempt"
  /\ LastAttempt(attempts[t])
  /\ Finish(t, o, "failure", attempts[t])
  /\ UNCHANGED Limiters

Retry(t, o) ==
  /\ pc[t] = "attempt"
  /\ ~ LastAttempt(attempts[t])
  /\ outcome' = [outcome EXCEPT ![t] = o]
  /\ Attempt(t, attempts[t] + 1)
  /\ UNCHANGED req
  /\ UNCHANGED Limiters

(* The task is cancelled at its await: CancelledError is caught by none of *)
(* the except clauses, and the record holds the outcome so far.            *)
Cancel(t) ==
  /\ pc[t] = "attempt"
  /\ Finish(t, outcome[t], "cancelled", attempts[t])
  /\ UNCHANGED Limiters

Tick(later) ==
  /\ later > now
  /\ now' = later
  /\ verdict' = [k \in Key |-> "none"]
  /\ UNCHANGED <<requests, pc, req, attempts, outcome, answer, audit, calls, admitted>>

Begin(t) ==
  \E r \in Request : Deny(t, r) \/ DenyByRate(t, r) \/ RejectArguments(t, r) \/ Start(t, r)

AttemptEnds(t) ==
  \/ Succeed(t) \/ NoValidResult(t)
  \/ \E o \in {"timeout", "error"} : Fail(t, o) \/ Retry(t, o)

Next ==
  \/ \E t \in Task : Begin(t) \/ AttemptEnds(t) \/ Cancel(t)
  \/ \E later \in Time : Tick(later)

Spec == Init /\ [][Next]_vars

(* asyncio.timeout ends every attempt.                                     *)
FairSpec == Spec /\ \A t \in Task : WF_vars(AttemptEnds(t))
-----------------------------------------------------------------------------
TypeOK ==
  /\ now \in Nat
  /\ requests \in [Key -> Seq(Nat)] /\ admitted \in [Key -> Seq(Nat)]
  /\ verdict \in [Key -> {"none", "admitted", "denied"}]
  /\ pc \in [Task -> {"new", "attempt", "done"}]
  /\ req \in [Task -> Request \cup {NoRequest}]
  /\ attempts \in [Task -> 0..MaxAttempts] /\ calls \in [Task -> 0..(MaxAttempts + 1)]
  /\ outcome \in [Task -> Outcome] /\ answer \in [Task -> Answer]
  /\ audit \in Seq([task : Task, outcome : Outcome, attempts : 0..MaxAttempts])

RecordsOf(t) == {n \in 1..Len(audit) : audit[n].task = t}

(* Every invocation that has ended left exactly one audit record, on every *)
(* path out of it, and one that has not ended left none (gateway.py        *)
(* 142-159).  The record agrees with what the caller saw and what the      *)
(* handler was asked: an output is a "success" and nothing else is, a      *)
(* refused call never reached the handler, and the attempts on record are  *)
(* the calls made.  A cancelled call is on record as "error", or as        *)
(* "timeout" when an earlier attempt had timed out (102, 132-141).         *)
AuditTellsTruth ==
  \A t \in Task :
    /\ Cardinality(RecordsOf(t)) = IF pc[t] = "done" THEN 1 ELSE 0
    /\ \A n \in RecordsOf(t) :
         /\ audit[n].attempts = calls[t]
         /\ audit[n].outcome = "success" <=> answer[t] = "output"
         /\ audit[n].outcome = "denied" <=> answer[t] \in {"not_found", "access_denied"}
         /\ audit[n].outcome = "invalid" <=> answer[t] = "invalid_arguments"
         /\ audit[n].outcome \in {"denied", "invalid"} <=> calls[t] = 0
         /\ audit[n].outcome = "timeout" /\ answer[t] = "cancelled" => calls[t] > 1

(* "Execute only registered tools under explicit caller and agent policy"  *)
(* (62-63): a handler only ever runs, first attempt or retry, for a call   *)
(* the policy allows, with valid arguments, that its limiter admitted.     *)
OnlyGovernedCalls ==
  \A t \in Task : pc[t] = "attempt" =>
    LET r == req[t] IN
    /\ r.tool \in Registered /\ r.agent \in AllowedAgents[r.tool]
    /\ RequiredRoles[r.tool] \subseteq r.roles
    /\ r.valid
    /\ Cardinality({u \in Task : pc[u] = "attempt" /\ KeyOf(req[u]) = KeyOf(r)})
         <= Len(admitted[KeyOf(r)])

(* Each subject and tool has a limiter of its own that works like          *)
(* SlidingWindow, with the calls of other keys, the retries and the        *)
(* cancellations in between (161-169): what is proved of SlidingWindow     *)
(* holds of every key.                                                     *)
Limiter(k) == INSTANCE SlidingWindow WITH
  requests <- requests[k], verdict <- verdict[k], admitted <- admitted[k]

EachKeyHasItsLimiter ==
  /\ \A k \in Key : Limiter(k)!Init
  /\ [][\A k \in Key : [Limiter(k)!Next]_(Limiter(k)!vars)]_vars

(* Whatever the other calls do, no window of any key holds more admissions *)
(* than the limit, and no call is denied before its window holds as many   *)
(* (161-169).                                                              *)
AllowancesHold ==
  \A k \in Key : Limiter(k)!AllowanceHolds /\ Limiter(k)!DeniedOnlyWhenExhausted

(* An invocation whose handler hangs or keeps failing ends all the same    *)
(* (125-141).                                                              *)
EveryInvocationEnds == \A t \in Task : pc[t] = "attempt" ~> pc[t] = "done"
=============================================================================
