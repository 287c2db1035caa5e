--------------------------- MODULE SlidingWindow ---------------------------
(***************************************************************************)
(* The sliding-window limiter of one key, when a check runs without        *)
(* interruption: GovernedMCPGateway._check_rate_limit, which the event     *)
(* loop never suspends (mcp_boundary/gateway.py), and                      *)
(* InMemoryRateLimiter.check called by one thread at a time                *)
(* (gateway/auth.py; RateLimiter has the threads).  Keys are independent.  *)
(***************************************************************************)
EXTENDS Integers, Sequences, FiniteSets

CONSTANTS
  Limit,    (* admissions allowed in a window                              *)
  Window,   (* its length, in any unit of time.monotonic()                 *)
  Time      (* the readings of that clock                                  *)

ASSUME LimitsArePositive == Limit \in Nat \ {0} /\ Window \in Nat \ {0}
ASSUME TimesAreNaturals == Time \subseteq Nat

VARIABLES
  now,       (* time.monotonic()                                           *)
  requests,  (* the deque: times of recent admissions, oldest first        *)
  verdict,   (* the outcome of the last check, "none" once time has passed *)
  admitted   (* history: times of all admissions                           *)

vars == <<now, requests, verdict, admitted>>

Init ==
  /\ now = 0
  /\ requests = <<>>
  /\ verdict = "none"
  /\ admitted = <<>>

(* Bugs the invariants must catch: a window too short or too long by one,  *)
(* and a limit compared with > instead of >=.                              *)
ExpiredEarly(time)   == time <= now - Window + 1
ExpiredLate(time)    == time < now - Window
FullOnceOver(entries) == Len(entries) > Limit

Expired(time) == time <= now - Window

(* `while requests and requests[0] <= now - window: requests.popleft()`    *)
(* takes off the first n entries.                                          *)
Purges(n) ==
  /\ \A i \in 1..n : Expired(requests[i])
  /\ n < Len(requests) => ~ Expired(requests[n + 1])

Full(entries) == Len(entries) >= Limit

Check(n) ==
  LET left == SubSeq(requests, n + 1, Len(requests)) IN
  /\ Purges(n)
  /\ \/ /\ Full(left)
        /\ requests' = left
        /\ verdict' = "denied"
        /\ UNCHANGED admitted
     \/ /\ ~ Full(left)
        /\ requests' = Append(left, now)
        /\ verdict' = "admitted"
        /\ admitted' = Append(admitted, now)
  /\ UNCHANGED now

Tick(later) ==
  /\ later > now
  /\ now' = later
  /\ verdict' = "none"
  /\ UNCHANGED <<requests, admitted>>

Next ==
  \/ \E n \in 0..Len(requests) : Check(n)
  \/ \E later \in Time : Tick(later)

Spec == Init /\ [][Next]_vars
-----------------------------------------------------------------------------
TypeOK ==
  /\ now \in Nat
  /\ requests \in Seq(Nat) /\ Len(requests) <= Limit
  /\ verdict \in {"none", "admitted", "denied"}
  /\ admitted \in Seq(Nat)

(* The admissions of the window that ends at time x.                       *)
AdmittedIn(x) == {i \in 1..Len(admitted) : x - Window < admitted[i] /\ admitted[i] <= x}

(* No window of Window time units, wherever it starts, ever holds more     *)
(* than Limit admissions: neither purging nor a burst across the edge of a *)
(* window lets one more through (gateway.py 161-169, auth.py 174-186).     *)
AllowanceHolds == \A x \in 0..now : Cardinality(AdmittedIn(x)) <= Limit

(* A check is denied only when its window really is exhausted: denied      *)
(* checks use up nothing, and expired admissions are never counted.        *)
DeniedOnlyWhenExhausted ==
  verdict = "denied" => Cardinality(AdmittedIn(now)) = Limit
=============================================================================
