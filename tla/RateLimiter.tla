----------------------------- MODULE RateLimiter -----------------------------
(***************************************************************************)
(* InMemoryRateLimiter.check of gateway/auth.py for one key, called by the *)
(* worker threads that FastAPI runs synchronous dependencies in.           *)
(*                                                                         *)
(* There is no lock.  A thread may be preempted after each call the method *)
(* makes and at each turn of its loop, so its clock reading, each test of  *)
(* the oldest entry, each popleft, the length it compares and the append   *)
(* are steps of their own.  SlidingWindow is the same method run alone.    *)
(***************************************************************************)
EXTENDS Integers, Sequences, FiniteSets, Functions

CONSTANTS
  Thread,
  Limit, Window,  (* rate_limit_requests, rate_limit_window_seconds        *)
  Time            (* readings of time.monotonic()                          *)

ASSUME LimitsArePositive == Limit \in Nat \ {0} /\ Window \in Nat \ {0}
ASSUME TimesAreNaturals == Time \subseteq Nat /\ 0 \in Time
ASSUME ThreadsAreFinite == IsFiniteSet(Thread)

VARIABLES
  now,       (* time.monotonic()                                           *)
  requests,  (* the deque of the key                                       *)
  pc,        (* next step of each thread                                   *)
  reading,   (* its local `now`                                            *)
  admitted   (* history: number of admissions by clock reading             *)

vars == <<now, requests, pc, reading, admitted>>

Init ==
  /\ now = 0
  /\ requests = <<>>
  /\ pc = [w \in Thread |-> "idle"]
  /\ reading = [w \in Thread |-> 0]
  /\ admitted = [t \in Time |-> 0]

Goto(w, next) == pc' = [pc EXCEPT ![w] = next]

ReadClock(w) ==
  /\ pc[w] = "idle"
  /\ reading' = [reading EXCEPT ![w] = now]
  /\ Goto(w, "test")
  /\ UNCHANGED <<now, requests, admitted>>

HeadExpired(w) == requests # <<>> /\ Head(requests) <= reading[w] - Window

Test(w) ==
  /\ pc[w] = "test"
  /\ Goto(w, IF HeadExpired(w) THEN "popleft" ELSE "compare")
  /\ UNCHANGED <<now, requests, reading, admitted>>

(* It takes off the entry that is the oldest now, whichever was tested.    *)
PopLeft(w) ==
  /\ pc[w] = "popleft"
  /\ requests # <<>>
  /\ requests' = Tail(requests)
  /\ Goto(w, "test")
  /\ UNCHANGED <<now, reading, admitted>>

(* IndexError: another thread has emptied the deque since the test.        *)
PopLeftRaises(w) ==
  /\ pc[w] = "popleft"
  /\ requests = <<>>
  /\ Goto(w, "idle")
  /\ UNCHANGED <<now, requests, reading, admitted>>

(* Bugs for the runs to catch: the limit compared with > instead of >=,    *)
(* and entries that hold the time they expire at.                          *)
FullOnceOver   == Len(requests) > Limit
ExpiryEntry(w) == reading[w] + Window

Full == Len(requests) >= Limit

Compare(w) ==
  /\ pc[w] = "compare"
  /\ Goto(w, IF Full THEN "idle" ELSE "append")
  /\ UNCHANGED <<now, requests, reading, admitted>>

Entry(w) == reading[w]

Admit(w) ==
  /\ pc[w] = "append"
  /\ requests' = Append(requests, Entry(w))
  /\ admitted' = [admitted EXCEPT ![reading[w]] = @ + 1]
  /\ Goto(w, "idle")
  /\ UNCHANGED <<now, reading>>

Tick(later) ==
  /\ later > now
  /\ now' = later
  /\ UNCHANGED <<requests, pc, reading, admitted>>

Next ==
  \/ \E w \in Thread :
       \/ ReadClock(w) \/ Test(w) \/ PopLeft(w) \/ PopLeftRaises(w)
       \/ Compare(w) \/ Admit(w)
  \/ \E later \in Time : Tick(later)

Spec == Init /\ [][Next]_vars
-----------------------------------------------------------------------------
TypeOK ==
  /\ now \in Time
  /\ requests \in Seq(Time)
  /\ pc \in [Thread -> {"idle", "test", "popleft", "compare", "append"}]
  /\ reading \in [Thread -> Time]
  /\ admitted \in [Time -> Nat]

Admissions(times) == SumFunctionOnSet(admitted, times)

(* "Raise HTTP 429 when a caller has exhausted its configured allowance."  *)
(* (auth.py 175): no window holds more admissions than the limit.          *)
AllowanceHolds ==
  \A x \in Time : Admissions({t \in Time : x - Window < t /\ t <= x}) <= Limit

Overshoot == Cardinality(Thread) - 1

(* What the race can cost: each thread but one may have compared the       *)
(* length before another one appended (auth.py 180-186), so the deque      *)
(* never grows past the limit by more than the other threads, and neither  *)
(* do the admissions of the first window of a key, when nothing has        *)
(* expired yet that a racing popleft could confuse.                        *)
OvershootIsBounded ==
  /\ Len(requests) <= Limit + Overshoot
  /\ now < Window => Admissions({t \in Time : t < Window}) <= Limit + Overshoot
=============================================================================
