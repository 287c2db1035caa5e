--------------------------- MODULE McpGatewayProofs ---------------------------
(***************************************************************************)
(* Proofs about McpGateway, for any tasks, subjects, tools, policies,      *)
(* limits and clock.                                                       *)
(*                                                                         *)
(* What the audit record says at the end of invoke rests on what its local *)
(* variables mean while a handler runs, so the invariant says that of each *)
(* task; and that a handler runs only for an admission rests on counting   *)
(* the handlers that run for each key.                                     *)
(*                                                                         *)
(* How many steps an invocation has left, how often its handler runs and   *)
(* that its record stays follow from the same invariant.                   *)
(*                                                                         *)
(* The last part is about the limiter of the HTTP gateway, which has the   *)
(* same window and no lock: the race costs one entry per other thread.     *)
(***************************************************************************)
EXTENDS McpGateway, Functions, SequenceTheorems, FiniteSetTheorems, WellFoundedInduction, TLAPS

(* What AuditTellsTruth says of one record.                                *)
Tells(t, record) ==
  /\ record.attempts = calls[t]
  /\ record.outcome = "success" <=> answer[t] = "output"
  /\ record.outcome = "denied" <=> answer[t] \in {"not_found", "access_denied"}
  /\ record.outcome = "invalid" <=> answer[t] = "invalid_arguments"
  /\ record.outcome \in {"denied", "invalid"} <=> calls[t] = 0
  /\ record.outcome = "timeout" /\ answer[t] = "cancelled" => calls[t] > 1

(* A task before, in and after its invocation: `outcome` is "timeout" only *)
(* once an earlier attempt has timed out.                                  *)
Unstarted(t) == calls[t] = 0 /\ outcome[t] = "error" /\ RecordsOf(t) = {}

Attempting(t) ==
  /\ calls[t] = attempts[t] /\ attempts[t] > 0
  /\ outcome[t] \in {"error", "timeout"} /\ (outcome[t] = "timeout" => attempts[t] > 1)
  /\ req[t] \in Request /\ Allows(req[t]) /\ req[t].valid
  /\ RecordsOf(t) = {}

Ended(t) == \E n \in 1..Len(audit) : RecordsOf(t) = {n} /\ Tells(t, audit[n])

TaskIsSound(t) ==
  /\ pc[t] = "new" => Unstarted(t)
  /\ pc[t] = "attempt" => Attempting(t)
  /\ pc[t] = "done" => Ended(t)

(* The handlers that run for a key have an admission each.                 *)
Running(k) == {t \in Task : pc[t] = "attempt" /\ KeyOf(req[t]) = k}

KeyIsSound(k) == IsFiniteSet(Running(k)) /\ Cardinality(Running(k)) <= Len(admitted[k])

IInv == TypeOK /\ (\A t \in Task : TaskIsSound(t)) /\ \A k \in Key : KeyIsSound(k)

-----------------------------------------------------------------------------
(* The loop that purges a deque stops at the first entry that has not      *)
(* expired (gateway.py 164-166).                                           *)
LEMMA PurgedIsSuffix ==
  ASSUME NEW entries \in Seq(Nat), now \in Nat
  PROVE  \E n \in 0..Len(entries) :
           /\ \A i \in 1..n : Expired(entries[i])
           /\ n < Len(entries) => ~ Expired(entries[n + 1])
           /\ Purged(entries) = SubSeq(entries, n + 1, Len(entries))
<1> DEFINE Stops(m) == m < Len(entries) => ~ Expired(entries[m + 1])
           T == {m \in 0..Len(entries) : Stops(m)}
           Ends(m) == (\A i \in 1..m : Expired(entries[i])) /\ Stops(m)
<1>1. T \subseteq Nat /\ T # {}
  <2>1. Len(entries) \in Nat
    OBVIOUS
  <2>2. Len(entries) \in T
    BY <2>1
  <2> QED
    BY <2>1, <2>2
<1>2. \E n \in T : \A m \in T : <<m, n>> \notin OpToRel(<, Nat)
  <2> HIDE DEF T
  <2> QED
    BY <1>1, NatLessThanWellFounded, WFMin
<1>3. PICK n \in T : \A m \in T : <<m, n>> \notin OpToRel(<, Nat)
  BY <1>2
<1>4. \A m \in T : ~ (m < n)
  <2> HIDE DEF T
  <2> QED
    BY <1>1, <1>3 DEF OpToRel
<1>5. n \in 0..Len(entries) /\ Stops(n)
  BY <1>3
<1>6. ASSUME NEW i \in 1..n PROVE Expired(entries[i])
  <2>1. i - 1 \in 0..Len(entries) /\ i - 1 < n /\ i - 1 < Len(entries) /\ (i - 1) + 1 = i
    BY <1>5
  <2>2. i - 1 \notin T
    <3> HIDE DEF T
    <3> QED
      BY <1>4, <2>1
  <2> QED
    BY <2>1, <2>2
<1>7. \E m \in 0..Len(entries) : Ends(m)
  BY <1>5, <1>6
<1> DEFINE c == CHOOSE m \in 0..Len(entries) : Ends(m)
<1>8. c \in 0..Len(entries) /\ Ends(c)
  <2> HIDE DEF Ends
  <2> QED
    BY <1>7
<1>9. Purged(entries) = SubSeq(entries, c + 1, Len(entries))
  BY DEF Purged
<1> HIDE DEF c
<1> QED
  BY <1>8, <1>9

(* The entries left after expired ones were dropped                        *)
(* (mcp_boundary/gateway.py 162-166).                                      *)
LEMMA PurgedType ==
  ASSUME NEW entries \in Seq(Nat), now \in Nat
  PROVE  Purged(entries) \in Seq(Nat)
<1>1. PICK n \in 0..Len(entries) : Purged(entries) = SubSeq(entries, n + 1, Len(entries))
  BY PurgedIsSuffix
<1>2. \A i \in n + 1..Len(entries) : entries[i] \in Nat
  BY ElementOfSeq
<1> QED
  BY <1>1, <1>2, SubSeqProperties

-----------------------------------------------------------------------------
(* What a check of the limiter does to the histories of a key.             *)
LEMMA LimiterTypes ==
  ASSUME TypeOK, NEW r \in Request, Allows(r), RateLimited(r) \/ Admitted(r)
  PROVE  /\ KeyOf(r) \in Key
         /\ requests' \in [Key -> Seq(Nat)] /\ admitted' \in [Key -> Seq(Nat)]
         /\ verdict' \in [Key -> {"none", "admitted", "denied"}]
         /\ \A k \in Key : Len(admitted'[k]) >= Len(admitted[k])
         /\ Admitted(r) => Len(admitted'[KeyOf(r)]) = Len(admitted[KeyOf(r)]) + 1
<1> DEFINE k == KeyOf(r)
           left == Purged(requests[k])
<1>1. k \in Key
  BY DEF Request, Allows, KeyOf, Key
<1>2. left \in Seq(Nat) /\ admitted[k] \in Seq(Nat) /\ now \in Nat
  BY <1>1, PurgedType DEF TypeOK
<1> HIDE DEF k, left
<1>3. CASE RateLimited(r)
  <2>1. /\ requests' = [requests EXCEPT ![k] = left] /\ admitted' = admitted
        /\ verdict' = [verdict EXCEPT ![k] = "denied"] /\ Len(left) >= Limit
    BY <1>3 DEF RateLimited, k, left
  <2>2. ~ Admitted(r)
    BY <1>2, <2>1, LimitsArePositive DEF Admitted, k, left
  <2>3. \A j \in Key : admitted[j] \in Seq(Nat)
    BY DEF TypeOK
  <2> QED
    BY <1>1, <1>2, <2>1, <2>2, <2>3 DEF TypeOK, k
<1>4. CASE Admitted(r)
  <2>1. /\ requests' = [requests EXCEPT ![k] = Append(left, now)]
        /\ admitted' = [admitted EXCEPT ![k] = Append(admitted[k], now)]
        /\ verdict' = [verdict EXCEPT ![k] = "admitted"]
    BY <1>4 DEF Admitted, k, left
  <2>2. /\ Append(left, now) \in Seq(Nat) /\ Append(admitted[k], now) \in Seq(Nat)
        /\ Len(Append(admitted[k], now)) = Len(admitted[k]) + 1
    BY <1>2, AppendProperties
  <2>3. \A j \in Key : admitted[j] \in Seq(Nat)
    BY DEF TypeOK
  <2> QED
    BY <1>1, <1>2, <2>1, <2>2, <2>3 DEF TypeOK, k
<1> QED
  BY <1>1, <1>3, <1>4 DEF k

-----------------------------------------------------------------------------
RecordType == [task : Task, outcome : Outcome, attempts : 0..MaxAttempts]

(* A record at the end of the audit is the task's own, and nobody else's.  *)
LEMMA AuditGrows ==
  ASSUME TypeOK, NEW t \in Task, NEW o \in Outcome, NEW a, NEW n \in 0..MaxAttempts,
         audit' = Record(t, o, a, n)
  PROVE  /\ audit' \in Seq(RecordType)
         /\ Len(audit') = Len(audit) + 1 /\ Len(audit) \in Nat
         /\ \A i \in 1..Len(audit) : audit'[i] = audit[i]
         /\ audit'[Len(audit')] = [task |-> t, outcome |-> o, attempts |-> n]
         /\ RecordsOf(t)' = RecordsOf(t) \cup {Len(audit')}
         /\ \A u \in Task \ {t} : RecordsOf(u)' = RecordsOf(u)
<1> DEFINE record == [task |-> t, outcome |-> o, attempts |-> n]
<1>1. audit \in Seq(RecordType) /\ record \in RecordType /\ audit' = Append(audit, record)
  BY DEF TypeOK, RecordType, Record
<1>2. record.task = t
  OBVIOUS
<1> HIDE DEF record
<1>3. /\ audit' \in Seq(RecordType)
      /\ Len(audit') = Len(audit) + 1 /\ Len(audit) \in Nat
      /\ \A i \in 1..Len(audit) : audit'[i] = audit[i]
      /\ audit'[Len(audit) + 1] = record
  BY <1>1, AppendProperties, LenProperties
<1>4. 1..Len(audit') = 1..Len(audit) \cup {Len(audit')}
  BY <1>3
<1>5. RecordsOf(t)' = RecordsOf(t) \cup {Len(audit')}
  BY <1>2, <1>3, <1>4 DEF RecordsOf
<1>6. ASSUME NEW u \in Task \ {t} PROVE RecordsOf(u)' = RecordsOf(u)
  BY <1>2, <1>3, <1>4 DEF RecordsOf
<1> QED
  BY <1>3, <1>5, <1>6 DEF record

(* The other tasks of a step are left as they are.                         *)
LEMMA OthersKeep ==
  ASSUME NEW t \in Task, NEW u \in Task \ {t}, TaskIsSound(u), audit \in Seq(RecordType),
         pc'[u] = pc[u], calls'[u] = calls[u], attempts'[u] = attempts[u], outcome'[u] = outcome[u],
         answer'[u] = answer[u], req'[u] = req[u], RecordsOf(u)' = RecordsOf(u),
         Len(audit') >= Len(audit), Len(audit') \in Nat,
         \A i \in 1..Len(audit) : audit'[i] = audit[i]
  PROVE  TaskIsSound(u)'
<1>1. Unstarted(u) => Unstarted(u)'
  BY DEF Unstarted
<1>2. Attempting(u) => Attempting(u)'
  BY DEF Attempting, Allows
<1>3. Ended(u) => Ended(u)'
  <2> SUFFICES ASSUME Ended(u) PROVE Ended(u)'
    OBVIOUS
  <2>1. PICK n \in 1..Len(audit) : RecordsOf(u) = {n} /\ Tells(u, audit[n])
    BY DEF Ended
  <2>2. Len(audit) \in Nat
    BY LenProperties
  <2>3. n \in 1..Len(audit') /\ audit'[n] = audit[n] /\ RecordsOf(u)' = {n}
    BY <2>1, <2>2
  <2>4. Tells(u, audit[n])'
    BY <2>1, <2>3 DEF Tells
  <2> QED
    BY <2>3, <2>4 DEF Ended
<1> QED
  BY <1>1, <1>2, <1>3 DEF TaskIsSound

TaskTypes ==
  /\ pc \in [Task -> {"new", "attempt", "done"}]
  /\ req \in [Task -> Request \cup {NoRequest}]
  /\ attempts \in [Task -> 0..MaxAttempts] /\ calls \in [Task -> 0..(MaxAttempts + 1)]
  /\ outcome \in [Task -> Outcome] /\ answer \in [Task -> Answer]
  /\ audit \in Seq(RecordType)

(* The end of invoke, on whatever path: what is recorded is what the       *)
(* caller gets and what was asked of the handler (gateway.py 142-159).     *)
LEMMA FinishIsSound ==
  ASSUME TypeOK, \A u \in Task : TaskIsSound(u),
         NEW t \in Task, NEW o \in Outcome, NEW a \in Answer, NEW n \in 0..MaxAttempts,
         pc[t] # "done", Finish(t, o, a, n), n = calls[t],
         o = "success" <=> a = "output",
         o = "denied" <=> a \in {"not_found", "access_denied"},
         o = "invalid" <=> a = "invalid_arguments",
         o \in {"denied", "invalid"} <=> n = 0,
         o = "timeout" /\ a = "cancelled" => n > 1
  PROVE  /\ TaskTypes'
         /\ \A u \in Task : TaskIsSound(u)'
         /\ \A k \in Key : Running(k)' = Running(k) \ {t}
<1>1. /\ pc' = [pc EXCEPT ![t] = "done"] /\ req' = [req EXCEPT ![t] = NoRequest]
      /\ outcome' = [outcome EXCEPT ![t] = o] /\ answer' = [answer EXCEPT ![t] = a]
      /\ audit' = Record(t, o, a, n) /\ UNCHANGED <<attempts, calls>>
  BY DEF Finish
<1>2. TaskTypes
  BY DEF TypeOK, TaskTypes, RecordType
<1>3. /\ audit' \in Seq(RecordType)
      /\ Len(audit') = Len(audit) + 1 /\ Len(audit) \in Nat
      /\ \A i \in 1..Len(audit) : audit'[i] = audit[i]
      /\ audit'[Len(audit')] = [task |-> t, outcome |-> o, attempts |-> n]
      /\ RecordsOf(t)' = RecordsOf(t) \cup {Len(audit')}
      /\ \A u \in Task \ {t} : RecordsOf(u)' = RecordsOf(u)
  BY <1>1, AuditGrows
<1>4. TaskTypes'
  BY <1>1, <1>2, <1>3 DEF TaskTypes
<1>5. /\ pc'[t] = "done" /\ answer'[t] = a /\ calls'[t] = n
      /\ \A u \in Task \ {t} :
           /\ pc'[u] = pc[u] /\ calls'[u] = calls[u] /\ attempts'[u] = attempts[u]
           /\ outcome'[u] = outcome[u] /\ answer'[u] = answer[u] /\ req'[u] = req[u]
  BY <1>1, <1>2 DEF TaskTypes
<1>6. TaskIsSound(t)'
  <2>1. RecordsOf(t) = {}
    BY <1>2 DEF TaskIsSound, Unstarted, Attempting, TaskTypes
  <2>2. Tells(t, audit[Len(audit)])'
    BY <1>3, <1>5 DEF Tells
  <2>3. RecordsOf(t)' = {Len(audit')} /\ Len(audit') \in 1..Len(audit')
    BY <1>3, <2>1
  <2> QED
    BY <1>5, <2>2, <2>3 DEF TaskIsSound, Ended
<1>7. ASSUME NEW u \in Task \ {t} PROVE TaskIsSound(u)'
  <2>1. TaskIsSound(u) /\ audit \in Seq(RecordType) /\ Len(audit') >= Len(audit) /\ Len(audit') \in Nat
    BY <1>2, <1>3 DEF TaskTypes
  <2> QED
    BY <1>3, <1>5, <2>1, OthersKeep
<1>8. ASSUME NEW k \in Key PROVE Running(k)' = Running(k) \ {t}
  BY <1>5 DEF Running, KeyOf
<1> QED
  BY <1>4, <1>6, <1>7, <1>8

(* A handler is called, for the first time or again (125-131).             *)
LEMMA AttemptIsSound ==
  ASSUME TypeOK, \A u \in Task : TaskIsSound(u),
         NEW t \in Task, NEW n \in 1..MaxAttempts, Attempt(t, n),
         pc[t] # "done", calls[t] = n - 1,
         NEW r \in Request, Allows(r), r.valid, req' = [req EXCEPT ![t] = r],
         NEW o \in {"error", "timeout"}, outcome' = [outcome EXCEPT ![t] = o],
         o = "timeout" => n > 1
  PROVE  /\ TaskTypes'
         /\ \A u \in Task : TaskIsSound(u)'
         /\ Running(KeyOf(r))' = Running(KeyOf(r)) \cup {t}
         /\ \A k \in Key \ {KeyOf(r)} : Running(k)' = Running(k) \ {t}
<1>1. /\ pc' = [pc EXCEPT ![t] = "attempt"] /\ attempts' = [attempts EXCEPT ![t] = n]
      /\ UNCHANGED <<answer, audit>>
  BY DEF Attempt
<1>2. TaskTypes
  BY DEF TypeOK, TaskTypes, RecordType
<1>3. calls' = [calls EXCEPT ![t] = n]
  <2>1. ~ (calls[t] > MaxAttempts) /\ calls[t] + 1 = n
    BY LimitsArePositive
  <2> QED
    BY <2>1 DEF Attempt, CountCall
<1>4. TaskTypes'
  BY <1>1, <1>2, <1>3, LimitsArePositive DEF TaskTypes, Outcome
<1>5. /\ pc'[t] = "attempt" /\ attempts'[t] = n /\ calls'[t] = n /\ outcome'[t] = o /\ req'[t] = r
      /\ \A u \in Task \ {t} :
           /\ pc'[u] = pc[u] /\ calls'[u] = calls[u] /\ attempts'[u] = attempts[u]
           /\ outcome'[u] = outcome[u] /\ answer'[u] = answer[u] /\ req'[u] = req[u]
  BY <1>1, <1>2, <1>3 DEF TaskTypes
<1>6. TaskIsSound(t)'
  <2>1. RecordsOf(t)' = {}
    BY <1>1, <1>2 DEF TaskIsSound, Unstarted, Attempting, TaskTypes, RecordsOf
  <2> QED
    BY <1>5, <2>1 DEF TaskIsSound, Attempting, Allows
<1>7. ASSUME NEW u \in Task \ {t} PROVE TaskIsSound(u)'
  <2>1. TaskIsSound(u) /\ audit \in Seq(RecordType) /\ Len(audit) \in Nat /\ RecordsOf(u)' = RecordsOf(u)
    BY <1>1, <1>2, LenProperties DEF TaskTypes, RecordsOf
  <2> QED
    BY <1>1, <1>5, <2>1, OthersKeep
<1>8. Running(KeyOf(r))' = Running(KeyOf(r)) \cup {t}
  BY <1>5 DEF Running, KeyOf
<1>9. ASSUME NEW k \in Key \ {KeyOf(r)} PROVE Running(k)' = Running(k) \ {t}
  BY <1>5 DEF Running, KeyOf
<1> QED
  BY <1>4, <1>6, <1>7, <1>8, <1>9

-----------------------------------------------------------------------------
(* One element less, or one more for one more that is allowed.             *)
LEMMA OneElement ==
  ASSUME NEW S, NEW T, NEW x, NEW m \in Nat, NEW n \in Nat,
         IsFiniteSet(S), Cardinality(S) <= m, n >= m,
         \/ T = S \ {x} \/ T = S
         \/ T = S \cup {x} /\ n = m + 1
  PROVE  IsFiniteSet(T) /\ Cardinality(T) <= n
<1>1. Cardinality(S) \in Nat
  BY FS_CardinalityType
<1>2. CASE T = S \ {x}
  <2>1. IsFiniteSet(T) /\ (Cardinality(T) = Cardinality(S) \/ Cardinality(T) = Cardinality(S) - 1)
    BY <1>2, FS_RemoveElement
  <2> QED
    BY <1>1, <2>1
<1>3. CASE T = S
  BY <1>1, <1>3
<1>4. CASE T = S \cup {x} /\ n = m + 1
  <2>1. IsFiniteSet(T) /\ (Cardinality(T) = Cardinality(S) \/ Cardinality(T) = Cardinality(S) + 1)
    BY <1>4, FS_AddElement
  <2> QED
    BY <1>1, <1>4, <2>1
<1> QED
  BY <1>2, <1>3, <1>4

(* A handler that stops, of whatever key, leaves an admission over; one    *)
(* that starts has been given one (gateway.py 109-131).                    *)
LEMMA KeyKeepsItsBound ==
  ASSUME NEW k \in Key, KeyIsSound(k), NEW t,
         admitted[k] \in Seq(Nat), admitted'[k] \in Seq(Nat),
         Len(admitted'[k]) >= Len(admitted[k]),
         \/ Running(k)' = Running(k) \ {t} \/ Running(k)' = Running(k)
         \/ Running(k)' = Running(k) \cup {t} /\ Len(admitted'[k]) = Len(admitted[k]) + 1
  PROVE  KeyIsSound(k)'
<1>1. Len(admitted[k]) \in Nat /\ Len(admitted'[k]) \in Nat
  BY LenProperties
<1>2. IsFiniteSet(Running(k)) /\ Cardinality(Running(k)) <= Len(admitted[k])
  BY DEF KeyIsSound
<1>3. IsFiniteSet(Running(k)') /\ Cardinality(Running(k)') <= Len(admitted'[k])
  BY <1>1, <1>2, OneElement
<1> QED
  BY <1>3 DEF KeyIsSound

(* The end of an invocation keeps the invariant.                           *)
LEMMA FinishKeepsIInv ==
  ASSUME IInv,
         NEW t \in Task, NEW o \in Outcome, NEW a \in Answer, NEW n \in 0..MaxAttempts,
         pc[t] # "done", Finish(t, o, a, n), n = calls[t],
         o = "success" <=> a = "output",
         o = "denied" <=> a \in {"not_found", "access_denied"},
         o = "invalid" <=> a = "invalid_arguments",
         o \in {"denied", "invalid"} <=> n = 0,
         o = "timeout" /\ a = "cancelled" => n > 1,
         now' = now,
         requests' \in [Key -> Seq(Nat)], admitted' \in [Key -> Seq(Nat)],
         verdict' \in [Key -> {"none", "admitted", "denied"}],
         \A k \in Key : Len(admitted'[k]) >= Len(admitted[k])
  PROVE  IInv'
<1>1. TypeOK /\ (\A u \in Task : TaskIsSound(u)) /\ \A k \in Key : KeyIsSound(k)
  BY DEF IInv
<1>2. /\ TaskTypes'
      /\ \A u \in Task : TaskIsSound(u)'
      /\ \A k \in Key : Running(k)' = Running(k) \ {t}
  BY <1>1, FinishIsSound
<1>3. TypeOK'
  BY <1>1, <1>2 DEF TypeOK, TaskTypes, RecordType
<1>4. ASSUME NEW k \in Key PROVE KeyIsSound(k)'
  <2>1. admitted[k] \in Seq(Nat) /\ admitted'[k] \in Seq(Nat)
    BY <1>1 DEF TypeOK
  <2> QED
    BY <1>1, <1>2, <2>1, KeyKeepsItsBound
<1> QED
  BY <1>2, <1>3, <1>4 DEF IInv

(* invoke, up to its first await (gateway.py 88-131).                      *)
LEMMA BeginIInv ==
  ASSUME IInv, NEW t \in Task, NEW r \in Request,
         Deny(t, r) \/ DenyByRate(t, r) \/ RejectArguments(t, r) \/ Start(t, r)
  PROVE  IInv'
<1>1. TypeOK /\ (\A u \in Task : TaskIsSound(u)) /\ \A k \in Key : KeyIsSound(k)
  BY DEF IInv
<1>2. pc[t] = "new" /\ calls[t] = 0 /\ 0 \in 0..MaxAttempts
  BY <1>1, LimitsArePositive DEF Deny, DenyByRate, RejectArguments, Start, TaskIsSound, Unstarted
<1>3. \A k \in Key : admitted[k] \in Seq(Nat) /\ Len(admitted[k]) \in Nat
  BY <1>1, LenProperties DEF TypeOK
<1>4. CASE Deny(t, r)
  <2>1. PICK a \in {"access_denied", "not_found"} : Finish(t, "denied", a, 0)
    BY <1>4 DEF Deny
  <2>2. UNCHANGED Limiters
    BY <1>4 DEF Deny, Limiters
  <2>3. /\ now' = now
        /\ requests' \in [Key -> Seq(Nat)] /\ admitted' \in [Key -> Seq(Nat)]
        /\ verdict' \in [Key -> {"none", "admitted", "denied"}]
        /\ \A k \in Key : Len(admitted'[k]) >= Len(admitted[k])
    BY <1>1, <1>3, <2>2 DEF TypeOK, Limiters
  <2>4. "denied" \in Outcome /\ a \in Answer
    BY DEF Outcome, Answer
  <2> QED
    BY <1>2, <2>1, <2>3, <2>4, FinishKeepsIInv
<1>5. CASE DenyByRate(t, r)
  <2>1. Finish(t, "denied", "access_denied", 0) /\ Allows(r) /\ RateLimited(r) /\ now' = now
    BY <1>5 DEF DenyByRate
  <2>2. "denied" \in Outcome /\ "access_denied" \in Answer
    BY DEF Outcome, Answer
  <2> QED
    BY <1>1, <1>2, <2>1, <2>2, LimiterTypes, FinishKeepsIInv
<1>6. CASE RejectArguments(t, r)
  <2>1. Finish(t, "invalid", "invalid_arguments", 0) /\ Allows(r) /\ Admitted(r) /\ now' = now
    BY <1>6 DEF RejectArguments
  <2>2. "invalid" \in Outcome /\ "invalid_arguments" \in Answer
    BY DEF Outcome, Answer
  <2> QED
    BY <1>1, <1>2, <2>1, <2>2, LimiterTypes, FinishKeepsIInv
<1>7. CASE Start(t, r)
  <2>1. /\ Allows(r) /\ Admitted(r) /\ r.valid /\ Attempt(t, 1)
        /\ req' = [req EXCEPT ![t] = r] /\ now' = now /\ outcome' = outcome
    BY <1>7 DEF Start
  <2>2. outcome' = [outcome EXCEPT ![t] = "error"] /\ 1 \in 1..MaxAttempts
    BY <1>1, <1>2, <2>1, LimitsArePositive DEF TypeOK, TaskIsSound, Unstarted
  <2> PICK n \in 1..MaxAttempts : n = 1
    BY <2>2
  <2> PICK o \in {"error", "timeout"} : o = "error"
    OBVIOUS
  <2>3. /\ calls[t] = n - 1 /\ pc[t] # "done" /\ Attempt(t, n)
        /\ outcome' = [outcome EXCEPT ![t] = o] /\ o # "timeout"
    <3>1. 0 = n - 1
      OBVIOUS
    <3> QED
      BY <1>2, <2>1, <2>2, <3>1
  <2>4. /\ TaskTypes'
        /\ \A u \in Task : TaskIsSound(u)'
        /\ Running(KeyOf(r))' = Running(KeyOf(r)) \cup {t}
        /\ \A k \in Key \ {KeyOf(r)} : Running(k)' = Running(k) \ {t}
    BY <1>1, <2>1, <2>3, AttemptIsSound
  <2>5. /\ requests' \in [Key -> Seq(Nat)] /\ admitted' \in [Key -> Seq(Nat)]
        /\ verdict' \in [Key -> {"none", "admitted", "denied"}]
        /\ \A k \in Key : Len(admitted'[k]) >= Len(admitted[k])
        /\ Len(admitted'[KeyOf(r)]) = Len(admitted[KeyOf(r)]) + 1
    BY <1>1, <2>1, LimiterTypes
  <2>6. TypeOK'
    BY <1>1, <2>1, <2>4, <2>5 DEF TypeOK, TaskTypes, RecordType
  <2>7. ASSUME NEW k \in Key PROVE KeyIsSound(k)'
    <3>1. admitted[k] \in Seq(Nat) /\ admitted'[k] \in Seq(Nat)
      BY <1>1, <2>5 DEF TypeOK
    <3> QED
      BY <1>1, <2>4, <2>5, <3>1, KeyKeepsItsBound
  <2> QED
    BY <2>4, <2>6, <2>7 DEF IInv
<1> QED
  BY <1>4, <1>5, <1>6, <1>7

(* What follows an attempt, and a cancellation at its await (132-159).     *)
LEMMA AttemptEndsIInv ==
  ASSUME IInv, NEW t \in Task, AttemptEnds(t) \/ Cancel(t)
  PROVE  IInv'
<1>1. TypeOK /\ (\A u \in Task : TaskIsSound(u)) /\ \A k \in Key : KeyIsSound(k)
  BY DEF IInv
<1>2. pc[t] = "attempt" /\ UNCHANGED Limiters
  BY DEF AttemptEnds, Cancel, Succeed, NoValidResult, Fail, Retry
<1>3. /\ calls[t] = attempts[t] /\ attempts[t] \in 1..MaxAttempts
      /\ outcome[t] \in {"error", "timeout"} /\ (outcome[t] = "timeout" => attempts[t] > 1)
      /\ req[t] \in Request /\ Allows(req[t]) /\ req[t].valid
  BY <1>1, <1>2, LimitsArePositive DEF TaskIsSound, Attempting, TypeOK
<1>4. /\ now' = now
      /\ requests' \in [Key -> Seq(Nat)] /\ admitted' = admitted
      /\ admitted' \in [Key -> Seq(Nat)]
      /\ verdict' \in [Key -> {"none", "admitted", "denied"}]
  BY <1>1, <1>2 DEF TypeOK, Limiters
<1>5. \A k \in Key : admitted[k] \in Seq(Nat) /\ Len(admitted'[k]) >= Len(admitted[k])
  <2>1. \A k \in Key : admitted[k] \in Seq(Nat) /\ Len(admitted[k]) \in Nat
    BY <1>1, LenProperties DEF TypeOK
  <2> QED
    BY <1>4, <2>1
<1>6. ASSUME NEW o \in {"success", "error", "timeout"},
             NEW a \in {"output", "failure", "cancelled"},
             o = "success" <=> a = "output",
             o = "timeout" /\ a = "cancelled" => attempts[t] > 1,
             Finish(t, o, a, attempts[t])
      PROVE  IInv'
  <2>1. o \in Outcome /\ a \in Answer /\ attempts[t] \in 0..MaxAttempts
    BY <1>3 DEF Outcome, Answer
  <2>2. attempts[t] = calls[t] /\ attempts[t] # 0 /\ pc[t] # "done"
    BY <1>2, <1>3, LimitsArePositive
  <2> QED
    BY <1>4, <1>5, <1>6, <2>1, <2>2, FinishKeepsIInv
<1>7. CASE Succeed(t)
  BY <1>6, <1>7 DEF Succeed
<1>8. CASE NoValidResult(t)
  BY <1>6, <1>8 DEF NoValidResult
<1>9. CASE Cancel(t)
  BY <1>3, <1>6, <1>9 DEF Cancel
<1>10. ASSUME NEW o \in {"timeout", "error"}, Fail(t, o) PROVE IInv'
  BY <1>6, <1>10 DEF Fail
<1>11. ASSUME NEW o \in {"timeout", "error"}, Retry(t, o) PROVE IInv'
  <2> DEFINE n == attempts[t] + 1
  <2> PICK r \in Request : r = req[t]
    BY <1>3
  <2>1. /\ Attempt(t, n) /\ outcome' = [outcome EXCEPT ![t] = o] /\ req' = req
        /\ attempts[t] # MaxAttempts
    BY <1>11 DEF Retry, LastAttempt
  <2>2. n \in 1..MaxAttempts /\ n > 1 /\ calls[t] = n - 1 /\ pc[t] # "done"
    BY <1>2, <1>3, <2>1, LimitsArePositive
  <2>3. req' = [req EXCEPT ![t] = r] /\ Allows(r) /\ r.valid
    BY <1>1, <1>3, <2>1 DEF TypeOK
  <2>4. t \in Running(KeyOf(r))
    BY <1>2 DEF Running
  <2> HIDE DEF n
  <2>5. /\ TaskTypes'
        /\ \A u \in Task : TaskIsSound(u)'
        /\ Running(KeyOf(r))' = Running(KeyOf(r)) \cup {t}
        /\ \A k \in Key \ {KeyOf(r)} : Running(k)' = Running(k) \ {t}
    BY <1>1, <2>1, <2>2, <2>3, AttemptIsSound
  <2>6. TypeOK'
    BY <1>1, <1>4, <2>5 DEF TypeOK, TaskTypes, RecordType
  <2>7. ASSUME NEW k \in Key PROVE KeyIsSound(k)'
    <3>1. Running(k)' = Running(k) \/ Running(k)' = Running(k) \ {t}
      BY <2>4, <2>5
    <3>2. KeyIsSound(k) /\ admitted[k] \in Seq(Nat) /\ admitted'[k] \in Seq(Nat)
          /\ Len(admitted'[k]) >= Len(admitted[k])
      BY <1>1, <1>4, <1>5
    <3> QED
      BY <3>1, <3>2, KeyKeepsItsBound
  <2> QED
    BY <2>5, <2>6, <2>7 DEF IInv
<1> QED
  BY <1>7, <1>8, <1>9, <1>10, <1>11 DEF AttemptEnds

(* Only tasks move when the clock stands, and only the clock when it runs. *)
LEMMA TickIInv ==
  ASSUME IInv, NEW later \in Time, Tick(later)
  PROVE  IInv'
<1>1. TypeOK'
  BY TimesAreNaturals DEF IInv, TypeOK, Tick
<1>2. ASSUME NEW t \in Task PROVE TaskIsSound(t)'
  BY DEF IInv, Tick, TaskIsSound, Unstarted, Attempting, Ended, Tells, RecordsOf, Allows
<1>3. ASSUME NEW k \in Key PROVE KeyIsSound(k)'
  BY DEF IInv, Tick, KeyIsSound, Running, KeyOf
<1> QED
  BY <1>1, <1>2, <1>3 DEF IInv

(* Before the first invocation.                                            *)
LEMMA InitIInv == Init => IInv
<1> SUFFICES ASSUME Init PROVE IInv
  OBVIOUS
<1>1. TypeOK
  BY LimitsArePositive DEF Init, TypeOK, Outcome, Answer
<1>2. ASSUME NEW t \in Task PROVE TaskIsSound(t)
  BY DEF Init, TaskIsSound, Unstarted, RecordsOf
<1>3. ASSUME NEW k \in Key PROVE KeyIsSound(k)
  <2>1. Running(k) = {}
    BY DEF Init, Running
  <2>2. Len(admitted[k]) = 0
    BY DEF Init
  <2> QED
    BY <2>1, <2>2, FS_EmptySet DEF KeyIsSound
<1> QED
  BY <1>1, <1>2, <1>3 DEF IInv

(* Whatever the tasks do and however their steps interleave.               *)
LEMMA NextIInv == IInv /\ [Next]_vars => IInv'
<1> SUFFICES ASSUME IInv, [Next]_vars PROVE IInv'
  OBVIOUS
<1>1. ASSUME NEW t \in Task, Begin(t) PROVE IInv'
  BY <1>1, BeginIInv DEF Begin
<1>2. ASSUME NEW t \in Task, AttemptEnds(t) \/ Cancel(t) PROVE IInv'
  BY <1>2, AttemptEndsIInv
<1>3. ASSUME NEW later \in Time, Tick(later) PROVE IInv'
  BY <1>3, TickIInv
<1>4. CASE UNCHANGED vars
  <2>1. TypeOK'
    BY <1>4 DEF IInv, TypeOK, vars
  <2>2. ASSUME NEW t \in Task PROVE TaskIsSound(t)'
    BY <1>4 DEF IInv, vars, TaskIsSound, Unstarted, Attempting, Ended, Tells, RecordsOf, Allows
  <2>3. ASSUME NEW k \in Key PROVE KeyIsSound(k)'
    BY <1>4 DEF IInv, vars, KeyIsSound, Running, KeyOf
  <2> QED
    BY <2>1, <2>2, <2>3 DEF IInv
<1> QED
  BY <1>1, <1>2, <1>3, <1>4 DEF Next

(* The inductive invariant holds of every reachable state.                 *)
THEOREM Invariance == Spec => []IInv
  BY InitIInv, NextIInv, PTL DEF Spec

(* The gateway's variables keep their types.                               *)
THEOREM TypeCorrect == Spec => []TypeOK
<1>1. IInv => TypeOK
  BY DEF IInv
<1> QED
  BY <1>1, Invariance, PTL

(* The records of the audit are one for each invocation that has ended,    *)
(* and say what the caller saw and what was asked of the handler           *)
(* (gateway.py 142-159).                                                   *)
THEOREM AuditIsTrue == Spec => []AuditTellsTruth
<1>1. IInv => AuditTellsTruth
  <2> SUFFICES ASSUME IInv, NEW t \in Task
               PROVE  /\ Cardinality(RecordsOf(t)) = IF pc[t] = "done" THEN 1 ELSE 0
                      /\ \A n \in RecordsOf(t) : Tells(t, audit[n])
    BY DEF AuditTellsTruth, Tells
  <2>1. TaskIsSound(t) /\ pc[t] \in {"new", "attempt", "done"}
    BY DEF IInv, TypeOK
  <2>2. CASE pc[t] = "done"
    <3>1. PICK n \in 1..Len(audit) : RecordsOf(t) = {n} /\ Tells(t, audit[n])
      BY <2>1, <2>2 DEF TaskIsSound, Ended
    <3>2. Cardinality(RecordsOf(t)) = 1
      BY <3>1, FS_Singleton
    <3> QED
      BY <2>2, <3>1, <3>2
  <2>3. CASE pc[t] # "done"
    <3>1. RecordsOf(t) = {}
      BY <2>1, <2>3 DEF TaskIsSound, Unstarted, Attempting
    <3>2. Cardinality(RecordsOf(t)) = 0
      BY <3>1, FS_EmptySet
    <3> QED
      BY <2>3, <3>1, <3>2
  <2> QED
    BY <2>2, <2>3
<1> QED
  BY <1>1, Invariance, PTL

(* A handler only ever runs for a call that the policy allows, with valid  *)
(* arguments, for an admission of its limiter that no other handler has    *)
(* (gateway.py 88-131).                                                    *)
THEOREM Governed == Spec => []OnlyGovernedCalls
<1>1. IInv => OnlyGovernedCalls
  <2> SUFFICES ASSUME IInv, NEW t \in Task, pc[t] = "attempt"
               PROVE  LET r == req[t] IN
                      /\ r.tool \in Registered /\ r.agent \in AllowedAgents[r.tool]
                      /\ RequiredRoles[r.tool] \subseteq r.roles
                      /\ r.valid
                      /\ Cardinality({u \in Task : pc[u] = "attempt" /\ KeyOf(req[u]) = KeyOf(r)})
                           <= Len(admitted[KeyOf(r)])
    BY DEF OnlyGovernedCalls
  <2>1. req[t] \in Request /\ Allows(req[t]) /\ req[t].valid
    BY DEF IInv, TaskIsSound, Attempting
  <2>2. KeyOf(req[t]) \in Key
    BY <2>1 DEF Request, Allows, KeyOf, Key
  <2>3. Cardinality(Running(KeyOf(req[t]))) <= Len(admitted[KeyOf(req[t])])
    BY <2>2 DEF IInv, KeyIsSound
  <2> QED
    BY <2>1, <2>3 DEF Allows, Running
<1> QED
  BY <1>1, Invariance, PTL

-----------------------------------------------------------------------------
(***************************************************************************)
(* How far an invocation is from its end.                                  *)
(***************************************************************************)
(* An invocation calls its tool's handler at most max_attempts times       *)
(* (gateway.py 125).                                                       *)
CallsAreBounded == \A t \in Task : calls[t] <= MaxAttempts

Distance(step, n) ==
  CASE step = "new"     -> MaxAttempts + 1
    [] step = "attempt" -> MaxAttempts - n + 1
    [] OTHER            -> 0

ToGo(t) == Distance(pc[t], attempts[t])

(* No step takes an invocation away from its end, calls its handler or     *)
(* changes its answer after it; its own steps bring it nearer.             *)
Advances(t) ==
  /\ ToGo(t)' <= ToGo(t)
  /\ Begin(t) \/ AttemptEnds(t) \/ Cancel(t) => ToGo(t)' < ToGo(t)
  /\ pc[t] = "done" => calls'[t] = calls[t] /\ answer'[t] = answer[t]

InvocationsAdvance == [][\A t \in Task : Advances(t)]_vars

(* The audit is only ever appended to: the record of the invocation that   *)
(* ends in this step, with the calls that were made (gateway.py 142-159).  *)
Recorded(t) ==
  /\ pc[t] # "done" /\ pc'[t] = "done"
  /\ \E o \in Outcome : audit' = Append(audit, [task |-> t, outcome |-> o, attempts |-> calls[t]])

AuditOnlyGrows == [][\E t \in Task : Recorded(t)]_audit

(* What a step of one task leaves the others.                              *)
LeavesOthers(t) ==
  \A u \in Task \ {t} :
    /\ pc'[u] = pc[u] /\ attempts'[u] = attempts[u]
    /\ calls'[u] = calls[u] /\ answer'[u] = answer[u]

(* An invocation has an end ahead of it until it is there.                 *)
LEMMA DistanceType ==
  ASSUME NEW step \in {"new", "attempt", "done"}, NEW n \in 0..MaxAttempts
  PROVE  Distance(step, n) \in Nat /\ (Distance(step, n) = 0 <=> step = "done")
BY LimitsArePositive DEF Distance

(* The step that ends an invocation, on whatever path (142-159).           *)
LEMMA EndsInvocation ==
  ASSUME IInv, NEW t \in Task, NEW o \in Outcome, NEW a, NEW n, Finish(t, o, a, n),
         pc[t] # "done", n = calls[t]
  PROVE  ToGo(t)' < ToGo(t) /\ LeavesOthers(t) /\ Recorded(t)
<1>1. TypeOK
  BY DEF IInv
<1>2. pc'[t] = "done" /\ LeavesOthers(t)
  BY <1>1 DEF TypeOK, Finish, LeavesOthers
<1>3. ToGo(t)' = 0
  BY <1>2 DEF ToGo, Distance
<1>4. ToGo(t) \in Nat \ {0}
  BY <1>1, DistanceType DEF TypeOK, ToGo
<1>5. Recorded(t)
  BY <1>2 DEF Finish, Record, Recorded
<1> QED
  BY <1>2, <1>3, <1>4, <1>5

(* The step that calls the handler, for the first time or again (125-131). *)
LEMMA CallsHandler ==
  ASSUME IInv, NEW t \in Task, NEW n \in 1..MaxAttempts, Attempt(t, n),
         pc[t] = "new" \/ (pc[t] = "attempt" /\ n = attempts[t] + 1)
  PROVE  ToGo(t)' < ToGo(t) /\ LeavesOthers(t) /\ audit' = audit
<1>1. TypeOK /\ MaxAttempts \in Nat /\ attempts[t] \in 0..MaxAttempts
  BY LimitsArePositive DEF IInv, TypeOK
<1>2. /\ pc'[t] = "attempt" /\ attempts'[t] = n /\ audit' = audit
      /\ LeavesOthers(t)
  BY <1>1 DEF TypeOK, Attempt, CountCall, LeavesOthers
<1>3. ToGo(t)' = MaxAttempts - n + 1
  BY <1>2 DEF ToGo, Distance
<1>4. ToGo(t) = IF pc[t] = "new" THEN MaxAttempts + 1 ELSE MaxAttempts - attempts[t] + 1
  BY DEF ToGo, Distance
<1> QED
  BY <1>1, <1>2, <1>3, <1>4

(* An invocation's own step, whichever it is (gateway.py 88-159).          *)
LEMMA OwnStep ==
  ASSUME IInv, NEW t \in Task, Begin(t) \/ AttemptEnds(t) \/ Cancel(t)
  PROVE  ToGo(t)' < ToGo(t) /\ LeavesOthers(t) /\ (Recorded(t) \/ audit' = audit) /\ pc[t] # "done"
<1>1. TypeOK /\ TaskIsSound(t)
  BY DEF IInv
<1>2. CASE Begin(t)
  <2>1. PICK r \in Request : Deny(t, r) \/ DenyByRate(t, r) \/ RejectArguments(t, r) \/ Start(t, r)
    BY <1>2 DEF Begin
  <2>2. pc[t] = "new" /\ calls[t] = 0
    BY <1>1, <2>1 DEF Deny, DenyByRate, RejectArguments, Start, TaskIsSound, Unstarted
  <2>3. CASE Start(t, r)
    <3>1. Attempt(t, 1) /\ 1 \in 1..MaxAttempts
      BY <2>3, LimitsArePositive DEF Start
    <3> QED
      BY <2>2, <3>1, CallsHandler
  <2>4. CASE ~ Start(t, r)
    <3>1. \E o \in Outcome, a \in Answer : Finish(t, o, a, 0)
      BY <2>1, <2>4 DEF Deny, DenyByRate, RejectArguments, Outcome, Answer
    <3> QED
      BY <2>2, <3>1, EndsInvocation
  <2> QED
    BY <2>3, <2>4
<1>3. CASE AttemptEnds(t) \/ Cancel(t)
  <2>1. pc[t] = "attempt"
    BY <1>3 DEF AttemptEnds, Cancel, Succeed, NoValidResult, Fail, Retry
  <2>2. Attempting(t)
    BY <1>1, <2>1 DEF TaskIsSound
  <2>3. /\ calls[t] = attempts[t] /\ attempts[t] \in 1..MaxAttempts /\ MaxAttempts \in Nat
        /\ outcome[t] \in Outcome
    BY <1>1, <2>2, LimitsArePositive DEF TypeOK, Attempting
  <2>4. CASE \E o \in {"timeout", "error"} : Retry(t, o)
    <3>1. Attempt(t, attempts[t] + 1) /\ attempts[t] # MaxAttempts
      BY <2>4 DEF Retry, LastAttempt
    <3>2. attempts[t] + 1 \in 1..MaxAttempts
      BY <2>3, <3>1
    <3> QED
      BY <2>1, <3>1, <3>2, CallsHandler
  <2>5. CASE ~ \E o \in {"timeout", "error"} : Retry(t, o)
    <3>1. \E o \in Outcome, a \in Answer : Finish(t, o, a, attempts[t])
      BY <1>3, <2>3, <2>5 DEF AttemptEnds, Cancel, Succeed, NoValidResult, Fail, Outcome, Answer
    <3> QED
      BY <2>1, <2>3, <3>1, EndsInvocation
  <2> QED
    BY <2>4, <2>5
<1> QED
  BY <1>2, <1>3

(* The attempts of an invocation never exceed the configured maximum, in   *)
(* whatever order its handler's timeouts and failures come (125-141).      *)
THEOREM HandlerCallsAreBounded == Spec => []CallsAreBounded
<1>1. ASSUME IInv PROVE CallsAreBounded
  <2> SUFFICES ASSUME NEW t \in Task PROVE calls[t] <= MaxAttempts
    BY DEF CallsAreBounded
  <2>1. /\ TypeOK /\ TaskIsSound(t) /\ attempts[t] \in 0..MaxAttempts
        /\ pc[t] \in {"new", "attempt", "done"} /\ MaxAttempts \in Nat
    BY <1>1, LimitsArePositive DEF IInv, TypeOK
  <2>2. CASE pc[t] = "new" \/ pc[t] = "attempt"
    BY <2>1, <2>2 DEF TaskIsSound, Unstarted, Attempting
  <2>3. CASE pc[t] = "done"
    <3>1. PICK n \in 1..Len(audit) : Tells(t, audit[n])
      BY <2>1, <2>3 DEF TaskIsSound, Ended
    <3>2. audit \in Seq(RecordType)
      BY <2>1 DEF TypeOK, RecordType
    <3>3. audit[n] \in RecordType
      BY <3>1, <3>2, ElementOfSeq
    <3>4. audit[n].attempts \in 0..MaxAttempts
      BY <3>3 DEF RecordType
    <3> QED
      BY <2>1, <3>1, <3>4 DEF Tells
  <2> QED
    BY <2>1, <2>2, <2>3
<1> QED
  BY <1>1, Invariance, PTL

(* An invocation needs at most MaxAttempts + 1 steps of its own, which     *)
(* nobody else's put off, and after its end its handler is not called and  *)
(* its answer stays (88-159).  What is left of EveryInvocationEnds is that *)
(* its timeouts run out.                                                   *)
THEOREM InvocationsOnlyAdvance == Spec => InvocationsAdvance
<1>1. ASSUME IInv, [Next]_vars, NEW t \in Task PROVE Advances(t)
  <2>1. CASE Begin(t) \/ AttemptEnds(t) \/ Cancel(t)
    <3>1. TypeOK /\ TypeOK'
      BY <1>1, NextIInv DEF IInv
    <3>2. ToGo(t) \in Nat /\ ToGo(t)' \in Nat
      BY <3>1, DistanceType DEF TypeOK, ToGo
    <3>3. ToGo(t)' < ToGo(t) /\ pc[t] # "done"
      BY <1>1, <2>1, OwnStep
    <3> QED
      BY <3>2, <3>3 DEF Advances
  <2>2. CASE ~ (Begin(t) \/ AttemptEnds(t) \/ Cancel(t))
    <3>1. pc'[t] = pc[t] /\ attempts'[t] = attempts[t] /\ calls'[t] = calls[t] /\ answer'[t] = answer[t]
      <4>1. ASSUME NEW u \in Task, Begin(u) \/ AttemptEnds(u) \/ Cancel(u)
            PROVE  /\ pc'[t] = pc[t] /\ attempts'[t] = attempts[t]
                   /\ calls'[t] = calls[t] /\ answer'[t] = answer[t]
        <5>1. u # t
          BY <2>2, <4>1
        <5>2. LeavesOthers(u)
          BY <1>1, <4>1, OwnStep
        <5> QED
          BY <5>1, <5>2 DEF LeavesOthers
      <4>2. (\E later \in Time : Tick(later)) \/ UNCHANGED vars
              => UNCHANGED <<pc, attempts, calls, answer>>
        BY DEF Tick, vars
      <4> QED
        BY <1>1, <4>1, <4>2 DEF Next
    <3>2. ToGo(t)' = ToGo(t) /\ ToGo(t) \in Nat
      BY <1>1, <3>1, DistanceType DEF ToGo, IInv, TypeOK
    <3> QED
      BY <2>2, <3>1, <3>2 DEF Advances
  <2> QED
    BY <2>1, <2>2
<1>2. IInv /\ [Next]_vars => [\A t \in Task : Advances(t)]_vars
  BY <1>1
<1> QED
  BY <1>2, Invariance, PTL DEF InvocationsAdvance, Spec

(* A record of the audit is never removed or changed, and each is written  *)
(* by the step that ends its invocation, with the calls its handler had    *)
(* (gateway.py 142-159).                                                   *)
THEOREM AuditIsAppendOnly == Spec => AuditOnlyGrows
<1>1. IInv /\ [Next]_vars => [\E t \in Task : Recorded(t)]_audit
  <2> SUFFICES ASSUME IInv, [Next]_vars PROVE audit' = audit \/ \E t \in Task : Recorded(t)
    OBVIOUS
  <2>1. ASSUME NEW t \in Task, Begin(t) \/ AttemptEnds(t) \/ Cancel(t)
        PROVE  audit' = audit \/ Recorded(t)
    BY <2>1, OwnStep
  <2>2. (\E later \in Time : Tick(later)) \/ UNCHANGED vars => audit' = audit
    BY DEF Tick, vars
  <2> QED
    BY <2>1, <2>2 DEF Next
<1> QED
  BY <1>1, Invariance, PTL DEF AuditOnlyGrows, Spec

-----------------------------------------------------------------------------
(* A check of the limiter of a key, in the terms of SlidingWindow.         *)
LEMMA CheckOfLimiter ==
  ASSUME TypeOK, NEW r \in Request, Allows(r), RateLimited(r) \/ Admitted(r), now' = now
  PROVE  \A k \in Key : [Limiter(k)!Next]_(Limiter(k)!vars)
<1> SUFFICES ASSUME NEW k \in Key PROVE [Limiter(k)!Next]_(Limiter(k)!vars)
  OBVIOUS
<1>1. KeyOf(r) \in Key
  BY DEF Request, Allows, KeyOf, Key
<1>2. CASE k # KeyOf(r)
  <2>1. requests'[k] = requests[k] /\ verdict'[k] = verdict[k] /\ admitted'[k] = admitted[k]
    BY <1>1, <1>2 DEF TypeOK, RateLimited, Admitted
  <2> QED
    BY <2>1 DEF Limiter!vars
<1>3. CASE k = KeyOf(r)
  <2>1. requests[k] \in Seq(Nat) /\ now \in Nat
    BY DEF TypeOK
  <2>2. PICK n \in 0..Len(requests[k]) :
          /\ \A i \in 1..n : Expired(requests[k][i])
          /\ n < Len(requests[k]) => ~ Expired(requests[k][n + 1])
          /\ Purged(requests[k]) = SubSeq(requests[k], n + 1, Len(requests[k]))
    BY <2>1, PurgedIsSuffix
  <2>3. Limiter(k)!Purges(n)
    BY <2>2 DEF Limiter!Purges, Limiter!Expired, Expired
  <2> DEFINE left == SubSeq(requests[k], n + 1, Len(requests[k]))
  <2>4. Len(left) \in Nat
    BY <2>1, <2>2, PurgedType, LenProperties
  <2> HIDE DEF left
  <2>5. \/ /\ Len(left) >= Limit
           /\ requests'[k] = left /\ verdict'[k] = "denied" /\ admitted'[k] = admitted[k]
        \/ /\ Len(left) < Limit
           /\ requests'[k] = Append(left, now) /\ verdict'[k] = "admitted"
           /\ admitted'[k] = Append(admitted[k], now)
    <3>1. left = Purged(requests[k])
      BY <2>2 DEF left
    <3>2. CASE RateLimited(r)
      BY <1>1, <1>3, <3>1, <3>2 DEF TypeOK, RateLimited
    <3>3. CASE Admitted(r)
      BY <1>1, <1>3, <3>1, <3>3 DEF TypeOK, Admitted
    <3> QED
      BY <3>2, <3>3
  <2>6. Limiter(k)!Check(n)
    BY <2>3, <2>4, <2>5, LimitsArePositive DEF left, Limiter!Check, Limiter!Full
  <2> QED
    BY <2>2, <2>6 DEF Limiter!Next
<1> QED
  BY <1>2, <1>3

(* Whatever a task or the clock does, each limiter makes a step of         *)
(* SlidingWindow or none.                                                  *)
LEMMA StepOfLimiters ==
  ASSUME IInv, [Next]_vars
  PROVE  \A k \in Key : [Limiter(k)!Next]_(Limiter(k)!vars)
<1>1. TypeOK
  BY DEF IInv
<1>2. ASSUME NEW t \in Task, NEW r \in Request,
             Deny(t, r) \/ DenyByRate(t, r) \/ RejectArguments(t, r) \/ Start(t, r)
      PROVE  \A k \in Key : [Limiter(k)!Next]_(Limiter(k)!vars)
  <2>1. CASE Deny(t, r)
    BY <2>1 DEF Deny, Limiter!vars
  <2>2. CASE DenyByRate(t, r) \/ RejectArguments(t, r) \/ Start(t, r)
    <3>1. Allows(r) /\ (RateLimited(r) \/ Admitted(r)) /\ now' = now
      BY <2>2 DEF DenyByRate, RejectArguments, Start
    <3> QED
      BY <1>1, <3>1, CheckOfLimiter
  <2> QED
    BY <1>2, <2>1, <2>2
<1>3. ASSUME NEW t \in Task, AttemptEnds(t) \/ Cancel(t)
      PROVE  \A k \in Key : [Limiter(k)!Next]_(Limiter(k)!vars)
  <2>1. UNCHANGED Limiters
    BY <1>3 DEF AttemptEnds, Cancel, Succeed, NoValidResult, Fail, Retry
  <2> QED
    BY <2>1 DEF Limiters, Limiter!vars
<1>4. ASSUME NEW later \in Time, Tick(later)
      PROVE  \A k \in Key : [Limiter(k)!Next]_(Limiter(k)!vars)
  <2>1. ASSUME NEW k \in Key PROVE Limiter(k)!Tick(later)
    BY <1>4 DEF Tick, Limiter!Tick
  <2> QED
    BY <2>1 DEF Limiter!Next
<1>5. CASE UNCHANGED vars
  BY <1>5 DEF vars, Limiter!vars
<1> QED
  BY <1>2, <1>3, <1>4, <1>5 DEF Next, Begin

(* Each subject and tool has a sliding window of its own, which the calls  *)
(* of other keys, the retries and the cancellations leave alone: what is   *)
(* proved of SlidingWindow holds of every key (gateway.py 161-169).        *)
THEOREM LimitersAreSlidingWindows == Spec => EachKeyHasItsLimiter
<1>1. Init => \A k \in Key : Limiter(k)!Init
  BY DEF Init, Limiter!Init
<1>2. ASSUME IInv, [Next]_vars
      PROVE  [\A k \in Key : [Limiter(k)!Next]_(Limiter(k)!vars)]_vars
  BY <1>2, StepOfLimiters
<1> QED
  BY <1>1, <1>2, Invariance, PTL DEF Spec, EachKeyHasItsLimiter
-----------------------------------------------------------------------------
(***************************************************************************)
(* SlidingWindow, for every Limit, Window and clock: Limiter(k) is all of  *)
(* it, its variables the components k of this module's.                    *)
(*                                                                         *)
(* The bound on every window rests on one fact about the deque: it is the  *)
(* tail of the history of admissions, and what is missing from it had      *)
(* expired.  An admission is then Limit places after one that had expired. *)
(* The facts are about one deque q, its history h, the verdict v and the   *)
(* time t.                                                                 *)
(***************************************************************************)
(* The number of admissions that are not in the deque any more.            *)
Gone(q, h) == Len(h) - Len(q)

(* Admissions are in the order of the clock.                               *)
Ordered(h, t) ==
  /\ \A i, j \in 1..Len(h) : i <= j => h[i] <= h[j]
  /\ \A i \in 1..Len(h) : h[i] <= t

(* The deque is the tail of the history, and the rest has expired.         *)
TailOfHistory(q, h, t) ==
  /\ Gone(q, h) \in Nat
  /\ \A i \in 1..Len(q) : q[i] = h[Gone(q, h) + i]
  /\ \A i \in 1..Gone(q, h) : h[i] <= t - Window

(* Admissions that are Limit places apart are a window apart.              *)
Spaced(h) == \A i, j \in 1..Len(h) : j - i >= Limit => h[j] - h[i] >= Window

(* Right after a denial the deque is full of unexpired admissions.         *)
DenialHasCause(q, v, t) ==
  v = "denied" => Len(q) = Limit /\ \A i \in 1..Len(q) : ~ (q[i] <= t - Window)

WindowTypes(q, h, v, t) ==
  /\ t \in Nat
  /\ q \in Seq(Nat) /\ Len(q) <= Limit
  /\ v \in {"none", "admitted", "denied"}
  /\ h \in Seq(Nat)

WindowIsSound(q, h, v, t) ==
  /\ WindowTypes(q, h, v, t)
  /\ Ordered(h, t) /\ TailOfHistory(q, h, t) /\ Spaced(h) /\ DenialHasCause(q, v, t)

(* What the purge takes off: n entries, all of them expired.               *)
Drops(q, t, n) ==
  /\ \A i \in 1..n : q[i] <= t - Window
  /\ n < Len(q) => ~ (q[n + 1] <= t - Window)

Rest(q, n) == SubSeq(q, n + 1, Len(q))

(* The check's purge leaves a tail of the history, with the rest expired,  *)
(* as long as it is not longer than before (popleft, gateway.py 164-165).  *)
LEMMA PurgeKeepsTail ==
  ASSUME NEW q, NEW h, NEW v, NEW t, WindowIsSound(q, h, v, t), NEW n \in 0..Len(q), Drops(q, t, n),
         NEW left, left = Rest(q, n)
  PROVE  /\ left \in Seq(Nat)
         /\ Len(left) = Len(q) - n
         /\ \A i \in 1..Len(left) : left[i] = h[Gone(q, h) + n + i]
         /\ \A i \in 1..(Gone(q, h) + n) : h[i] <= t - Window
<1> USE DEF WindowIsSound, WindowTypes
<1>1. \A i \in (n + 1)..Len(q) : q[i] \in Nat
  BY ElementOfSeq
<1>2. /\ left \in Seq(Nat)
      /\ Len(left) = Len(q) - n
      /\ \A i \in 1..Len(left) : left[i] = q[n + i]
  BY <1>1, SubSeqProperties DEF Rest
<1>3. ASSUME NEW i \in 1..Len(left) PROVE left[i] = h[Gone(q, h) + n + i]
  <2>1. n + i \in 1..Len(q)
    BY <1>2
  <2>2. Gone(q, h) + (n + i) = Gone(q, h) + n + i
    BY DEF TailOfHistory
  <2> QED BY <1>2, <2>1, <2>2 DEF TailOfHistory
<1>4. ASSUME NEW i \in 1..(Gone(q, h) + n) PROVE h[i] <= t - Window
  <2>1. CASE i <= Gone(q, h)
    BY <2>1 DEF TailOfHistory
  <2>2. CASE i > Gone(q, h)
    <3>1. /\ i - Gone(q, h) \in 1..n /\ i - Gone(q, h) \in 1..Len(q)
          /\ Gone(q, h) + (i - Gone(q, h)) = i
      BY <2>2 DEF TailOfHistory
    <3> QED BY <3>1 DEF Drops, TailOfHistory
  <2> QED BY <2>1, <2>2 DEF TailOfHistory
<1> QED BY <1>2, <1>3, <1>4

(* A check that is denied leaves the full deque as it is (gateway.py       *)
(* 164-168).                                                               *)
LEMMA DenialIsSound ==
  ASSUME NEW q, NEW h, NEW v, NEW t, WindowIsSound(q, h, v, t), NEW n \in 0..Len(q), Drops(q, t, n),
         NEW left, left = Rest(q, n), Len(left) >= Limit
  PROVE  WindowIsSound(left, h, "denied", t)
<1> USE LimitsArePositive DEF WindowTypes
<1>1. left \in Seq(Nat) /\ Len(left) = Len(q) - n
  BY PurgeKeepsTail
<1>2. /\ q \in Seq(Nat) /\ Len(q) \in Nat /\ Len(q) <= Limit /\ t \in Nat /\ h \in Seq(Nat)
      /\ Ordered(h, t) /\ Spaced(h) /\ TailOfHistory(q, h, t)
  BY DEF WindowIsSound
<1>3. Len(left) = Limit /\ n = 0
  BY <1>1, <1>2
<1>4. left = q
  BY <1>2, <1>3, SubSeqFull DEF Rest
<1>5. ~ (q[1] <= t - Window)
  BY <1>1, <1>2, <1>3 DEF Drops
<1>6. PICK gone : gone = Gone(q, h)
  OBVIOUS
<1>7. /\ gone \in Nat /\ Len(h) \in Nat /\ gone + Len(q) = Len(h)
      /\ \A i \in 1..Len(q) : q[i] = h[gone + i]
  <2>1. gone \in Nat /\ \A i \in 1..Len(q) : q[i] = h[gone + i]
    BY <1>2, <1>6 DEF TailOfHistory
  <2>2. Len(h) \in Nat /\ gone + Len(q) = Len(h)
    BY <1>2, <1>6 DEF Gone
  <2> QED BY <2>1, <2>2
<1>8. ASSUME NEW i \in 1..Len(q) PROVE ~ (q[i] <= t - Window)
  <2>1. 1 \in 1..Len(q) /\ Len(q) \in Nat
    BY <1>2
  <2>2. gone + 1 \in 1..Len(h) /\ gone + i \in 1..Len(h) /\ gone + 1 <= gone + i
    BY <1>7, <2>1
  <2>3. h[gone + 1] <= h[gone + i]
    BY <1>2, <2>2 DEF Ordered
  <2>4. q[1] \in Nat /\ q[i] \in Nat
    BY <1>2, <2>1, ElementOfSeq
  <2>5. q[1] <= q[i]
    BY <1>7, <2>1, <2>3
  <2> QED BY <1>2, <1>5, <2>4, <2>5
<1> QED
  BY <1>2, <1>3, <1>4, <1>8 DEF WindowIsSound, DenialHasCause

(* An admission is appended to a deque that has room for it (gateway.py    *)
(* 164-169).                                                               *)
LEMMA AdmissionIsSound ==
  ASSUME NEW q, NEW h, NEW v, NEW t, WindowIsSound(q, h, v, t), NEW n \in 0..Len(q), Drops(q, t, n),
         NEW left, left = Rest(q, n), ~ (Len(left) >= Limit)
  PROVE  WindowIsSound(Append(left, t), Append(h, t), "admitted", t)
<1> USE LimitsArePositive
<1>0. PICK gone : gone = Gone(q, h) + n
  OBVIOUS
<1>1. /\ left \in Seq(Nat) /\ Len(left) = Len(q) - n
      /\ \A i \in 1..Len(left) : left[i] = h[gone + i]
      /\ \A i \in 1..gone : h[i] <= t - Window
  BY <1>0, PurgeKeepsTail
<1>2. /\ t \in Nat /\ h \in Seq(Nat) /\ q \in Seq(Nat)
      /\ Ordered(h, t) /\ Spaced(h) /\ TailOfHistory(q, h, t)
  BY DEF WindowIsSound, WindowTypes
<1>3. /\ Len(left) \in Nat /\ Len(h) \in Nat /\ Len(left) < Limit
      /\ gone \in Nat /\ gone = Len(h) - Len(left)
  <2>1. Gone(q, h) \in Nat /\ Len(h) \in Nat /\ Len(q) \in Nat /\ Len(left) \in Nat
    BY <1>1, <1>2 DEF TailOfHistory
  <2>2. Gone(q, h) = Len(h) - Len(q)
    BY DEF Gone
  <2> QED BY <1>0, <1>1, <2>1, <2>2
<1>4. \A i \in 1..Len(h) : h[i] \in Nat
  BY <1>2, ElementOfSeq
<1> PICK q2, h2 : q2 = Append(left, t) /\ h2 = Append(h, t)
  OBVIOUS
<1>5. /\ q2 \in Seq(Nat) /\ Len(q2) = Len(left) + 1
      /\ \A i \in 1..Len(left) : q2[i] = left[i]
      /\ q2[Len(left) + 1] = t
  BY <1>1, <1>2, AppendProperties
<1>6. /\ h2 \in Seq(Nat) /\ Len(h2) = Len(h) + 1
      /\ \A i \in 1..Len(h) : h2[i] = h[i]
      /\ h2[Len(h) + 1] = t
  BY <1>2, AppendProperties
<1>7. WindowTypes(q2, h2, "admitted", t)
  BY <1>2, <1>3, <1>5, <1>6 DEF WindowTypes
<1>8. Ordered(h2, t)
  <2>1. ASSUME NEW i \in 1..Len(h2) PROVE h2[i] <= t
    BY <1>2, <1>3, <1>4, <1>6 DEF Ordered
  <2>2. ASSUME NEW i \in 1..Len(h2), NEW j \in 1..Len(h2), i <= j PROVE h2[i] <= h2[j]
    <3>1. CASE j \in 1..Len(h)
      BY <1>2, <1>3, <1>6, <2>2, <3>1 DEF Ordered
    <3>2. CASE j = Len(h) + 1
      BY <1>6, <2>1, <3>2
    <3> QED BY <1>3, <1>6, <3>1, <3>2
  <2> QED BY <2>1, <2>2 DEF Ordered
<1>9. TailOfHistory(q2, h2, t)
  <2>1. Gone(q2, h2) = gone
    BY <1>3, <1>5, <1>6 DEF Gone
  <2>2. ASSUME NEW i \in 1..Len(q2) PROVE q2[i] = h2[gone + i]
    <3>1. CASE i = Len(left) + 1
      BY <1>3, <1>5, <1>6, <3>1
    <3>2. CASE i \in 1..Len(left)
      <4>1. gone + i \in 1..Len(h)
        BY <1>3, <3>2
      <4> QED BY <1>1, <1>5, <1>6, <3>2, <4>1
    <3>3. i \in 1..Len(left) \/ i = Len(left) + 1
      BY <1>3, <1>5
    <3> QED BY <3>1, <3>2, <3>3
  <2>3. ASSUME NEW i \in 1..gone PROVE h2[i] <= t - Window
    <3>1. i \in 1..Len(h) /\ h[i] <= t - Window
      BY <1>1, <1>3
    <3> QED BY <1>6, <3>1
  <2> QED BY <1>3, <2>1, <2>2, <2>3 DEF TailOfHistory
<1>10. Spaced(h2)
  <2>0. \A j \in 1..Len(h2) : j \in 1..Len(h) \/ j = Len(h) + 1
    BY <1>3, <1>6
  <2> SUFFICES ASSUME NEW i \in 1..Len(h2), NEW j \in 1..Len(h2), j - i >= Limit
               PROVE  h2[j] - h2[i] >= Window
    BY DEF Spaced
  <2>1. CASE j \in 1..Len(h)
    <3>1. i \in 1..Len(h)
      BY <1>3, <1>6, <2>1
    <3> QED BY <1>2, <1>6, <2>1, <3>1 DEF Spaced
  <2>2. CASE j = Len(h) + 1
    <3>1. i \in 1..gone /\ i \in 1..Len(h)
      BY <1>3, <1>6, <2>2
    <3>2. h2[i] = h[i] /\ h2[j] = t
      BY <1>6, <2>2, <3>1
    <3>3. h[i] \in Nat /\ h[i] <= t - Window
      BY <1>1, <1>4, <3>1
    <3>4. t \in Nat
      BY <1>2
    <3> QED BY <3>2, <3>3, <3>4
  <2> QED BY <2>0, <2>1, <2>2
<1>11. DenialHasCause(q2, "admitted", t)
  BY DEF DenialHasCause
<1> QED
  BY <1>7, <1>8, <1>9, <1>10, <1>11 DEF WindowIsSound

(* The monotonic clock moves on between checks.                            *)
LEMMA TimeIsSound ==
  ASSUME NEW q, NEW h, NEW v, NEW t, WindowIsSound(q, h, v, t), NEW later \in Nat, later > t
  PROVE  WindowIsSound(q, h, "none", later)
<1>1. /\ t \in Nat /\ h \in Seq(Nat) /\ q \in Seq(Nat)
      /\ Ordered(h, t) /\ Spaced(h) /\ TailOfHistory(q, h, t)
  BY DEF WindowIsSound, WindowTypes
<1>2. \A i \in 1..Len(h) : h[i] \in Nat
  BY <1>1, ElementOfSeq
<1>3. Ordered(h, later)
  BY <1>1, <1>2 DEF Ordered
<1>4. TailOfHistory(q, h, later)
  <2>1. \A i \in 1..Gone(q, h) : i \in 1..Len(h)
    BY <1>1 DEF Gone, TailOfHistory
  <2> QED BY <1>1, <1>2, <2>1, LimitsArePositive DEF TailOfHistory
<1> QED
  BY <1>1, <1>3, <1>4 DEF WindowIsSound, WindowTypes, DenialHasCause

(* The deque of Limiter(k) and what belongs to it.                         *)
LimiterIsSound(k) == WindowIsSound(requests[k], admitted[k], verdict[k], now)

(* A limiter is created with an empty deque.                               *)
LEMMA LimiterInit ==
  ASSUME NEW k
  PROVE  Limiter(k)!Init => LimiterIsSound(k)
BY LimitsArePositive
   DEF Limiter!Init, LimiterIsSound, WindowIsSound, WindowTypes, Ordered, TailOfHistory, Spaced,
       DenialHasCause, Gone

(* A check and the clock keep what is right about it (gateway.py 161-169,  *)
(* auth.py 166-186).                                                       *)
LEMMA LimiterNext ==
  ASSUME NEW k, LimiterIsSound(k), [Limiter(k)!Next]_(Limiter(k)!vars)
  PROVE  LimiterIsSound(k)'
<1>1. WindowIsSound(requests[k], admitted[k], verdict[k], now)
  BY DEF LimiterIsSound
<1>2. ASSUME NEW n \in 0..Len(requests[k]), Limiter(k)!Check(n) PROVE LimiterIsSound(k)'
  <2> DEFINE left == Rest(requests[k], n)
  <2>1. Drops(requests[k], now, n)
    BY <1>2 DEF Limiter!Check, Limiter!Purges, Limiter!Expired, Drops
  <2>2. CASE Len(left) >= Limit
    <3>1. /\ requests'[k] = left /\ admitted'[k] = admitted[k] /\ verdict'[k] = "denied"
          /\ now' = now
      BY <1>2, <2>2 DEF Limiter!Check, Limiter!Full, Rest
    <3>2. WindowIsSound(left, admitted[k], "denied", now)
      BY <1>1, <2>1, <2>2, DenialIsSound
    <3> QED BY <3>1, <3>2 DEF LimiterIsSound
  <2>3. CASE ~ (Len(left) >= Limit)
    <3>1. /\ requests'[k] = Append(left, now) /\ admitted'[k] = Append(admitted[k], now)
          /\ verdict'[k] = "admitted" /\ now' = now
      BY <1>2, <2>3 DEF Limiter!Check, Limiter!Full, Rest
    <3>2. WindowIsSound(Append(left, now), Append(admitted[k], now), "admitted", now)
      BY <1>1, <2>1, <2>3, AdmissionIsSound
    <3> QED BY <3>1, <3>2 DEF LimiterIsSound
  <2> QED BY <2>2, <2>3
<1>3. ASSUME NEW later \in Time, Limiter(k)!Tick(later) PROVE LimiterIsSound(k)'
  <2>1. /\ later \in Nat /\ later > now /\ now' = later
        /\ requests'[k] = requests[k] /\ admitted'[k] = admitted[k] /\ verdict'[k] = "none"
    BY <1>3, TimesAreNaturals DEF Limiter!Tick
  <2>2. WindowIsSound(requests[k], admitted[k], "none", later)
    BY <1>1, <2>1, TimeIsSound
  <2> QED BY <2>1, <2>2 DEF LimiterIsSound
<1>4. CASE UNCHANGED Limiter(k)!vars
  BY <1>1, <1>4 DEF Limiter!vars, LimiterIsSound
<1> QED
  BY <1>2, <1>3, <1>4 DEF Limiter!Next

(* A non-empty set of naturals has a least element.                        *)
LEMMA LeastNatural ==
  ASSUME NEW S, S \subseteq Nat, S # {}
  PROVE  \E m \in S : \A i \in S : m <= i
<1>1. \E m \in S : \A i \in S : <<i, m>> \notin OpToRel(<, Nat)
  BY NatLessThanWellFounded, WFMin
<1>2. PICK m \in S : \A i \in S : <<i, m>> \notin OpToRel(<, Nat)
  BY <1>1
<1>3. \A i \in S : ~ (i < m)
  BY <1>2 DEF OpToRel
<1> QED BY <1>3

(* The admissions of the window that ends at time x.                       *)
InWindow(h, x) == {i \in 1..Len(h) : x - Window < h[i] /\ h[i] <= x}

(* If more than Limit admissions fell into a window, the first and the     *)
(* last of Limit + 1 consecutive ones would be less than a window apart.   *)
LEMMA FewInWindow ==
  ASSUME NEW q, NEW h, NEW v, NEW t, WindowIsSound(q, h, v, t), NEW x \in 0..t
  PROVE  Cardinality(InWindow(h, x)) <= Limit
<1> USE LimitsArePositive
<1>1. t \in Nat /\ x \in Nat /\ h \in Seq(Nat) /\ Spaced(h)
  BY DEF WindowIsSound, WindowTypes
<1>2. \A i \in 1..Len(h) : h[i] \in Nat
  BY <1>1, ElementOfSeq
<1>3. InWindow(h, x) \subseteq Nat /\ Len(h) \in Nat
  BY <1>1 DEF InWindow
<1>4. CASE InWindow(h, x) = {}
  BY <1>4, FS_EmptySet
<1>5. CASE InWindow(h, x) # {}
  <2>1. PICK m \in InWindow(h, x) : \A i \in InWindow(h, x) : m <= i
    BY <1>3, <1>5, LeastNatural
  <2>2. ASSUME NEW i \in InWindow(h, x) PROVE i \in m..(m + Limit - 1)
    <3>1. /\ i \in 1..Len(h) /\ m \in 1..Len(h) /\ m <= i
          /\ h[i] <= x /\ h[m] > x - Window
      BY <1>1, <1>2, <1>3, <2>1 DEF InWindow
    <3>2. ~ (i - m >= Limit)
      BY <1>1, <1>2, <1>3, <3>1 DEF Spaced
    <3> QED BY <1>3, <3>1, <3>2
  <2>3. InWindow(h, x) \in SUBSET (m..(m + Limit - 1))
    BY <2>2
  <2>4. m \in Nat
    BY <1>3, <2>1
  <2>5. IsFiniteSet(m..(m + Limit - 1)) /\ Cardinality(m..(m + Limit - 1)) = Limit
    BY <2>4, FS_Interval
  <2>6. Cardinality(InWindow(h, x)) <= Cardinality(m..(m + Limit - 1))
    BY <2>3, <2>5, FS_Subset
  <2> QED BY <2>5, <2>6
<1> QED BY <1>4, <1>5

(* A full deque without expired entries is the last Limit admissions, all  *)
(* of them in the window.                                                  *)
LEMMA DeniedWhenExhausted ==
  ASSUME NEW q, NEW h, NEW t, WindowIsSound(q, h, "denied", t)
  PROVE  Cardinality(InWindow(h, t)) = Limit
<1> USE LimitsArePositive
<1>1. PICK gone : gone = Gone(q, h)
  OBVIOUS
<1>2. /\ t \in Nat /\ h \in Seq(Nat) /\ Len(h) \in Nat /\ Len(q) = Limit
      /\ gone \in Nat /\ gone = Len(h) - Limit
      /\ \A i \in 1..Len(q) : ~ (q[i] <= t - Window) /\ q[i] = h[gone + i]
      /\ \A i \in 1..gone : h[i] <= t - Window
  <2>1. t \in Nat /\ h \in Seq(Nat) /\ Len(h) \in Nat
    BY DEF WindowIsSound, WindowTypes
  <2>2. Len(q) = Limit /\ \A i \in 1..Len(q) : ~ (q[i] <= t - Window)
    BY DEF WindowIsSound, DenialHasCause
  <2>3. /\ gone \in Nat /\ (\A i \in 1..Len(q) : q[i] = h[gone + i])
        /\ \A i \in 1..gone : h[i] <= t - Window
    BY <1>1 DEF WindowIsSound, TailOfHistory
  <2>4. gone = Len(h) - Limit
    BY <1>1, <2>2 DEF Gone
  <2> QED BY <2>1, <2>2, <2>3, <2>4
<1>3. \A i \in 1..Len(h) : h[i] \in Nat /\ h[i] <= t
  <2>1. \A i \in 1..Len(h) : h[i] \in Nat
    BY <1>2, ElementOfSeq
  <2>2. \A i \in 1..Len(h) : h[i] <= t
    BY DEF WindowIsSound, Ordered
  <2> QED BY <2>1, <2>2
<1>4. ASSUME NEW i \in (gone + 1)..Len(h) PROVE i \in InWindow(h, t)
  <2> PICK k : k = i - gone
    OBVIOUS
  <2>0. gone \in Nat /\ Len(h) \in Nat /\ Len(q) = Limit /\ gone = Len(h) - Limit
    BY <1>2
  <2>1. k \in 1..Len(q) /\ i \in 1..Len(h) /\ gone + k = i
    BY <2>0
  <2>2. ~ (h[i] <= t - Window)
    <3>1. ~ (q[k] <= t - Window) /\ q[k] = h[gone + k]
      BY <1>2, <2>1
    <3> QED BY <2>1, <3>1
  <2> QED BY <1>2, <1>3, <2>1, <2>2 DEF InWindow
<1>5. ASSUME NEW i \in InWindow(h, t) PROVE i \in (gone + 1)..Len(h)
  <2>1. i \in 1..Len(h) /\ ~ (h[i] <= t - Window)
    BY <1>2, <1>3 DEF InWindow
  <2>2. ~ (i \in 1..gone)
    BY <1>2, <2>1
  <2> QED BY <1>2, <2>1, <2>2
<1>6. InWindow(h, t) = (gone + 1)..Len(h)
  BY <1>4, <1>5
<1>7. Cardinality((gone + 1)..Len(h)) = Limit
  BY <1>2, FS_Interval
<1> QED BY <1>6, <1>7

(* SlidingWindow counts as this module does.                               *)
LEMMA SameCount ==
  ASSUME NEW k, NEW S
  PROVE  Limiter(k)!Cardinality(S) = Cardinality(S)
BY DEF Limiter!Cardinality, Cardinality

(* What SlidingWindow promises follows from the invariant.                 *)
LEMMA LimiterPromises ==
  ASSUME NEW k, LimiterIsSound(k)
  PROVE  Limiter(k)!TypeOK /\ Limiter(k)!AllowanceHolds /\ Limiter(k)!DeniedOnlyWhenExhausted
<1>1. WindowIsSound(requests[k], admitted[k], verdict[k], now)
  BY DEF LimiterIsSound
<1>2. ASSUME NEW x PROVE Limiter(k)!AdmittedIn(x) = InWindow(admitted[k], x)
  BY DEF Limiter!AdmittedIn, InWindow
<1>3. Limiter(k)!TypeOK
  BY <1>1 DEF WindowIsSound, WindowTypes, Limiter!TypeOK
<1>4. Limiter(k)!AllowanceHolds
  BY <1>1, <1>2, FewInWindow, SameCount DEF Limiter!AllowanceHolds
<1>5. Limiter(k)!DeniedOnlyWhenExhausted
  BY <1>1, <1>2, DeniedWhenExhausted, SameCount DEF Limiter!DeniedOnlyWhenExhausted
<1> QED BY <1>3, <1>4, <1>5

(* The invariant holds in every behaviour of a limiter.                    *)
THEOREM LimiterInvariance ==
  ASSUME NEW k
  PROVE  Limiter(k)!Spec => []LimiterIsSound(k)
BY LimiterInit, LimiterNext, PTL DEF Limiter!Spec

(* The deque of a limiter never holds more than the limit, and its entries *)
(* and the history are clock readings (gateway.py 161-169).                *)
THEOREM LimiterTypeCorrect ==
  ASSUME NEW k
  PROVE  Limiter(k)!Spec => []Limiter(k)!TypeOK
BY LimiterInvariance, LimiterPromises, PTL

(* For every limit, window and clock, no window ever holds more admissions *)
(* than the limit (mcp_boundary/gateway.py 161-169, gateway/auth.py        *)
(* 174-186 for one thread).                                                *)
THEOREM Allowance ==
  ASSUME NEW k
  PROVE  Limiter(k)!Spec => []Limiter(k)!AllowanceHolds
BY LimiterInvariance, LimiterPromises, PTL

(* For every limit, window and clock, a check is denied only when the      *)
(* window that ends now holds exactly the limit: a denied check costs the  *)
(* caller nothing (gateway.py 166-169 returns before the append).          *)
THEOREM NoUndueDenial ==
  ASSUME NEW k
  PROVE  Limiter(k)!Spec => []Limiter(k)!DeniedOnlyWhenExhausted
BY LimiterInvariance, LimiterPromises, PTL

(* In the gateway: whatever its tasks do to each other's keys, no window   *)
(* of any subject and tool holds more admissions than the limit, and none  *)
(* of its calls is denied sooner (gateway.py 88-131, 161-169).             *)
THEOREM EveryKeyHasItsAllowance ==
  Spec => []AllowancesHold
<1> DEFINE AllSound == \A k \in Key : LimiterIsSound(k)
<1>1. Init => AllSound
  <2> SUFFICES ASSUME Init, NEW k \in Key PROVE LimiterIsSound(k)
    OBVIOUS
  <2>1. Limiter(k)!Init
    BY DEF Init, Limiter!Init
  <2> QED BY <2>1, LimiterInit
<1>2. IInv /\ AllSound /\ [Next]_vars => AllSound'
  <2> SUFFICES ASSUME IInv, AllSound, [Next]_vars, NEW k \in Key PROVE LimiterIsSound(k)'
    OBVIOUS
  <2>1. [Limiter(k)!Next]_(Limiter(k)!vars)
    BY StepOfLimiters
  <2> QED BY <2>1, LimiterNext
<1>3. AllSound => AllowancesHold
  BY LimiterPromises DEF AllowancesHold
<1> QED
  BY <1>1, <1>2, <1>3, Invariance, PTL DEF Spec
-----------------------------------------------------------------------------
(***************************************************************************)
(* The limiter of gateway/auth.py has no lock, and RateLimiter its threads.*)
(* Its variables are no part of the tool gateway: any will do.  The sums   *)
(* are those of ApprovalStoreProofs, whose stores are of no concern here.  *)
(***************************************************************************)
CONSTANT Thread

VARIABLES deque, step, reading, counts

Http == INSTANCE RateLimiter WITH requests <- deque, pc <- step, admitted <- counts

Adding == INSTANCE ApprovalStoreProofs WITH
  Client <- {}, Id <- {}, Tenant <- {}, Verdict <- {}, NoClient <- 0, NoId <- 0, NoTenant <- 0,
  approvals <- now, call <- now, limbo <- now

Appending   == {w \in Thread : step[w] = "append"}
FirstWindow == {t \in Time : t < Window}

(* Who has compared the length and not appended yet is counted with the    *)
(* entries; in the first window nothing expires and nothing is taken off.  *)
HttpIsSound ==
  /\ Http!TypeOK
  /\ \A w \in Thread : reading[w] <= now
  /\ Len(deque) + Cardinality(Appending) <= Limit + Cardinality(Thread) - 1
  /\ now < Window =>
       /\ \A w \in Thread : step[w] # "popleft"
       /\ SumFunctionOnSet(counts, FirstWindow) = Len(deque)

(* What RateLimiter assumes of its threads and its clock.                  *)
Deployed == IsFiniteSet(Thread) /\ 0 \in Time

(* Sets and sums are counted there as here.                                *)
LEMMA SameNumbers ==
  /\ \A S : Http!Cardinality(S) = Cardinality(S)
  /\ \A S : Adding!IsFiniteSet(S) <=> IsFiniteSet(S)
  /\ \A f, S : Http!SumFunctionOnSet(f, S) = SumFunctionOnSet(f, S)
  /\ \A f, S : Adding!SumFunctionOnSet(f, S) = SumFunctionOnSet(f, S)
<1>1. ASSUME NEW S PROVE Http!Cardinality(S) = Cardinality(S)
  BY DEF Http!Cardinality, Cardinality
<1>2. ASSUME NEW S PROVE Adding!IsFiniteSet(S) <=> IsFiniteSet(S)
  BY DEF Adding!IsFiniteSet, IsFiniteSet
<1>3. ASSUME NEW f, NEW S PROVE Http!SumFunctionOnSet(f, S) = SumFunctionOnSet(f, S)
  BY DEF SumFunctionOnSet, FoldFunctionOnSet, MapThenFoldSet,
         Http!SumFunctionOnSet, Http!FoldFunctionOnSet, Http!MapThenFoldSet
<1>4. ASSUME NEW f, NEW S PROVE Adding!SumFunctionOnSet(f, S) = SumFunctionOnSet(f, S)
  BY DEF SumFunctionOnSet, FoldFunctionOnSet, MapThenFoldSet,
         Adding!SumFunctionOnSet, Adding!FoldFunctionOnSet, Adding!MapThenFoldSet
<1> QED BY <1>1, <1>2, <1>3, <1>4

(* The first window has finitely many times (auth.py 178).                 *)
LEMMA FirstWindowIsFinite == IsFiniteSet(FirstWindow)
<1>1. FirstWindow \subseteq 0..(Window - 1)
  <2>1. ASSUME NEW t \in FirstWindow PROVE t \in 0..(Window - 1)
    <3>1. t \in Nat /\ t < Window /\ Window \in Nat
      BY TimesAreNaturals, LimitsArePositive DEF FirstWindow
    <3> QED BY <3>1
  <2> QED BY <2>1
<1>2. IsFiniteSet(0..(Window - 1))
  BY FS_Interval, LimitsArePositive
<1> QED BY <1>1, <1>2, FS_Subset

(* A limiter nobody was admitted by has a sum of zero.                     *)
LEMMA NothingAdmitted ==
  ASSUME NEW f, \A t \in FirstWindow : f[t] = 0
  PROVE  SumFunctionOnSet(f, FirstWindow) = 0
BY FirstWindowIsFinite, SameNumbers, Adding!SumOfZeros DEF Adding!NullsAreNew

(* One admission changes the sum by one (auth.py 186).                     *)
LEMMA OneAdmitted ==
  ASSUME NEW f, f \in [Time -> Nat], NEW x \in FirstWindow,
         NEW h, h \in [Time -> Nat], h[x] = f[x] + 1, \A t \in Time \ {x} : h[t] = f[t]
  PROVE  SumFunctionOnSet(h, FirstWindow) = SumFunctionOnSet(f, FirstWindow) + 1
<1>1. /\ \A t \in FirstWindow : f[t] \in Int /\ h[t] \in Int
      /\ \A t \in FirstWindow \ {x} : h[t] = f[t]
  BY DEF FirstWindow
<1>2. /\ SumFunctionOnSet(f, FirstWindow) \in Int
      /\ SumFunctionOnSet(h, FirstWindow) = SumFunctionOnSet(f, FirstWindow) + h[x] - f[x]
  BY <1>1, FirstWindowIsFinite, SameNumbers, Adding!SumChanges DEF Adding!NullsAreNew
<1>3. f[x] \in Int
  BY <1>1
<1> QED BY <1>1, <1>2, <1>3

(* As many threads as there are may have passed the comparison.            *)
LEMMA AppendingType ==
  ASSUME Deployed
  PROVE  /\ IsFiniteSet(Appending) /\ Cardinality(Appending) \in Nat
         /\ Cardinality(Thread) \in Nat /\ Cardinality(Appending) <= Cardinality(Thread)
BY FS_Subset, FS_CardinalityType DEF Deployed, Appending

(* A limiter starts empty (auth.py 166-172).                               *)
LEMMA HttpInit ==
  ASSUME Deployed, Http!Init
  PROVE  HttpIsSound
<1>1. now = 0 /\ deque = <<>> /\ counts = [t \in Time |-> 0]
      /\ step = [w \in Thread |-> "idle"] /\ reading = [w \in Thread |-> 0]
  BY DEF Http!Init
<1>2. Http!TypeOK
  BY <1>1 DEF Deployed, Http!TypeOK
<1>3. Appending = {} /\ Cardinality(Appending) = 0
  BY <1>1, FS_EmptySet DEF Appending
<1>4. SumFunctionOnSet(counts, FirstWindow) = 0
  BY <1>1, NothingAdmitted DEF FirstWindow
<1> QED BY <1>1, <1>2, <1>3, <1>4, AppendingType, LimitsArePositive DEF HttpIsSound

(* A step of one thread that appends nothing and does not pass the         *)
(* comparison: a clock reading, a test, a popleft or a denial.             *)
LEMMA NoAppend ==
  ASSUME Deployed, HttpIsSound, Http!TypeOK', now' = now, counts' = counts,
         NEW w \in Thread, NEW next \in {"idle", "test", "popleft", "compare"},
         step' = [step EXCEPT ![w] = next],
         reading' = reading \/ reading' = [reading EXCEPT ![w] = now],
         Len(deque') <= Len(deque), now < Window => next # "popleft" /\ deque' = deque
  PROVE  HttpIsSound'
<1>1. Http!TypeOK /\ step'[w] = next /\ \A v \in Thread \ {w} : step'[v] = step[v]
  BY DEF HttpIsSound, Http!TypeOK
<1>2. \A v \in Thread : reading'[v] <= now
  <2>1. now \in Nat
    BY <1>1, TimesAreNaturals DEF Http!TypeOK
  <2> QED BY <1>1, <2>1 DEF HttpIsSound, Http!TypeOK
<1>3. Appending' \subseteq Appending
  BY <1>1 DEF Appending
<1>4. Cardinality(Appending') <= Cardinality(Appending) /\ Cardinality(Appending') \in Nat
  BY <1>3, AppendingType, FS_Subset, FS_CardinalityType
<1>5. Len(deque) \in Nat /\ Len(deque') \in Nat
  BY <1>1 DEF Http!TypeOK
<1>6. Len(deque') + Cardinality(Appending') <= Limit + Cardinality(Thread) - 1
  BY <1>4, <1>5, AppendingType, LimitsArePositive DEF HttpIsSound
<1>7. ASSUME now < Window
      PROVE  /\ \A v \in Thread : step'[v] # "popleft"
             /\ SumFunctionOnSet(counts, FirstWindow) = Len(deque')
  BY <1>1, <1>7 DEF HttpIsSound
<1> QED BY <1>2, <1>6, <1>7 DEF HttpIsSound, FirstWindow

(* A thread that passes the comparison finds room for one: with it, every  *)
(* other thread may be about to append (auth.py 180-186).                  *)
LEMMA PassesComparison ==
  ASSUME Deployed, HttpIsSound, Http!TypeOK', UNCHANGED <<now, deque, reading, counts>>,
         NEW w \in Thread, step' = [step EXCEPT ![w] = "append"], Len(deque) < Limit
  PROVE  HttpIsSound'
<1>1. Http!TypeOK /\ step'[w] = "append" /\ \A v \in Thread \ {w} : step'[v] = step[v]
  BY DEF HttpIsSound, Http!TypeOK
<1>2. Cardinality(Appending') <= Cardinality(Thread) /\ Cardinality(Appending') \in Nat
      /\ Cardinality(Thread) \in Nat
  <2>1. Appending' \subseteq Thread
    BY DEF Appending
  <2> QED BY <2>1, FS_Subset, FS_CardinalityType DEF Deployed
<1>3. Len(deque) \in Nat
  BY <1>1 DEF Http!TypeOK
<1>4. Len(deque) + Cardinality(Appending') <= Limit + Cardinality(Thread) - 1
  BY <1>2, <1>3, LimitsArePositive
<1> QED BY <1>1, <1>4 DEF HttpIsSound, FirstWindow

(* An append adds to the deque and to the history what its thread stood    *)
(* for (auth.py 186).                                                      *)
LEMMA Appends ==
  ASSUME Deployed, HttpIsSound, Http!TypeOK', UNCHANGED <<now, reading>>,
         NEW w \in Thread, step[w] = "append", step' = [step EXCEPT ![w] = "idle"],
         deque' = Append(deque, reading[w]),
         counts' = [counts EXCEPT ![reading[w]] = @ + 1]
  PROVE  HttpIsSound'
<1>1. /\ Http!TypeOK /\ step'[w] = "idle" /\ \A v \in Thread \ {w} : step'[v] = step[v]
      /\ deque \in Seq(Time) /\ reading[w] \in Time
  BY DEF HttpIsSound, Http!TypeOK
<1>2. Len(deque') = Len(deque) + 1 /\ Len(deque) \in Nat
  BY <1>1
<1>3. w \in Appending /\ Appending' = Appending \ {w}
  BY <1>1 DEF Appending
<1>4. Cardinality(Appending') = Cardinality(Appending) - 1
  BY <1>3, AppendingType, FS_RemoveElement
<1>5. Len(deque') + Cardinality(Appending') <= Limit + Cardinality(Thread) - 1
  BY <1>2, <1>4, AppendingType, LimitsArePositive DEF HttpIsSound
<1>6. ASSUME now < Window
      PROVE  SumFunctionOnSet(counts', FirstWindow) = Len(deque')
  <2>1. reading[w] <= now /\ reading[w] \in Nat /\ now \in Nat
    BY <1>1, TimesAreNaturals DEF HttpIsSound, Http!TypeOK
  <2>2. reading[w] \in FirstWindow
    BY <1>1, <1>6, <2>1, LimitsArePositive DEF FirstWindow
  <2>3. counts \in [Time -> Nat]
    BY <1>1 DEF Http!TypeOK
  <2>4. SumFunctionOnSet(counts', FirstWindow) = SumFunctionOnSet(counts, FirstWindow) + 1
    <3>1. /\ counts' \in [Time -> Nat] /\ counts'[reading[w]] = counts[reading[w]] + 1
          /\ \A t \in Time \ {reading[w]} : counts'[t] = counts[t]
      BY <1>1, <2>3 DEF Http!TypeOK
    <3> PICK h : h = counts'
      OBVIOUS
    <3> QED BY <2>2, <2>3, <3>1, OneAdmitted
  <2>5. SumFunctionOnSet(counts, FirstWindow) = Len(deque)
    BY <1>6 DEF HttpIsSound
  <2> QED BY <1>2, <2>4, <2>5
<1>7. now < Window => \A v \in Thread : step'[v] # "popleft"
  BY <1>1 DEF HttpIsSound
<1> QED BY <1>5, <1>6, <1>7 DEF HttpIsSound, FirstWindow

(* Every step of the threads keeps what is counted (auth.py 174-186).      *)
LEMMA HttpNext ==
  ASSUME Deployed, HttpIsSound, [Http!Next]_(Http!vars)
  PROVE  HttpIsSound'
<1>1. /\ Http!TypeOK /\ now \in Nat /\ \A w \in Thread : reading[w] \in Nat
      /\ deque \in Seq(Time) /\ Len(deque) \in Nat /\ Len(deque) <= Len(deque)
  <2>1. /\ Http!TypeOK /\ now \in Time /\ reading \in [Thread -> Time] /\ deque \in Seq(Time)
    BY DEF HttpIsSound, Http!TypeOK
  <2>2. Len(deque) \in Nat
    BY <2>1
  <2>3. \A t \in Time : t \in Nat
    BY TimesAreNaturals
  <2>4. \A w \in Thread : reading[w] \in Nat
    BY <2>1, <2>3
  <2>5. now \in Nat
    BY <2>1, <2>3
  <2> QED BY <2>1, <2>2, <2>4, <2>5
<1>2. ASSUME NEW w \in Thread, Http!HeadExpired(w) PROVE ~ (now < Window)
  <2>1. deque # <<>> /\ Head(deque) <= reading[w] - Window
    BY <1>2 DEF Http!HeadExpired
  <2>2. Head(deque) \in Nat
    <3>1. Head(deque) \in Time
      BY <1>1, <2>1, HeadTailProperties
    <3> QED BY <3>1, TimesAreNaturals
  <2>3. reading[w] <= now
    BY DEF HttpIsSound
  <2> QED BY <1>1, <2>1, <2>2, <2>3, LimitsArePositive
<1>3. ASSUME NEW w \in Thread, Http!ReadClock(w) PROVE HttpIsSound'
  <2>1. /\ UNCHANGED <<now, deque, counts>> /\ step' = [step EXCEPT ![w] = "test"]
        /\ reading' = [reading EXCEPT ![w] = now]
    BY <1>3 DEF Http!ReadClock, Http!Goto
  <2>2. Http!TypeOK'
    BY <1>1, <2>1 DEF Http!TypeOK
  <2> QED BY <1>1, <2>1, <2>2, NoAppend
<1>4. ASSUME NEW w \in Thread, Http!Test(w) PROVE HttpIsSound'
  <2> PICK next : next = IF Http!HeadExpired(w) THEN "popleft" ELSE "compare"
    OBVIOUS
  <2>1. UNCHANGED <<now, deque, counts, reading>> /\ step' = [step EXCEPT ![w] = next]
    BY <1>4 DEF Http!Test, Http!Goto
  <2>2. next \in {"popleft", "compare"} /\ (now < Window => next # "popleft")
    BY <1>2
  <2>3. Http!TypeOK'
    BY <1>1, <2>1, <2>2 DEF Http!TypeOK
  <2> QED BY <1>1, <2>1, <2>2, <2>3, NoAppend
<1>5. ASSUME NEW w \in Thread, Http!PopLeft(w) \/ Http!PopLeftRaises(w) PROVE HttpIsSound'
  <2> PICK next \in {"test", "idle"} : step' = [step EXCEPT ![w] = next]
    BY <1>5 DEF Http!PopLeft, Http!PopLeftRaises, Http!Goto
  <2>1. /\ UNCHANGED <<now, counts, reading>> /\ step[w] = "popleft"
        /\ deque' = deque \/ (deque # <<>> /\ deque' = Tail(deque))
    BY <1>5 DEF Http!PopLeft, Http!PopLeftRaises
  <2>2. deque' \in Seq(Time) /\ Len(deque') <= Len(deque)
    <3>1. deque # <<>> => Tail(deque) \in Seq(Time) /\ Len(Tail(deque)) = Len(deque) - 1
      BY <1>1, HeadTailProperties
    <3> QED BY <1>1, <2>1, <3>1
  <2>3. Http!TypeOK'
    BY <1>1, <2>1, <2>2 DEF Http!TypeOK
  <2>4. ~ (now < Window)
    BY <2>1 DEF HttpIsSound
  <2> QED BY <2>1, <2>2, <2>3, <2>4, NoAppend
<1>6. ASSUME NEW w \in Thread, Http!Compare(w) PROVE HttpIsSound'
  <2> PICK next : next = IF Http!Full THEN "idle" ELSE "append"
    OBVIOUS
  <2>1. UNCHANGED <<now, deque, counts, reading>> /\ step' = [step EXCEPT ![w] = next]
    BY <1>6 DEF Http!Compare, Http!Goto
  <2>2. Http!TypeOK' /\ Len(deque) \in Nat
    BY <1>1, <2>1 DEF Http!TypeOK
  <2>3. CASE next = "idle"
    BY <1>1, <2>1, <2>2, <2>3, NoAppend
  <2>4. CASE next = "append"
    <3>1. Len(deque) < Limit
      BY <2>2, <2>4, LimitsArePositive DEF Http!Full
    <3> QED BY <2>1, <2>2, <2>4, <3>1, PassesComparison
  <2> QED BY <2>3, <2>4
<1>7. ASSUME NEW w \in Thread, Http!Admit(w) PROVE HttpIsSound'
  <2>1. /\ UNCHANGED <<now, reading>> /\ step[w] = "append"
        /\ step' = [step EXCEPT ![w] = "idle"] /\ deque' = Append(deque, reading[w])
        /\ counts' = [counts EXCEPT ![reading[w]] = @ + 1]
    BY <1>7 DEF Http!Admit, Http!Goto, Http!Entry
  <2>2. Http!TypeOK'
    BY <1>1, <2>1 DEF Http!TypeOK
  <2> QED BY <2>1, <2>2, Appends
<1>8. ASSUME NEW later \in Time, Http!Tick(later) PROVE HttpIsSound'
  <2>1. now' = later /\ later > now /\ UNCHANGED <<deque, step, reading, counts>> /\ later \in Nat
    BY <1>8, TimesAreNaturals DEF Http!Tick
  <2>2. Http!TypeOK'
    BY <1>1, <2>1 DEF Http!TypeOK
  <2>3. (\A w \in Thread : reading[w] <= later) /\ (later < Window => now < Window)
    BY <1>1, <2>1, LimitsArePositive DEF HttpIsSound
  <2> QED BY <2>1, <2>2, <2>3 DEF HttpIsSound, Appending, FirstWindow
<1>9. CASE UNCHANGED Http!vars
  BY <1>9 DEF Http!vars, HttpIsSound, Http!TypeOK, Appending, FirstWindow
<1> QED
  BY <1>3, <1>4, <1>5, <1>6, <1>7, <1>8, <1>9 DEF Http!Next

(* For any finite number of threads that race in the unlocked limiter, for *)
(* every limit, window and clock, its deque holds at most as many entries  *)
(* too many as there are other threads, and so does the first window of a  *)
(* key (auth.py 174-186).                                                  *)
THEOREM RaceIsBounded ==
  ASSUME Deployed
  PROVE  Http!Spec => [](Http!TypeOK /\ Http!OvershootIsBounded)
<1>1. ASSUME HttpIsSound PROVE Http!TypeOK /\ Http!OvershootIsBounded
  <2>1. Len(deque) \in Nat
    BY <1>1 DEF HttpIsSound, Http!TypeOK
  <2>2. Len(deque) <= Limit + Http!Overshoot
    BY <1>1, <2>1, AppendingType, SameNumbers, LimitsArePositive DEF HttpIsSound, Http!Overshoot
  <2>3. now < Window => Http!Admissions(FirstWindow) = Len(deque)
    BY <1>1, SameNumbers DEF HttpIsSound, Http!Admissions
  <2> QED BY <1>1, <2>2, <2>3 DEF HttpIsSound, Http!OvershootIsBounded, FirstWindow
<1> QED BY <1>1, HttpInit, HttpNext, PTL DEF Http!Spec
=============================================================================
