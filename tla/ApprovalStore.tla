---------------------------- MODULE ApprovalStore ----------------------------
(***************************************************************************)
(* What an approval store promises to the clients that call it: the        *)
(* ApprovalStore protocol of state/store.py, independent of the backend.   *)
(*                                                                         *)
(* A call takes effect atomically at one instant between its invocation    *)
(* and its answer.  A call that raises may still have taken effect, or may *)
(* do so later: its request is then in limbo.  Records are never deleted   *)
(* and a decided record never changes.                                     *)
(*                                                                         *)
(* SqliteApprovals, PostgresApprovals and RedisApprovals implement this    *)
(* specification; list_pending, which reads several records and is not     *)
(* atomic in Redis, is specified in those modules.                         *)
(***************************************************************************)
EXTENDS ApprovalRecords

VARIABLES
  approvals, (* the stored record of each id                               *)
  call,      (* the call each client has in progress                       *)
  limbo      (* requests of raised calls that may still take effect        *)

vars == <<approvals, call, limbo>>

(* "open" until the call takes effect; "none" is get's None and "refused"  *)
(* is decide's ValueError.                                                 *)
Answer == {"open", "ok", "none", "refused", "error"}
Call   == [op : {"call"}, request : Request, answer : Answer, row : Row]

(* Bugs for the runs to catch: no tenant filter, no test of the status.    *)
VisibleToAll(id, t)   == approvals[id] # Absent
DecidableAgain(id, t) == approvals[id].tenant = t

Visible(id, t)   == approvals[id].tenant = t
Decidable(id, t) == Visible(id, t) /\ approvals[id].status = "pending"

CanApply(r) ==
  \/ r.op = "create" /\ approvals[r.id] = Absent
  \/ r.op = "decide" /\ Decidable(r.id, r.tenant)

Apply(r) == approvals' = [approvals EXCEPT ![r.id] = Written(r)]

-----------------------------------------------------------------------------
Init ==
  /\ approvals = [i \in Id |-> Absent]
  /\ call = [c \in Client |-> NoCall]
  /\ limbo = {}

Open(c) == call[c] # NoCall /\ call[c].answer = "open"

Invoke(c, r) ==
  /\ call[c] = NoCall
  /\ r.client = c
  /\ call' = [call EXCEPT ![c] = [op |-> "call", request |-> r, answer |-> "open", row |-> Absent]]
  /\ UNCHANGED <<approvals, limbo>>

Answers(c, a, row) ==
  call' = [call EXCEPT ![c].answer = a, ![c].row = row]

(* create_pending and decide write their record and succeed.               *)
Succeed(c) ==
  LET r == call[c].request IN
  /\ Open(c)
  /\ CanApply(r)
  /\ Apply(r)
  /\ Answers(c, "ok", Written(r))
  /\ UNCHANGED limbo

(* decide of a missing, decided or foreign record changes nothing.         *)
Refuse(c) ==
  LET r == call[c].request IN
  /\ Open(c)
  /\ r.op = "decide"
  /\ ~ Decidable(r.id, r.tenant)
  /\ Answers(c, "refused", Absent)
  /\ UNCHANGED <<approvals, limbo>>

(* get answers the record of the caller's own tenant, and only that.       *)
Read(c) ==
  LET r == call[c].request IN
  /\ Open(c)
  /\ r.op = "get"
  /\ IF Visible(r.id, r.tenant)
       THEN Answers(c, "ok", approvals[r.id])
       ELSE Answers(c, "none", Absent)
  /\ UNCHANGED <<approvals, limbo>>

(* The call raises, or is retried below the store, and its request may be  *)
(* left behind.                                                            *)
Raise(c) ==
  /\ call[c] # NoCall
  /\ call' \in {call, [call EXCEPT ![c].answer = "error", ![c].row = Absent]}
  /\ limbo' \in {limbo, limbo \cup {call[c].request}}
  /\ call[c].request.op = "get" => limbo' = limbo
  /\ UNCHANGED approvals

Return(c) ==
  /\ call[c] # NoCall
  /\ ~ Open(c)
  /\ call' = [call EXCEPT ![c] = NoCall]
  /\ UNCHANGED <<approvals, limbo>>

(* A request left behind takes effect late, or never.                      *)
Late(r) ==
  /\ r \in limbo
  /\ limbo' = limbo \ {r}
  /\ \/ CanApply(r) /\ Apply(r)
     \/ UNCHANGED approvals
  /\ UNCHANGED call

Next ==
  \/ \E c \in Client :
       \/ \E r \in Request : Invoke(c, r)
       \/ Succeed(c) \/ Refuse(c) \/ Read(c) \/ Raise(c) \/ Return(c)
  \/ \E r \in limbo : Late(r)

Spec == Init /\ [][Next]_vars
-----------------------------------------------------------------------------
TypeOK ==
  /\ approvals \in [Id -> Row]
  /\ call \in [Client -> Call \cup {NoCall}]
  /\ limbo \subseteq Request

(* A client told "ok" was told the truth about a record of its own tenant: *)
(* a create is stored, a decision is the caller's own and is the one kept, *)
(* and a row that was read is the stored one, or was still pending then    *)
(* (store.py 38-39, decide 134-156).                                       *)
HonestAnswers ==
  \A c \in Client :
    LET r == call[c].request
        row == call[c].row
    IN call[c] # NoCall /\ call[c].answer = "ok" =>
         /\ approvals[r.id].tenant = r.tenant /\ row.tenant = r.tenant
         /\ r.op = "decide" => approvals[r.id] = Decided(r)
         /\ row.status # "pending" => row = approvals[r.id]

(* A record is never deleted, never moves to another tenant, and a decided *)
(* record never changes again: "decided" happens once (store.py 145-151).  *)
DecidedOnce ==
  [][\A i \in Id :
       /\ approvals[i].status # "absent" => approvals'[i].tenant = approvals[i].tenant
       /\ approvals[i].status = "pending" => approvals'[i].status # "absent"
       /\ approvals[i].status \in Verdict => approvals'[i] = approvals[i]]_approvals
=============================================================================
