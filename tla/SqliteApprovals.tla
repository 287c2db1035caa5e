--------------------------- MODULE SqliteApprovals ---------------------------
(***************************************************************************)
(* SQLiteApprovalStore of state/store.py, called by the threads of one     *)
(* process.                                                                *)
(*                                                                         *)
(* Every access to the connection is made under the store's lock, and a    *)
(* write is committed before the lock is released: each critical section   *)
(* is one step.  A method is up to three of them (write, read back, count) *)
(* and other threads run between them.                                     *)
(***************************************************************************)
EXTENDS ApprovalRecords, Integers, FiniteSets

CONSTANT MaxFaults   (* bound on statements that raise sqlite3.Error *)

ASSUME FaultsAreBounded == MaxFaults \in Nat

VARIABLES
  rows,    (* the approvals table, committed                               *)
  gauge,   (* PENDING_APPROVALS, by tenant, shared by the threads          *)
  pc,      (* next critical section of a thread, or its call's outcome     *)
  req,     (* arguments of its call                                        *)
  got,     (* the row it read last                                         *)
  faults,
  known    (* history: ids a client has been given by create or list       *)

vars == <<rows, gauge, pc, req, got, faults, known>>

Section == {"insert", "update", "select", "reread", "count"}
Outcome == {"ok", "none", "refused", "error"}

Init ==
  /\ rows = [i \in Id |-> Absent]
  /\ gauge = [t \in Tenant |-> 0]
  /\ pc = [c \in Client |-> "idle"]
  /\ req = [c \in Client |-> NoCall]
  /\ got = [c \in Client |-> Absent]
  /\ faults = 0
  /\ known = {}

Goto(c, next) == pc' = [pc EXCEPT ![c] = next]
PendingOf(t)  == {i \in Id : rows[i].tenant = t /\ rows[i].status = "pending"}

(* uuid4 never repeats an id.                                              *)
Fresh(i)   == rows[i] = Absent /\ \A c \in Client : pc[c] # "idle" => req[c].id # i
Askable(i) == i \in known \/ Fresh(i)

Begin(c, op, i, t, v, first) ==
  /\ pc[c] = "idle"
  /\ req' = [req EXCEPT ![c] = [op |-> op, id |-> i, tenant |-> t, verdict |-> v, client |-> c]]
  /\ Goto(c, first)
  /\ UNCHANGED <<rows, gauge, got, faults, known>>

create_pending(c, i, t) == Fresh(i) /\ Begin(c, "create", i, t, "none", "insert")
decide(c, i, t, v)      == Askable(i) /\ Begin(c, "decide", i, t, v, "update")
get(c, i, t)            == Askable(i) /\ Begin(c, "get", i, t, "none", "select")

(* list_pending is a single SELECT; a client learns the ids it answers.    *)
list_pending(c, t) ==
  /\ pc[c] = "idle"
  /\ known' = known \cup PendingOf(t)
  /\ UNCHANGED <<rows, gauge, pc, req, got, faults>>

Insert(c) ==
  LET r == req[c] IN
  /\ pc[c] = "insert"
  /\ rows' = [rows EXCEPT ![r.id] = Pending(r)]
  /\ Goto(c, "reread")
  /\ UNCHANGED <<gauge, req, got, faults, known>>

(* Bugs for the runs to catch: an UPDATE without its conditions on the     *)
(* status or on the tenant, and one that records no reviewer.              *)
UpdateDecidesAgain(r)     == rows[r.id].tenant = r.tenant
UpdateForAnyTenant(r)     == rows[r.id].status = "pending"
UpdateKeepsNoReviewer(r)  == [rows EXCEPT ![r.id].status = r.verdict]

(* UPDATE ... WHERE approval_id = ? AND status = 'pending' AND tenant = ?  *)
UpdateMatches(r) == rows[r.id].status = "pending" /\ rows[r.id].tenant = r.tenant
Updated(r) == [rows EXCEPT ![r.id].status = r.verdict, ![r.id].by = r.client]

Update(c) ==
  LET r == req[c] IN
  /\ pc[c] = "update"
  /\ \/ /\ UpdateMatches(r)
        /\ rows' = Updated(r)
        /\ Goto(c, "reread")
     \/ /\ ~ UpdateMatches(r)
        /\ Goto(c, "refused")
        /\ UNCHANGED rows
  /\ UNCHANGED <<gauge, req, got, faults, known>>

(* get, by a caller or by create_pending and decide to read back.          *)
SelectMatches(r) == rows[r.id].tenant = r.tenant

Select(c) ==
  LET r == req[c] IN
  /\ pc[c] \in {"select", "reread"}
  /\ \/ /\ SelectMatches(r)
        /\ got' = [got EXCEPT ![c] = rows[r.id]]
        /\ Goto(c, IF pc[c] = "reread" THEN "count" ELSE "ok")
     \/ /\ ~ SelectMatches(r)
        /\ Goto(c, IF pc[c] = "reread" THEN "error" ELSE "none")
        /\ UNCHANGED got
  /\ UNCHANGED <<rows, gauge, req, faults, known>>

Count(c) ==
  /\ pc[c] = "count"
  /\ gauge' = [gauge EXCEPT ![got[c].tenant] =
                 IF req[c].op = "create" THEN @ + 1 ELSE @ - 1]
  /\ known' = known \cup {req[c].id}
  /\ Goto(c, "ok")
  /\ UNCHANGED <<rows, req, got, faults>>

(* A statement raises: the transaction, if any, is rolled back.            *)
Fail(c) ==
  /\ pc[c] \in {"insert", "update", "select", "reread"}
  /\ faults < MaxFaults
  /\ faults' = faults + 1
  /\ Goto(c, "error")
  /\ UNCHANGED <<rows, gauge, req, got, known>>

Return(c) ==
  /\ pc[c] \in Outcome
  /\ Goto(c, "idle")
  /\ req' = [req EXCEPT ![c] = NoCall]
  /\ got' = [got EXCEPT ![c] = Absent]
  /\ UNCHANGED <<rows, gauge, faults, known>>

Call(c) ==
  \E t \in Tenant :
    \/ \E i \in Id :
         create_pending(c, i, t) \/ get(c, i, t) \/ \E v \in Verdict : decide(c, i, t, v)
    \/ list_pending(c, t)

Next ==
  \E c \in Client :
    Call(c) \/ Insert(c) \/ Update(c) \/ Select(c) \/ Count(c) \/ Fail(c) \/ Return(c)

Spec == Init /\ [][Next]_vars
-----------------------------------------------------------------------------
TypeOK ==
  /\ rows \in [Id -> Row]
  /\ gauge \in [Tenant -> Int]
  /\ pc \in [Client -> {"idle"} \cup Section \cup Outcome]
  /\ req \in [Client -> Request \cup {NoCall}]
  /\ got \in [Client -> Row]
  /\ faults \in 0..MaxFaults
  /\ known \subseteq Id

(* When no call is in progress the gauge is the number of pending rows of  *)
(* the tenant, if no statement raised (store.py 131, 155; metrics.py 78).  *)
(* In between it may be off, and even negative: another thread can list    *)
(* and decide a record before its creator has counted it.                  *)
GaugeAtRest ==
  (\A c \in Client : pc[c] = "idle") /\ faults = 0 =>
     \A t \in Tenant : gauge[t] = Cardinality(PendingOf(t))

-----------------------------------------------------------------------------
(***************************************************************************)
(* The store implements ApprovalStore: INSERT and UPDATE are where a call  *)
(* takes effect and counting is bookkeeping.  decide reads its row back in *)
(* a second critical section and must find its own decision (store.py      *)
(* 144-156); create_pending may find that of a thread that listed its id.  *)
(***************************************************************************)
AbstractAnswer(c) ==
  CASE pc[c] \in {"insert", "update", "select"} -> "open"
    [] pc[c] \in {"reread", "count"} -> "ok"
    [] OTHER -> pc[c]

AbstractRow(c) ==
  IF AbstractAnswer(c) # "ok" THEN Absent
  ELSE IF pc[c] = "reread" \/ req[c].op = "create" THEN Written(req[c]) ELSE got[c]

AbstractCalls ==
  [c \in Client |->
     IF pc[c] = "idle" THEN NoCall
     ELSE [op |-> "call", request |-> req[c], answer |-> AbstractAnswer(c), row |-> AbstractRow(c)]]

Contract == INSTANCE ApprovalStore WITH approvals <- rows, limbo <- {}, call <- AbstractCalls

(* decide succeeds at most once per approval and for its own tenant with   *)
(* any interleaving of the threads (state/store.py 30-60, 108-164).        *)
ImplementsApprovalStore == Contract!Spec
=============================================================================
