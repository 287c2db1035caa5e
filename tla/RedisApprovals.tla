--------------------------- MODULE RedisApprovals ---------------------------
(***************************************************************************)
(* RedisApprovalStore of state/redis.py, shared by several processes.      *)
(*                                                                         *)
(* Every method is a series of Redis commands; the server runs each one    *)
(* atomically, and commands of different processes interleave between      *)
(* them.  A command the client stops waiting for (socket_timeout, or the   *)
(* process dies) stays in `late`: the server may still run it, or never    *)
(* read it.  A client is a process (a gateway replica, an operator script) *)
(* and makes one synchronous call at a time.  What a process does after a  *)
(* reply (the gauge) belongs to the step of the command, since no other    *)
(* process can see it.                                                     *)
(***************************************************************************)
EXTENDS ApprovalRecords, Integers, FiniteSets, Functions

CONSTANTS
  MaxFaults,  (* bound on timeouts and crashes                              *)
  Resend      (* TRUE if the client library re-sends a timed-out command    *)

ASSUME FaultsAreBounded == MaxFaults \in Nat /\ Resend \in BOOLEAN
ASSUME ClientsAreFinite == IsFiniteSet(Client)

VARIABLES
  store,   (* the record under each approval key                           *)
  index,   (* pending-index:<tenant>, a set of ids                         *)
  gauge,   (* PENDING_APPROVALS of each process, by tenant                 *)
  pc,      (* next command of the process, or the outcome of its call      *)
  req,     (* arguments of its call                                        *)
  got,     (* the record it decoded last                                   *)
  todo,    (* list_pending: ids still to GET                               *)
  found,   (* list_pending: ids to return                                  *)
  late,    (* commands given up on that the server may still run           *)
  faults,  (* timeouts and crashes so far                                  *)
  known,   (* history: ids a client has been given by create or list       *)
  owed     (* history: ids list_pending must return unless decided         *)

vars == <<store, index, gauge, pc, req, got, todo, found, late, faults, known, owed>>

Command == {"set", "sadd", "eval", "srem", "get", "smembers", "fetch"}
Outcome == {"ok", "none", "refused", "error"}
Sent    == [command : {"set", "sadd", "eval", "srem"}, request : Request]

-----------------------------------------------------------------------------
(***************************************************************************)
(* The server's side of each command.                                      *)
(***************************************************************************)
(* Bugs for the runs to catch.  The script: no test of the status, and the *)
(* reviewer is not recorded.  The index: a SET where SADD belongs, and a   *)
(* DEL where SREM belongs.                                                 *)
ScriptDecidesAgain(r)    == store[r.id].tenant = r.tenant
ScriptKeepsNoReviewer(r) == [store EXCEPT ![r.id].status = r.verdict]
SaddOverwrites(r)        == [index EXCEPT ![r.tenant] = {r.id}]
SremDeletesIndex(r)      == [index EXCEPT ![r.tenant] = {}]

(* SET NX                                                                  *)
SetApplies(r) == store[r.id] = Absent
SetEffect(r)  == [store EXCEPT ![r.id] = Pending(r)]

(* DECIDE_SCRIPT: compare, then SET the decided record                     *)
ScriptApplies(r) ==
  /\ store[r.id].status = "pending"
  /\ store[r.id].tenant = r.tenant
ScriptEffect(r) ==
  [store EXCEPT ![r.id].status = r.verdict, ![r.id].by = r.client]

Sadd(r) == [index EXCEPT ![r.tenant] = @ \cup {r.id}]
Srem(r) == [index EXCEPT ![r.tenant] = @ \ {r.id}]

Count(counter, c, t, n) == [counter EXCEPT ![c][t] = @ + n]

-----------------------------------------------------------------------------
(* Nobody holds id i: uuid4 never repeats one that was ever drawn.         *)
Fresh(i) ==
  /\ store[i] = Absent
  /\ \A c \in Client : pc[c] # "idle" => req[c].id # i
  /\ \A m \in late : m.request.id # i

Init ==
  /\ store = [i \in Id |-> Absent]
  /\ index = [t \in Tenant |-> {}]
  /\ gauge = [c \in Client |-> [t \in Tenant |-> 0]]
  /\ pc = [c \in Client |-> "idle"]
  /\ req = [c \in Client |-> NoCall]
  /\ got = [c \in Client |-> Absent]
  /\ todo = [c \in Client |-> {}]
  /\ found = [c \in Client |-> {}]
  /\ late = {}
  /\ faults = 0
  /\ known = {}
  /\ owed = [c \in Client |-> {}]

Goto(c, next) == pc' = [pc EXCEPT ![c] = next]

Begin(c, op, i, t, v, first) ==
  /\ pc[c] = "idle"
  /\ req' = [req EXCEPT ![c] = [op |-> op, id |-> i, tenant |-> t, verdict |-> v, client |-> c]]
  /\ Goto(c, first)
  /\ UNCHANGED <<store, index, gauge, got, todo, found, late, faults, known>>

create_pending(c, i, t) ==
  /\ Fresh(i)
  /\ Begin(c, "create", i, t, "none", "set")
  /\ UNCHANGED owed

(* decide and get are asked about ids that were handed out, or about one   *)
(* that does not exist.                                                    *)
Askable(i) == i \in known \/ Fresh(i)

decide(c, i, t, v) ==
  /\ Askable(i)
  /\ Begin(c, "decide", i, t, v, "eval")
  /\ UNCHANGED owed

get(c, i, t) ==
  /\ Askable(i)
  /\ Begin(c, "get", i, t, "none", "get")
  /\ UNCHANGED owed

PendingOf(t) == {i \in Id : store[i].tenant = t /\ store[i].status = "pending"}

list_pending(c, t) ==
  /\ Begin(c, "list", NoId, t, "none", "smembers")
  /\ owed' = [owed EXCEPT ![c] = known \cap PendingOf(t)]

(* create_pending, SET NX: "not persisted" if the key exists already,      *)
(* which only a re-sent SET can meet.                                      *)
SendSet(c) ==
  LET r == req[c] IN
  /\ pc[c] = "set"
  /\ \/ /\ SetApplies(r)
        /\ store' = SetEffect(r)
        /\ Goto(c, "sadd")
     \/ /\ ~ SetApplies(r)
        /\ Goto(c, "error")
        /\ UNCHANGED store
  /\ UNCHANGED <<index, gauge, req, got, todo, found, late, faults, known, owed>>

SendSadd(c) ==
  LET r == req[c] IN
  /\ pc[c] = "sadd"
  /\ index' = Sadd(r)
  /\ gauge' = Count(gauge, c, r.tenant, 1)
  /\ known' = known \cup {r.id}
  /\ Goto(c, "ok")
  /\ UNCHANGED <<store, req, got, todo, found, late, faults, owed>>

(* decide: EVAL the script; nil is the ValueError.                         *)
SendEval(c) ==
  LET r == req[c] IN
  /\ pc[c] = "eval"
  /\ \/ /\ ScriptApplies(r)
        /\ store' = ScriptEffect(r)
        /\ got' = [got EXCEPT ![c] = store'[r.id]]
        /\ Goto(c, "srem")
     \/ /\ ~ ScriptApplies(r)
        /\ Goto(c, "refused")
        /\ UNCHANGED <<store, got>>
  /\ UNCHANGED <<index, gauge, req, todo, found, late, faults, known, owed>>

SendSrem(c) ==
  LET r == req[c] IN
  /\ pc[c] = "srem"
  /\ index' = Srem(r)
  /\ gauge' = Count(gauge, c, got[c].tenant, -1)
  /\ Goto(c, "ok")
  /\ UNCHANGED <<store, req, got, todo, found, late, faults, known, owed>>

(* get: the record is filtered by tenant after it was read.                *)
SendGet(c) ==
  LET r == req[c] IN
  /\ pc[c] = "get"
  /\ \/ /\ store[r.id].tenant = r.tenant
        /\ got' = [got EXCEPT ![c] = store[r.id]]
        /\ Goto(c, "ok")
     \/ /\ store[r.id].tenant # r.tenant
        /\ Goto(c, "none")
        /\ UNCHANGED got
  /\ UNCHANGED <<store, index, gauge, req, todo, found, late, faults, known, owed>>

(* list_pending: SMEMBERS, then one GET per id in any order.               *)
SendSmembers(c) ==
  /\ pc[c] = "smembers"
  /\ todo' = [todo EXCEPT ![c] = index[req[c].tenant]]
  /\ Goto(c, "fetch")
  /\ UNCHANGED <<store, index, gauge, req, got, found, late, faults, known, owed>>

Fetch(c) ==
  LET r == req[c] IN
  /\ pc[c] = "fetch"
  /\ \E i \in todo[c] :
       /\ todo' = [todo EXCEPT ![c] = @ \ {i}]
       /\ \/ /\ i \in PendingOf(r.tenant)
             /\ found' = [found EXCEPT ![c] = @ \cup {i}]
             /\ known' = known \cup {i}
          \/ /\ i \notin PendingOf(r.tenant)
             /\ UNCHANGED <<found, known>>
  /\ UNCHANGED <<store, index, gauge, pc, req, got, late, faults, owed>>

ListDone(c) ==
  /\ pc[c] = "fetch" /\ todo[c] = {}
  /\ Goto(c, "ok")
  /\ UNCHANGED <<store, index, gauge, req, got, todo, found, late, faults, known, owed>>

Return(c) ==
  /\ pc[c] \in Outcome
  /\ Goto(c, "idle")
  /\ req' = [req EXCEPT ![c] = NoCall]
  /\ got' = [got EXCEPT ![c] = Absent]
  /\ todo' = [todo EXCEPT ![c] = {}]
  /\ found' = [found EXCEPT ![c] = {}]
  /\ owed' = [owed EXCEPT ![c] = {}]
  /\ UNCHANGED <<store, index, gauge, late, faults, known>>

-----------------------------------------------------------------------------
(***************************************************************************)
(* Faults.                                                                 *)
(***************************************************************************)
InFlight(c) ==
  IF pc[c] \in {"set", "sadd", "eval", "srem"}
    THEN {[command |-> pc[c], request |-> req[c]]} ELSE {}

(* No reply within socket_timeout: the command is left behind, and the     *)
(* library sends it again or raises through the store method.              *)
Timeout(c) ==
  /\ pc[c] \in Command
  /\ faults < MaxFaults
  /\ faults' = faults + 1
  /\ late' = late \cup InFlight(c)
  /\ \/ Resend /\ UNCHANGED pc
     \/ Goto(c, "error")
  /\ UNCHANGED <<store, index, gauge, req, got, todo, found, known, owed>>

(* The process dies within a call and restarts with an empty gauge.        *)
Crash(c) ==
  /\ pc[c] \in Command
  /\ faults < MaxFaults
  /\ faults' = faults + 1
  /\ late' \in {late, late \cup InFlight(c)}
  /\ gauge' = [gauge EXCEPT ![c] = [t \in Tenant |-> 0]]
  /\ Goto(c, "error")
  /\ UNCHANGED <<store, index, req, got, todo, found, known, owed>>

(* The server runs a command its client gave up on, or drops it.           *)
LateSet(m) ==
  LET r == m.request IN
  /\ m.command = "set" /\ SetApplies(r)
  /\ store' = SetEffect(r)
  /\ UNCHANGED index

LateEval(m) ==
  LET r == m.request IN
  /\ m.command = "eval" /\ ScriptApplies(r)
  /\ store' = ScriptEffect(r)
  /\ UNCHANGED index

LateIndex(m) ==
  /\ \/ m.command = "sadd" /\ index' = Sadd(m.request)
     \/ m.command = "srem" /\ index' = Srem(m.request)
  /\ UNCHANGED store

Late(m) ==
  /\ late' = late \ {m}
  /\ \/ LateSet(m) \/ LateEval(m) \/ LateIndex(m)
     \/ UNCHANGED <<store, index>>
  /\ UNCHANGED <<gauge, pc, req, got, todo, found, faults, known, owed>>

Call(c) ==
  \E t \in Tenant :
    \/ \E i \in Id :
         create_pending(c, i, t) \/ get(c, i, t) \/ \E v \in Verdict : decide(c, i, t, v)
    \/ list_pending(c, t)

Next ==
  \/ \E c \in Client :
       \/ Call(c) \/ SendSet(c) \/ SendSadd(c) \/ SendEval(c) \/ SendSrem(c)
       \/ SendGet(c) \/ SendSmembers(c) \/ Fetch(c) \/ ListDone(c) \/ Return(c)
       \/ Timeout(c) \/ Crash(c)
  \/ \E m \in late : Late(m)

Spec == Init /\ [][Next]_vars
-----------------------------------------------------------------------------
TypeOK ==
  /\ store \in [Id -> Row]
  /\ index \in [Tenant -> SUBSET Id]
  /\ gauge \in [Client -> [Tenant -> Int]]
  /\ pc \in [Client -> {"idle"} \cup Command \cup Outcome]
  /\ req \in [Client -> Request \cup ListRequest \cup {NoCall}]
  /\ got \in [Client -> Row]
  /\ todo \in [Client -> SUBSET Id] /\ found \in [Client -> SUBSET Id]
  /\ late \subseteq Sent
  /\ faults \in 0..MaxFaults
  /\ known \subseteq Id /\ owed \in [Client -> SUBSET Id]

(* Every id a client was given and nobody has decided is in the index of   *)
(* its tenant, whatever timed out or crashed on the way (redis.py 52-58,   *)
(* 85): list_pending can still show it to a reviewer.  Without faults the  *)
(* index at rest has nothing orphaned or stale either.                     *)
PendingIsIndexed ==
  \A t \in Tenant :
    /\ known \cap PendingOf(t) \subseteq index[t]
    /\ faults = 0 /\ (\A c \in Client : pc[c] = "idle") => index[t] = PendingOf(t)

(* list_pending returns every id that had been handed out before the call  *)
(* and is still pending, although other processes create and decide while  *)
(* it reads the records one by one (redis.py 96-104); and "listing tenant  *)
(* A's pending approvals must not require reading tenant B's records at    *)
(* all" (41-43): the ids SMEMBERS gives are records of its own tenant.     *)
ListIsCompleteAndOwn ==
  \A c \in Client :
    /\ pc[c] = "ok" /\ req[c].op = "list" =>
         owed[c] \cap PendingOf(req[c].tenant) \subseteq found[c]
    /\ \A i \in todo[c] \cup found[c] : store[i].tenant = req[c].tenant

(* When no call is in progress and nothing failed, the gauges of all the   *)
(* processes add up to the pending records, although one process creates a *)
(* record and another decides it (redis.py 58, 86; metrics.py 78).         *)
GaugesAddUp ==
  faults = 0 /\ (\A c \in Client : pc[c] = "idle") =>
    \A t \in Tenant :
      SumFunction([c \in Client |-> gauge[c][t]]) = Cardinality(PendingOf(t))

-----------------------------------------------------------------------------
(***************************************************************************)
(* The store implements ApprovalStore.  A call takes effect at its SET,    *)
(* EVAL or GET; the index and the gauge are bookkeeping; list_pending is   *)
(* not a call of the abstract store.                                       *)
(***************************************************************************)
AbstractAnswer(c) ==
  CASE pc[c] \in {"set", "eval", "get"} -> "open"
    [] pc[c] \in {"sadd", "srem"} -> "ok"
    [] OTHER -> pc[c]

AbstractRow(c) ==
  IF AbstractAnswer(c) # "ok" THEN Absent
  ELSE IF req[c].op = "create" THEN Pending(req[c]) ELSE got[c]

AbstractCalls ==
  [c \in Client |->
     IF pc[c] = "idle" \/ req[c].op = "list" THEN NoCall
     ELSE [op |-> "call", request |-> req[c], answer |-> AbstractAnswer(c), row |-> AbstractRow(c)]]

Limbo == {m.request : m \in {n \in late : n.command \in {"set", "eval"}}}

Contract == INSTANCE ApprovalStore WITH
  approvals <- store, limbo <- Limbo, call <- AbstractCalls

(* decide succeeds at most once per approval, for its own tenant, and the  *)
(* answer is the stored one, with any interleaving, timeout, late command  *)
(* or crash (state/store.py 30-60 over redis.py 46-94).                    *)
ImplementsApprovalStore == Contract!Spec
=============================================================================
