-------------------------- MODULE PostgresApprovals --------------------------
(***************************************************************************)
(* PostgreSQLApprovalStore and PostgresConnectionPool of                   *)
(* state/postgres.py: threads (the clients) of several processes, each     *)
(* process with its own lock and FIFO pool of connections to one database. *)
(*                                                                         *)
(* A call takes the store's lock, then a connection, sets the tenant of    *)
(* the transaction, runs one statement under Row-Level Security, commits   *)
(* or rolls back, gives the connection and the lock back, and only then    *)
(* counts.  The database is external: READ COMMITTED transactions, a row   *)
(* locked by the transaction that wrote it, and a tenant setting that      *)
(* lasts as long as the transaction (set_config(..., is_local => true)).   *)
(* The connecting role has neither SUPERUSER nor BYPASSRLS.                *)
(***************************************************************************)
EXTENDS ApprovalRecords, Integers, Sequences, FiniteSets, Functions

CONSTANTS
  Process,     (* processes that opened the store                           *)
  ProcessOf,   (* the process of each thread and of each connection         *)
  Conn,        (* physical connections, of all pools                        *)
  NoConn,
  MaxFaults    (* bound on lost connections and failed statements           *)

ASSUME ProcessesOwn == ProcessOf \in [Client \cup Conn -> Process]
ASSUME PoolsAreFinite == IsFiniteSet(Conn)
ASSUME ThreadsAreFinite == IsFiniteSet(Process) /\ IsFiniteSet(Client)
ASSUME NoConnIsNew == NoConn \notin Conn
ASSUME FaultsAreBounded == MaxFaults \in Nat

VARIABLES
  rows,    (* the approvals table, committed                               *)
  conn,    (* each connection: its client side and its server session      *)
  pool,    (* the FIFO queue of idle connections of each process           *)
  lock,    (* holder of the store's lock in each process                   *)
  gauge,   (* PENDING_APPROVALS of each process                            *)
  pc, req, (* next step of each thread and the arguments of its call       *)
  held,    (* the connection it took from the pool                         *)
  answer,  (* what its call will answer, "open" until that is settled      *)
  got,     (* the row its statement returned                               *)
  found,   (* the ids its list_pending returned                            *)
  faults,
  known    (* history: ids a client has been given by create or list       *)

vars == <<rows, conn, pool, lock, gauge, pc, req, held, answer, got, found, faults, known>>

Step    == {"lock", "take", "scope", "statement", "commit", "rollback", "release", "count", "done"}
Answer  == {"open", "ok", "none", "refused", "error"}
(* The session behind a connection: "idle" outside a transaction, "open"   *)
(* within one, "committing" once COMMIT was sent and its reply lost.       *)
(* `tenant` is app.tenant_id; `write` is the request whose change is not   *)
(* committed yet.                                                          *)
Session == [alive : BOOLEAN, tx : {"idle", "open", "committing"},
            tenant : Tenant \cup {NoTenant}, write : Request \cup {NoCall}]
NewSession == [alive |-> TRUE, tx |-> "idle", tenant |-> NoTenant, write |-> NoCall]
(* Bugs for the runs to catch: a tenant set for the session instead of the *)
(* transaction, no give-back when set_config raises, no condition on the   *)
(* status.                                                                 *)
TenantOfSession(k)  == [conn[k] EXCEPT !.tx = "idle", !.write = NoCall]
KeepOnRaise(step)   == IF step \in {"statement", "commit"} THEN "rollback" ELSE "done"
DecideAgain(k, i)   == rows[i].tenant = conn[k].tenant

(* The end of a transaction ends its tenant setting.                       *)
Ended(k) == [conn[k] EXCEPT !.tx = "idle", !.tenant = NoTenant, !.write = NoCall]

-----------------------------------------------------------------------------
(* Pools are filled when the store is opened, in any order.                *)
IsPool(q, p) ==
  /\ Len(q) = Cardinality({k \in Conn : ProcessOf[k] = p})
  /\ {q[n] : n \in 1..Len(q)} = {k \in Conn : ProcessOf[k] = p}

Init ==
  /\ rows = [i \in Id |-> Absent]
  /\ conn = [k \in Conn |-> NewSession]
  /\ pool \in [Process -> UNION {[1..n -> Conn] : n \in 0..Cardinality(Conn)}]
  /\ \A p \in Process : IsPool(pool[p], p)
  /\ lock = [p \in Process |-> NoClient]
  /\ gauge = [p \in Process |-> [t \in Tenant |-> 0]]
  /\ pc = [c \in Client |-> "idle"]
  /\ req = [c \in Client |-> NoCall]
  /\ held = [c \in Client |-> NoConn]
  /\ answer = [c \in Client |-> "open"]
  /\ got = [c \in Client |-> Absent]
  /\ found = [c \in Client |-> {}]
  /\ faults = 0
  /\ known = {}

Goto(c, next) == pc' = [pc EXCEPT ![c] = next]

(* uuid4 never repeats an id.                                              *)
Fresh(i) ==
  /\ rows[i] = Absent
  /\ \A c \in Client : pc[c] # "idle" => req[c].id # i
  /\ \A k \in Conn : conn[k].write # NoCall => conn[k].write.id # i
Askable(i) == i \in known \/ Fresh(i)

Begin(c, op, i, t, v) ==
  /\ pc[c] = "idle"
  /\ req' = [req EXCEPT ![c] = [op |-> op, id |-> i, tenant |-> t, verdict |-> v, client |-> c]]
  /\ Goto(c, "lock")
  /\ UNCHANGED <<rows, conn, pool, lock, gauge, held, answer, got, found, faults, known>>

create_pending(c, i, t) == Fresh(i) /\ Begin(c, "create", i, t, "none")
decide(c, i, t, v)      == Askable(i) /\ Begin(c, "decide", i, t, v)
get(c, i, t)            == Askable(i) /\ Begin(c, "get", i, t, "none")
list_pending(c, t)      == Begin(c, "list", NoId, t, "none")

-----------------------------------------------------------------------------
(***************************************************************************)
(* _tenant_scoped_cursor, on the way in.                                   *)
(***************************************************************************)
LockIsFree(p) == lock[p] = NoClient

Lock(c) ==
  LET p == ProcessOf[c] IN
  /\ pc[c] = "lock"
  /\ LockIsFree(p)
  /\ lock' = [lock EXCEPT ![p] = c]
  /\ Goto(c, "take")
  /\ UNCHANGED <<rows, conn, pool, gauge, req, held, answer, got, found, faults, known>>

(* queue.Queue.get blocks while the pool is empty.                         *)
TakeConnection(c) ==
  LET p == ProcessOf[c] IN
  /\ pc[c] = "take"
  /\ pool[p] # <<>>
  /\ held' = [held EXCEPT ![c] = Head(pool[p])]
  /\ pool' = [pool EXCEPT ![p] = Tail(@)]
  /\ Goto(c, "scope")
  /\ UNCHANGED <<rows, conn, lock, gauge, req, answer, got, found, faults, known>>

(* BEGIN; set_config('app.tenant_id', tenant, is_local => true).  It is    *)
(* outside the try: when it raises, nothing is rolled back.                *)
SetTenant(c) ==
  LET k == held[c] IN
  /\ pc[c] = "scope"
  /\ conn[k].alive
  /\ conn' = [conn EXCEPT ![k].tx = "open", ![k].tenant = req[c].tenant]
  /\ Goto(c, "statement")
  /\ UNCHANGED <<rows, pool, lock, gauge, req, held, answer, got, found, faults, known>>

-----------------------------------------------------------------------------
(***************************************************************************)
(* One statement, in the transaction of connection k.  The policy          *)
(* tenant_isolation shows it the rows whose tenant is the session's.       *)
(***************************************************************************)
VisibleTo(k, i)  == rows[i].tenant = conn[k].tenant
Matches(k, i)    == VisibleTo(k, i) /\ rows[i].status = "pending"
LockedFor(k, i)  == \E j \in Conn \ {k} : conn[j].write # NoCall /\ conn[j].write.id = i
PendingOf(t)     == {i \in Id : rows[i].tenant = t /\ rows[i].status = "pending"}

Settle(c, a, row) ==
  /\ answer' = [answer EXCEPT ![c] = a]
  /\ got' = [got EXCEPT ![c] = row]

Insert(c) ==
  LET k == held[c] IN
  /\ req[c].op = "create"
  /\ conn' = [conn EXCEPT ![k].write = req[c]]
  /\ Settle(c, "open", Pending(req[c]))
  /\ UNCHANGED found

(* A matching row that another transaction has written is waited for.      *)
Update(c) ==
  LET k == held[c]  r == req[c] IN
  /\ r.op = "decide"
  /\ \/ /\ Matches(k, r.id) /\ ~ LockedFor(k, r.id)
        /\ conn' = [conn EXCEPT ![k].write = r]
        /\ Settle(c, "open", Decided(r))
     \/ /\ ~ Matches(k, r.id)
        /\ Settle(c, "refused", Absent)
        /\ UNCHANGED conn
  /\ UNCHANGED found

Select(c) ==
  LET k == held[c]  r == req[c] IN
  /\ r.op = "get"
  /\ \/ VisibleTo(k, r.id) /\ Settle(c, "ok", rows[r.id])
     \/ ~ VisibleTo(k, r.id) /\ Settle(c, "none", Absent)
  /\ UNCHANGED <<conn, found>>

SelectPending(c) ==
  /\ req[c].op = "list"
  /\ found' = [found EXCEPT ![c] = PendingOf(conn[held[c]].tenant)]
  /\ Settle(c, "ok", Absent)
  /\ UNCHANGED conn

Statement(c) ==
  /\ pc[c] = "statement"
  /\ conn[held[c]].alive
  /\ Insert(c) \/ Update(c) \/ Select(c) \/ SelectPending(c)
  /\ Goto(c, "commit")
  /\ UNCHANGED <<rows, pool, lock, gauge, req, held, faults, known>>

-----------------------------------------------------------------------------
(***************************************************************************)
(* _tenant_scoped_cursor, on the way out.                                  *)
(***************************************************************************)
CommitWrite(k) ==
  rows' = IF conn[k].write = NoCall THEN rows
          ELSE [rows EXCEPT ![conn[k].write.id] = Written(conn[k].write)]

Commit(c) ==
  LET k == held[c] IN
  /\ pc[c] = "commit"
  /\ conn[k].alive
  /\ CommitWrite(k)
  /\ conn' = [conn EXCEPT ![k] = Ended(k)]
  /\ answer' = [answer EXCEPT ![c] = IF @ = "open" THEN "ok" ELSE @]
  /\ Goto(c, "release")
  /\ UNCHANGED <<pool, lock, gauge, req, held, got, found, faults, known>>

Rollback(c) ==
  LET k == held[c] IN
  /\ pc[c] = "rollback"
  /\ conn[k].alive
  /\ conn' = [conn EXCEPT ![k] = Ended(k)]
  /\ Goto(c, "release")
  /\ UNCHANGED <<rows, pool, lock, gauge, req, held, answer, got, found, faults, known>>

(* On a lost connection each step raises: set_config straight out of the   *)
(* method, the statement and COMMIT into the rollback, and the rollback    *)
(* out of the method.                                                      *)
AfterRaise(step) == IF step \in {"statement", "commit"} THEN "rollback" ELSE "release"

RaiseOnLost(c) ==
  /\ pc[c] \in {"scope", "statement", "commit", "rollback"}
  /\ ~ conn[held[c]].alive
  /\ Settle(c, "error", Absent)
  /\ found' = [found EXCEPT ![c] = {}]
  /\ Goto(c, AfterRaise(pc[c]))
  /\ UNCHANGED <<rows, conn, pool, lock, gauge, req, held, faults, known>>

(* The connection goes back to the pool, dead or alive, and the lock is    *)
(* released: nobody else of the process runs in between.                   *)
Release(c) ==
  LET p == ProcessOf[c] IN
  /\ pc[c] = "release"
  /\ pool' = [pool EXCEPT ![p] = Append(@, held[c])]
  /\ held' = [held EXCEPT ![c] = NoConn]
  /\ lock' = [lock EXCEPT ![p] = NoClient]
  /\ Goto(c, IF answer[c] = "ok" /\ req[c].op \in {"create", "decide"} THEN "count" ELSE "done")
  /\ UNCHANGED <<rows, conn, gauge, req, answer, got, found, faults, known>>

CountPending(c) ==
  /\ pc[c] = "count"
  /\ gauge' = [gauge EXCEPT ![ProcessOf[c]][req[c].tenant] =
                 IF req[c].op = "create" THEN @ + 1 ELSE @ - 1]
  /\ Goto(c, "done")
  /\ UNCHANGED <<rows, conn, pool, lock, req, held, answer, got, found, faults, known>>

Return(c) ==
  /\ pc[c] = "done"
  /\ Goto(c, "idle")
  /\ known' = known \cup found[c]
                \cup (IF req[c].op = "create" /\ answer[c] = "ok" THEN {req[c].id} ELSE {})
  /\ req' = [req EXCEPT ![c] = NoCall]
  /\ Settle(c, "open", Absent)
  /\ found' = [found EXCEPT ![c] = {}]
  /\ UNCHANGED <<rows, conn, pool, lock, gauge, held, faults>>

-----------------------------------------------------------------------------
(***************************************************************************)
(* Faults.                                                                 *)
(***************************************************************************)
Fault == faults < MaxFaults /\ faults' = faults + 1

(* The server rejects a statement (an id that is not a UUID, for one).     *)
StatementFails(c) ==
  /\ pc[c] = "statement"
  /\ conn[held[c]].alive
  /\ Fault
  /\ Settle(c, "error", Absent)
  /\ Goto(c, "rollback")
  /\ UNCHANGED <<rows, conn, pool, lock, gauge, req, held, found, known>>

(* The client gives a connection up (network error, or its 5 s timeout);   *)
(* COMMIT may have been sent by then.                                      *)
LoseConnection(k) ==
  /\ conn[k].alive
  /\ Fault
  /\ conn' \in {[conn EXCEPT ![k].alive = FALSE]}
       \cup {[conn EXCEPT ![k].alive = FALSE, ![k].tx = "committing"] :
               c \in {d \in Client : held[d] = k /\ pc[d] = "commit"}}
  /\ UNCHANGED <<rows, pool, lock, gauge, pc, req, held, answer, got, found, known>>

(* The server ends the transaction of a lost connection.                   *)
ServerEnds(k) ==
  /\ ~ conn[k].alive
  /\ conn[k].tx # "idle"
  /\ \/ conn[k].tx = "committing" /\ CommitWrite(k)
     \/ UNCHANGED rows
  /\ conn' = [conn EXCEPT ![k] = Ended(k)]
  /\ UNCHANGED <<pool, lock, gauge, pc, req, held, answer, got, found, faults, known>>

Call(c) ==
  \E t \in Tenant :
    \/ \E i \in Id :
         create_pending(c, i, t) \/ get(c, i, t) \/ \E v \in Verdict : decide(c, i, t, v)
    \/ list_pending(c, t)

Work(c) ==
  \/ TakeConnection(c) \/ SetTenant(c) \/ Statement(c) \/ Commit(c) \/ Rollback(c)
  \/ RaiseOnLost(c) \/ Release(c) \/ CountPending(c) \/ Return(c)

Next ==
  \/ \E c \in Client : Call(c) \/ Lock(c) \/ Work(c) \/ StatementFails(c)
  \/ \E k \in Conn : LoseConnection(k) \/ ServerEnds(k)

Spec == Init /\ [][Next]_vars

(* A thread that can run does, the lock is handed to each waiter in the    *)
(* end, and the server notices a lost connection.                          *)
Fairness ==
  /\ \A c \in Client : WF_vars(Work(c)) /\ SF_vars(Lock(c))
  /\ \A k \in Conn : WF_vars(ServerEnds(k))

FairSpec == Spec /\ Fairness
-----------------------------------------------------------------------------
TypeOK ==
  /\ rows \in [Id -> Row]
  /\ conn \in [Conn -> Session]
  /\ pool \in [Process -> Seq(Conn)]
  /\ lock \in [Process -> Client \cup {NoClient}]
  /\ gauge \in [Process -> [Tenant -> Int]]
  /\ pc \in [Client -> {"idle"} \cup Step]
  /\ req \in [Client -> Request \cup ListRequest \cup {NoCall}]
  /\ held \in [Client -> Conn \cup {NoConn}]
  /\ answer \in [Client -> Answer]
  /\ got \in [Client -> Row] /\ found \in [Client -> SUBSET Id]
  /\ faults \in 0..MaxFaults
  /\ known \subseteq Id

(* "a connection returned to the pool after tenant A's request and handed  *)
(* to tenant B's request next carries no trace of A's tenant context"      *)
(* (postgres.py 4-6), unless it is dead and can serve no request; and none *)
(* leaks or is shared: each is once in the pool of its process, or held by *)
(* the one thread that has the lock (83-89, 142).                          *)
PoolIsSound ==
  \A k \in Conn :
    LET p == ProcessOf[k]
        places == {n \in DOMAIN pool[p] : pool[p][n] = k}
        holders == {c \in Client : held[c] = k}
    IN /\ Cardinality(places) + Cardinality(holders) = 1
       /\ holders \subseteq {lock[p]}
       /\ places # {} /\ conn[k].alive => conn[k] = NewSession

(* When no call is in progress and nothing failed, the gauges of all the   *)
(* processes add up to the pending rows, although one process creates a    *)
(* record and another decides it (172, 196; metrics.py 78).                *)
GaugesAddUp ==
  faults = 0 /\ (\A c \in Client : pc[c] = "idle") =>
    \A t \in Tenant :
      SumFunction([p \in Process |-> gauge[p][t]]) = Cardinality(PendingOf(t))

(* Every call returns, faults or not: the lock, the pool and a row lock    *)
(* are always given back.                                                  *)
EveryCallReturns == \A c \in Client : pc[c] # "idle" ~> pc[c] = "idle"

-----------------------------------------------------------------------------
(***************************************************************************)
(* The store implements ApprovalStore: a write takes effect at COMMIT, a   *)
(* read or a refusal at its statement.  A COMMIT whose reply was lost      *)
(* leaves its request in limbo.                                            *)
(***************************************************************************)
AbstractCalls ==
  [c \in Client |->
     IF pc[c] = "idle" \/ req[c].op = "list" THEN NoCall
     ELSE [op |-> "call", request |-> req[c], answer |-> answer[c],
           row |-> IF answer[c] = "ok" THEN got[c] ELSE Absent]]

Limbo == {conn[k].write : k \in {j \in Conn : conn[j].tx = "committing"}} \ {NoCall}

Contract == INSTANCE ApprovalStore WITH
  approvals <- rows, limbo <- Limbo, call <- AbstractCalls

(* decide succeeds at most once per approval and for its own tenant with   *)
(* several processes, lost connections and lost COMMIT replies             *)
(* (state/store.py 30-60 over postgres.py 136-208).                        *)
ImplementsApprovalStore == Contract!Spec
=============================================================================
