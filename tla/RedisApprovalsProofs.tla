------------------------ MODULE RedisApprovalsProofs ------------------------
(***************************************************************************)
(* Proofs about RedisApprovals, for any processes, ids and tenants and any *)
(* number of timeouts, crashes and late commands: it implements            *)
(* ApprovalStore, every id a client was told of is indexed while it is     *)
(* pending, and list_pending is complete and stays in its tenant.          *)
(*                                                                         *)
(* A process may die between any two commands, so an index entry is worth  *)
(* what the command that wrote it knew: SADD is only sent for a record of  *)
(* its tenant that exists, and SREM only for one that is decided for good. *)
(* Both stay true of a command the server runs long after its client left. *)
(*                                                                         *)
(* The gauges of the processes add up to the pending records because each  *)
(* of them is behind by no more than the one call its process is in.       *)
(***************************************************************************)
EXTENDS RedisApprovals, FiniteSetTheorems, TLAPS

(* What a process may be calling when it sends a command or has an answer. *)
OpOf(p) ==
  CASE p \in {"set", "sadd"} -> {"create"}
    [] p \in {"eval", "srem", "refused"} -> {"decide"}
    [] p \in {"get", "none"} -> {"get"}
    [] p \in {"smembers", "fetch"} -> {"list"}
    [] OTHER -> {"create", "decide", "get", "list"}

CallIsSound(c) ==
  /\ pc[c] = "idle" => req[c] = NoCall
  /\ pc[c] # "idle" =>
       /\ req[c] \in Request \cup ListRequest /\ req[c].client = c
       /\ req[c].op \in OpOf(pc[c])
       /\ pc[c] = "sadd" => store[req[c].id].tenant = req[c].tenant
       /\ pc[c] = "srem" => store[req[c].id] = Decided(req[c]) /\ got[c] = Decided(req[c])

(* What list_pending owes is still to be read until it is found.           *)
ListIsSound(c) ==
  /\ pc[c] = "idle" \/ req[c].op # "list" => todo[c] = {} /\ found[c] = {} /\ owed[c] = {}
  /\ pc[c] # "idle" =>
       /\ \A i \in todo[c] \cup found[c] : store[i].tenant = req[c].tenant
       /\ owed[c] \subseteq known
       /\ pc[c] = "fetch" => owed[c] \cap PendingOf(req[c].tenant) \subseteq todo[c] \cup found[c]
       /\ pc[c] = "ok" => owed[c] \cap PendingOf(req[c].tenant) \subseteq found[c]

LateIsSound(m) ==
  /\ m.request.op \in OpOf(m.command)
  /\ m.command = "sadd" => store[m.request.id].tenant = m.request.tenant
  /\ m.command = "srem" => store[m.request.id] = Decided(m.request)

IndexIsOwn == \A t \in Tenant : \A i \in index[t] : store[i].tenant = t

(* Ids that were handed out, or will be as soon as list_pending reads them.*)
Told(i) == i \in known \/ \E c \in Client : i \in todo[c]

ToldAreIndexed ==
  \A i \in Id : Told(i) =>
    /\ store[i] # Absent
    /\ store[i].status = "pending" => i \in index[store[i].tenant]

(* The id of a create is its caller's alone until it is in the index.      *)
Unshared(c) ==
  LET i == req[c].id IN
  /\ ~ Told(i)
  /\ \A t \in Tenant : i \notin index[t]
  /\ \A d \in Client \ {c} : pc[d] # "idle" => req[d].id # i
  /\ store[i] = IF pc[c] = "set" THEN Absent ELSE Pending(req[c])

Holds(p, i) == \E c \in Client : pc[c] = p /\ req[c].id = i

(* As long as nothing failed, the index differs from the pending records   *)
(* by the SADDs and SREMs that are about to be sent.                       *)
FaultFree ==
  /\ late = {}
  /\ \A c \in Client : pc[c] \in {"set", "sadd"} => Unshared(c)
  /\ \A t \in Tenant : \A i \in index[t] : store[i].status = "pending" \/ Holds("srem", i)
  /\ \A t \in Tenant : \A i \in PendingOf(t) : i \in index[t] \/ Holds("sadd", i)

IInv ==
  /\ TypeOK
  /\ \A c \in Client : CallIsSound(c) /\ ListIsSound(c)
  /\ \A m \in late : LateIsSound(m)
  /\ IndexIsOwn
  /\ ToldAreIndexed
  /\ faults = 0 => FaultFree

-----------------------------------------------------------------------------
(* The fields of a create, decide or get (state/store.py 30-60).           *)
LEMMA RequestType ==
  ASSUME NEW r \in Request
  PROVE  /\ r.id \in Id /\ r.tenant \in Tenant /\ r.client \in Client
         /\ r.op \in {"create", "get", "decide"}
         /\ r.op = "decide" => r.verdict \in Verdict
BY DEF Request

(* The fields of any call, a list_pending included (state/store.py 30-60). *)
LEMMA CallType ==
  ASSUME NEW r \in Request \cup ListRequest
  PROVE  /\ r.tenant \in Tenant /\ r.client \in Client /\ r # NoCall
         /\ r.op # "list" => r \in Request /\ r.id \in Id
         /\ r.op = "list" => r \in ListRequest /\ r.id = NoId
BY DEF Request, ListRequest, NoCall

(* A record belongs to a tenant exactly when it exists (schemas of         *)
(* state/store.py 16-27).                                                  *)
LEMMA RowType ==
  ASSUME NEW row \in Row
  PROVE  /\ row.tenant \in Tenant \cup {NoTenant}
         /\ row.status \in {"absent", "pending"} \cup Verdict
         /\ row.tenant \in Tenant <=> row # Absent
         /\ row.status = "absent" <=> row = Absent
         /\ row = [tenant |-> row.tenant, status |-> row.status, by |-> row.by]
BY NullsAreNew DEF Row, Absent

(* What create_pending and decide write (redis.py 46-58, 60-87).           *)
LEMMA WrittenType ==
  ASSUME NEW r \in Request
  PROVE  /\ Pending(r) \in Row /\ Pending(r).tenant = r.tenant
         /\ Pending(r) # Absent /\ Pending(r).status = "pending"
         /\ r.op = "decide" =>
              /\ Decided(r) \in Row /\ Decided(r).tenant = r.tenant
              /\ Decided(r) # Absent /\ Decided(r).status \in Verdict
              /\ Decided(r).status # "pending"
BY RequestType, NullsAreNew DEF Pending, Decided, Row, Absent

(* Two fields of a record set by the script (redis.py 18-37).              *)
SetFields(f, i, v, w) == [f EXCEPT ![i].status = v, ![i].by = w]
SetRow(f, i, row)     == [f EXCEPT ![i] = row]

(* Setting status and reviewer replaces the record (redis.py 18-37).       *)
LEMMA TwoFields ==
  ASSUME NEW f, NEW S, f = [j \in S |-> f[j]], NEW i \in S,
         NEW a, NEW b, NEW c, f[i] = [tenant |-> a, status |-> b, by |-> c], NEW v, NEW w
  PROVE  SetFields(f, i, v, w) = SetRow(f, i, [tenant |-> a, status |-> v, by |-> w])
<1> USE DEF SetFields, SetRow
<1> DEFINE g == [f EXCEPT ![i].status = v]
           row == f[i]
<1>1. [row EXCEPT !.status = v] = [tenant |-> a, status |-> v, by |-> c]
  <2>1. row = [tenant |-> a, status |-> b, by |-> c]
    OBVIOUS
  <2> HIDE DEF row
  <2> QED
    BY <2>1
<1>2. g = [f EXCEPT ![i] = [tenant |-> a, status |-> v, by |-> c]]
  BY <1>1
<1> HIDE DEF g, row
<1>3. g[i] = [tenant |-> a, status |-> v, by |-> c] /\ g = [j \in S |-> g[j]]
      /\ \A j \in S \ {i} : g[j] = f[j]
  BY <1>2
<1> DEFINE half == g[i]
<1>4. [half EXCEPT !.by = w] = [tenant |-> a, status |-> v, by |-> w]
  <2>1. half = [tenant |-> a, status |-> v, by |-> c]
    BY <1>3
  <2> HIDE DEF half
  <2> QED
    BY <2>1
<1>5. [g EXCEPT ![i].by = w] = [g EXCEPT ![i] = [tenant |-> a, status |-> v, by |-> w]]
  BY <1>4
<1>6. [g EXCEPT ![i] = [tenant |-> a, status |-> v, by |-> w]]
        = [f EXCEPT ![i] = [tenant |-> a, status |-> v, by |-> w]]
  BY <1>2, <1>3
<1>7. [f EXCEPT ![i].status = v, ![i].by = w] = [g EXCEPT ![i].by = w]
  BY DEF g
<1> QED
  BY <1>5, <1>6, <1>7

(* The script leaves the caller's decision (redis.py 18-37).               *)
LEMMA ScriptDecides ==
  ASSUME TypeOK, NEW r \in Request, r.op = "decide", ScriptApplies(r)
  PROVE  ScriptEffect(r) = [store EXCEPT ![r.id] = Decided(r)]
<1>1. r.id \in Id /\ store = [j \in Id |-> store[j]] /\ store[r.id] \in Row
  BY RequestType DEF TypeOK
<1>2. \E a, b : store[r.id] = [tenant |-> r.tenant, status |-> a, by |-> b]
  <2> DEFINE row == store[r.id]
  <2>1. row = [tenant |-> row.tenant, status |-> row.status, by |-> row.by] /\ row.tenant = r.tenant
    BY <1>1, RowType DEF ScriptApplies
  <2> HIDE DEF row
  <2>2. row = [tenant |-> r.tenant, status |-> row.status, by |-> row.by]
    BY <2>1
  <2> QED
    BY <2>2 DEF row
<1>3. SetFields(store, r.id, r.verdict, r.client)
        = SetRow(store, r.id, [tenant |-> r.tenant, status |-> r.verdict, by |-> r.client])
  BY <1>1, <1>2, TwoFields
<1> QED
  BY <1>3 DEF ScriptEffect, Decided, SetFields, SetRow

-----------------------------------------------------------------------------
(* What any command may do to a record: create it, or decide it.           *)
StoreMovesOn ==
  \A i \in Id :
    \/ store'[i] = store[i]
    \/ store[i] = Absent
    \/ /\ store[i].status = "pending"
       /\ store'[i].tenant = store[i].tenant /\ store'[i].status \in Verdict

Same(d) ==
  /\ pc'[d] = pc[d] /\ req'[d] = req[d] /\ got'[d] = got[d]
  /\ todo'[d] = todo[d] /\ found'[d] = found[d] /\ owed'[d] = owed[d]

(* SET creates a record that is absent and the script decides one that is  *)
(* pending, now or late (redis.py 18-37, 52-55, 67-75).                    *)
LEMMA WritesMoveOn ==
  ASSUME TypeOK, NEW r \in Request,
         \/ SetApplies(r) /\ store' = SetEffect(r)
         \/ r.op = "decide" /\ ScriptApplies(r) /\ store' = ScriptEffect(r)
  PROVE  /\ StoreMovesOn /\ store' \in [Id -> Row]
         /\ store'[r.id].tenant = r.tenant /\ store'[r.id] # Absent
         /\ \A j \in Id \ {r.id} : store'[j] = store[j]
<1>1. r.id \in Id /\ r.tenant \in Tenant /\ store \in [Id -> Row]
  BY RequestType DEF TypeOK
<1>2. CASE SetApplies(r) /\ store' = SetEffect(r)
  <2>1. store' = [store EXCEPT ![r.id] = Pending(r)] /\ store[r.id] = Absent
    BY <1>2 DEF SetEffect, SetApplies
  <2> QED
    BY <1>1, <2>1, WrittenType DEF StoreMovesOn
<1>3. CASE r.op = "decide" /\ ScriptApplies(r) /\ store' = ScriptEffect(r)
  <2>1. store' = [store EXCEPT ![r.id] = Decided(r)]
    BY <1>3, ScriptDecides
  <2>2. store[r.id].status = "pending" /\ store[r.id].tenant = r.tenant
    BY <1>3 DEF ScriptApplies
  <2> QED
    BY <1>1, <1>3, <2>1, <2>2, WrittenType DEF StoreMovesOn
<1> QED
  BY <1>2, <1>3

(* A record keeps its tenant, and a decided one never changes again        *)
(* (redis.py 26-29).                                                       *)
LEMMA RecordsStay ==
  ASSUME TypeOK, StoreMovesOn, NEW i \in Id, store[i] # Absent
  PROVE  /\ store'[i].tenant = store[i].tenant /\ store'[i] # Absent
         /\ store'[i].status = "pending" => store[i].status = "pending"
         /\ store[i].status # "pending" => store'[i] = store[i]
<1>1. store[i] \in Row
  BY DEF TypeOK
<1>2. store'[i] # Absent
  BY <1>1, RowType, NullsAreNew DEF StoreMovesOn, Absent
<1> QED
  BY <1>1, <1>2, RowType, NullsAreNew DEF StoreMovesOn

(* What a process may count on is not disturbed by another's command.      *)
LEMMA OthersKeep ==
  ASSUME TypeOK, StoreMovesOn, ToldAreIndexed, known \subseteq known',
         NEW d \in Client, CallIsSound(d), ListIsSound(d), Same(d)
  PROVE  CallIsSound(d)' /\ ListIsSound(d)'
<1> USE DEF Same
<1>1. CASE pc[d] = "idle"
  BY <1>1 DEF CallIsSound, ListIsSound
<1>2. CASE pc[d] # "idle"
  <2> PICK r \in Request \cup ListRequest : r = req[d] /\ r.client = d /\ r.op \in OpOf(pc[d])
    BY <1>2 DEF CallIsSound
  <2>1. r.tenant \in Tenant /\ (r.op # "list" => r \in Request /\ r.id \in Id)
    BY CallType
  <2>2. pc[d] = "sadd" => store'[r.id].tenant = r.tenant
    <3> SUFFICES ASSUME pc[d] = "sadd" PROVE store'[r.id].tenant = r.tenant
      OBVIOUS
    <3>1. store[r.id].tenant = r.tenant /\ r.id \in Id
      BY <1>2, <2>1 DEF CallIsSound, OpOf
    <3>2. store[r.id] # Absent
      BY <2>1, <3>1, NullsAreNew DEF Absent
    <3> QED
      BY <3>1, <3>2, RecordsStay
  <2>3. pc[d] = "srem" => store'[r.id] = Decided(r) /\ got'[d] = Decided(r)
    <3> SUFFICES ASSUME pc[d] = "srem" PROVE store'[r.id] = Decided(r) /\ got'[d] = Decided(r)
      OBVIOUS
    <3>1. store[r.id] = Decided(r) /\ got[d] = Decided(r) /\ r.op = "decide"
      BY <1>2 DEF CallIsSound, OpOf
    <3>2. Decided(r) # Absent /\ Decided(r).status # "pending" /\ r.id \in Id
      BY <2>1, <3>1, WrittenType
    <3> QED
      BY <3>1, <3>2, RecordsStay
  <2>4. CallIsSound(d)'
    BY <1>2, <2>2, <2>3 DEF CallIsSound
  <2>5. ASSUME NEW i \in todo[d] \cup found[d] PROVE store'[i].tenant = r.tenant
    <3>1. i \in Id /\ store[i].tenant = r.tenant
      BY <1>2 DEF ListIsSound, TypeOK
    <3>2. store[i] # Absent
      BY <2>1, <3>1, NullsAreNew DEF Absent
    <3> QED
      BY <3>1, <3>2, RecordsStay
  <2>6. ASSUME NEW i \in owed[d], i \in PendingOf(r.tenant)' PROVE i \in PendingOf(r.tenant)
    <3>1. i \in known /\ i \in Id
      BY <1>2 DEF ListIsSound, TypeOK
    <3>2. store[i] # Absent
      BY <3>1 DEF ToldAreIndexed, Told
    <3> QED
      BY <2>6, <3>1, <3>2, RecordsStay DEF PendingOf
  <2>7. /\ owed[d] \subseteq known /\ (r.op # "list" => todo[d] = {} /\ found[d] = {} /\ owed[d] = {})
        /\ pc[d] = "fetch" => owed[d] \cap PendingOf(r.tenant) \subseteq todo[d] \cup found[d]
        /\ pc[d] = "ok" => owed[d] \cap PendingOf(r.tenant) \subseteq found[d]
    BY <1>2 DEF ListIsSound
  <2>8. ListIsSound(d)'
    BY <1>2, <2>5, <2>6, <2>7 DEF ListIsSound
  <2> QED
    BY <2>4, <2>8
<1> QED
  BY <1>1, <1>2

(* Nor is what a command left behind was sent for.                         *)
LEMMA LateKeeps ==
  ASSUME TypeOK, StoreMovesOn, NEW m \in Sent, LateIsSound(m)
  PROVE  LateIsSound(m)'
<1>1. m.request \in Request /\ m.request.id \in Id /\ m.request.tenant \in Tenant
  <2>1. m.request \in Request
    BY DEF Sent
  <2> QED
    BY <2>1, RequestType
<1>2. ASSUME m.command = "sadd" PROVE store'[m.request.id].tenant = m.request.tenant
  <2>1. store[m.request.id].tenant = m.request.tenant
    BY <1>2 DEF LateIsSound
  <2>2. store[m.request.id] # Absent
    BY <1>1, <2>1, NullsAreNew DEF Absent
  <2> QED
    BY <1>1, <2>1, <2>2, RecordsStay
<1>3. ASSUME m.command = "srem" PROVE store'[m.request.id] = Decided(m.request)
  <2>1. store[m.request.id] = Decided(m.request) /\ m.request.op = "decide"
    BY <1>3 DEF LateIsSound, OpOf
  <2>2. Decided(m.request) # Absent /\ Decided(m.request).status # "pending"
    BY <1>1, <2>1, WrittenType
  <2> QED
    BY <1>1, <2>1, <2>2, RecordsStay
<1> QED
  BY <1>2, <1>3 DEF LateIsSound

-----------------------------------------------------------------------------
(* An index keeps to its tenant if what SADD adds does (redis.py 41-43).   *)
LEMMA IndexKeeps ==
  ASSUME TypeOK, IndexIsOwn, StoreMovesOn, index' \in [Tenant -> SUBSET Id],
         \A t \in Tenant : \A i \in index'[t] : i \in index[t] \/ store'[i].tenant = t
  PROVE  IndexIsOwn'
<1> SUFFICES ASSUME NEW t \in Tenant, NEW i \in index'[t] PROVE store'[i].tenant = t
  BY DEF IndexIsOwn
<1>1. CASE i \in index[t]
  <2>1. i \in Id /\ store[i].tenant = t
    BY <1>1 DEF IndexIsOwn, TypeOK
  <2>2. store[i] # Absent
    BY <2>1, NullsAreNew DEF Absent
  <2> QED
    BY <2>1, <2>2, RecordsStay
<1> QED
  BY <1>1

(* An indexed id is that of a record, in the index of its tenant.          *)
LEMMA IndexedExist ==
  ASSUME TypeOK, IndexIsOwn, NEW t \in Tenant, NEW i \in index[t]
  PROVE  i \in Id /\ store[i] # Absent /\ i \in index[store[i].tenant]
<1>1. i \in Id /\ store[i].tenant = t
  BY DEF TypeOK, IndexIsOwn
<1> QED
  BY <1>1, NullsAreNew DEF Absent

(* The ids that were handed out stay indexed until they are decided, and   *)
(* SMEMBERS only adds indexed ones (redis.py 57, 85, 97).                  *)
LEMMA ToldKeep ==
  ASSUME TypeOK, IndexIsOwn, ToldAreIndexed, StoreMovesOn, index' \in [Tenant -> SUBSET Id],
         NEW New,
         \A i \in Id : Told(i)' => Told(i) \/ i \in New \/ \E t \in Tenant : i \in index[t],
         \A i \in Id : i \in New => store'[i] # Absent /\ i \in index'[store'[i].tenant],
         \A t \in Tenant : \A i \in index[t] : i \in index'[t] \/ store'[i].status # "pending"
  PROVE  ToldAreIndexed'
<1> SUFFICES ASSUME NEW i \in Id, Told(i)'
             PROVE  /\ store'[i] # Absent
                    /\ store'[i].status = "pending" => i \in index'[store'[i].tenant]
  BY DEF ToldAreIndexed
<1>1. CASE i \in New
  BY <1>1
<1>2. CASE i \notin New
  <2>1. store[i] # Absent /\ (store[i].status = "pending" => i \in index[store[i].tenant])
    <3>1. CASE Told(i)
      BY <3>1 DEF ToldAreIndexed
    <3>2. CASE \E t \in Tenant : i \in index[t]
      BY <3>2, IndexedExist
    <3> QED
      BY <1>2, <3>1, <3>2
  <2>2. /\ store'[i].tenant = store[i].tenant /\ store'[i] # Absent
        /\ store'[i].status = "pending" => store[i].status = "pending"
    BY <2>1, RecordsStay
  <2>3. store[i].tenant \in Tenant
    BY <2>1, RowType DEF TypeOK
  <2> QED
    BY <2>1, <2>2, <2>3
<1> QED
  BY <1>1, <1>2

(* The id of another's create stays unshared by a step that neither        *)
(* writes, indexes nor hands out that id.                                  *)
LEMMA UnsharedKeeps ==
  ASSUME NEW c \in Client, NEW d \in Client \ {c}, Unshared(d), NEW i, req[d].id = i,
         \A e \in Client \ {c} : pc'[e] = pc[e] /\ req'[e] = req[e],
         store'[i] = store[i], ~ Told(i)', \A t \in Tenant : i \notin index'[t],
         pc'[c] # "idle" => req'[c].id # i
  PROVE  Unshared(d)'
<1>1. pc'[d] = pc[d] /\ req'[d] = req[d]
  OBVIOUS
<1>2. \A e \in Client \ {d} : pc'[e] # "idle" => req'[e].id # i
  BY DEF Unshared
<1>3. store'[i] = IF pc'[d] = "set" THEN Absent ELSE Pending(req'[d])
  BY <1>1 DEF Unshared
<1> QED
  BY <1>1, <1>2, <1>3 DEF Unshared, Told

(* A step that sends no write, SADD or SREM and times out nothing only has *)
(* to be good for its own call.                                            *)
LEMMA QuietIInv ==
  ASSUME IInv, TypeOK', NEW c \in Client,
         pc[c] \notin {"sadd", "srem"}, pc'[c] \notin {"sadd", "srem"},
         \A d \in Client \ {c} : Same(d),
         CallIsSound(c)', ListIsSound(c)', UNCHANGED <<store, index, late, faults>>,
         known \subseteq known',
         \A i \in Id : i \in known' \/ i \in todo'[c] => Told(i) \/ \E t \in Tenant : i \in index[t],
         pc'[c] = "set" => Unshared(c)',
         \A d \in Client \ {c} : pc[d] \in {"set", "sadd"} /\ Unshared(d) /\ pc'[c] # "idle"
                                   => req'[c].id # req[d].id
  PROVE  IInv'
<1>0. /\ TypeOK /\ IndexIsOwn /\ ToldAreIndexed
      /\ \A d \in Client : CallIsSound(d) /\ ListIsSound(d)
      /\ \A m \in late : LateIsSound(m)
      /\ faults = 0 => FaultFree
  BY DEF IInv
<1>1. StoreMovesOn
  BY DEF StoreMovesOn
<1>2. \A d \in Client : CallIsSound(d)' /\ ListIsSound(d)'
  BY <1>0, <1>1, OthersKeep
<1>3. \A m \in late' : LateIsSound(m)'
  BY <1>0, <1>1, LateKeeps DEF TypeOK
<1>4. IndexIsOwn'
  BY <1>0 DEF IndexIsOwn
<1>5. \A i \in Id : Told(i)' => Told(i) \/ \E t \in Tenant : i \in index[t]
  BY DEF Told, Same
<1>6. ToldAreIndexed'
  <2> PICK none : none = {}
    OBVIOUS
  <2>1. /\ \A i \in Id : Told(i)' => Told(i) \/ i \in none \/ \E t \in Tenant : i \in index[t]
        /\ \A t \in Tenant : \A i \in index[t] : i \in index'[t] \/ store'[i].status # "pending"
        /\ \A i \in Id : i \in none => store'[i] # Absent /\ i \in index'[store'[i].tenant]
        /\ index' \in [Tenant -> SUBSET Id]
    BY <1>0, <1>5 DEF TypeOK
  <2> QED
    BY <1>0, <1>1, <2>1, ToldKeep
<1>7. ASSUME faults' = 0 PROVE FaultFree'
  <2>0. FaultFree
    BY <1>0, <1>7
  <2>1. ASSUME NEW d \in Client, pc'[d] \in {"set", "sadd"} PROVE Unshared(d)'
    <3>1. CASE d = c
      BY <2>1, <3>1
    <3>2. CASE d # c
      <4>1. pc[d] \in {"set", "sadd"} /\ Unshared(d)
        BY <2>0, <2>1, <3>2 DEF FaultFree, Same
      <4>2. PICK i \in Id : i = req[d].id
        <5>1. pc[d] # "idle" /\ req[d] \in Request \cup ListRequest /\ req[d].op # "list"
          BY <1>0, <4>1 DEF CallIsSound, OpOf
        <5> QED
          BY <5>1, CallType
      <4>3. ~ Told(i)' /\ (\A t \in Tenant : i \notin index'[t]) /\ store'[i] = store[i]
        <5>1. ~ Told(i) /\ \A t \in Tenant : i \notin index[t]
          BY <4>1, <4>2 DEF Unshared
        <5> QED
          BY <1>5, <5>1
      <4>4. \A e \in Client \ {c} : pc'[e] = pc[e] /\ req'[e] = req[e]
        BY DEF Same
      <4>5. pc'[c] # "idle" => req'[c].id # i
        BY <3>2, <4>1, <4>2
      <4> QED
        BY <3>2, <4>1, <4>2, <4>3, <4>4, <4>5, UnsharedKeeps
    <3> QED
      BY <3>1, <3>2
  <2>2. ASSUME NEW i, NEW p \in {"sadd", "srem"}, Holds(p, i) PROVE Holds(p, i)'
    <3> PICK d \in Client : pc[d] = p /\ req[d].id = i
      BY <2>2 DEF Holds
    <3>1. CASE d = c
      BY <1>0, <3>1, <2>0
    <3>2. CASE d # c
      BY <3>2 DEF Holds, Same
    <3> QED
      BY <3>1, <3>2
  <2>3. \A t \in Tenant : \A i \in index'[t] : store'[i].status = "pending" \/ Holds("srem", i)'
    BY <2>0, <2>2 DEF FaultFree
  <2>4. \A t \in Tenant : \A i \in PendingOf(t)' : i \in index'[t] \/ Holds("sadd", i)'
    BY <2>0, <2>2 DEF FaultFree, PendingOf
  <2> QED
    BY <2>0, <2>1, <2>3, <2>4 DEF FaultFree
<1> QED
  BY <1>2, <1>3, <1>4, <1>6, <1>7 DEF IInv

-----------------------------------------------------------------------------
(* Only a list_pending owes its caller anything.                           *)
OwesFor(c, op, t) ==
  \/ owed' = owed
  \/ op = "list" /\ owed' = [owed EXCEPT ![c] = known \cap PendingOf(t)]

(* A call begins, with an id it may know (redis.py 46-104).                *)
LEMMA BeginIInv ==
  ASSUME IInv, NEW c \in Client, NEW i, NEW t \in Tenant, NEW op, NEW v, NEW first,
         [op |-> op, id |-> i, tenant |-> t, verdict |-> v, client |-> c] \in Request \cup ListRequest,
         first \in {"set", "eval", "get", "smembers"}, op \in OpOf(first),
         op # "list" => Askable(i),
         first = "set" => Fresh(i),
         Begin(c, op, i, t, v, first), OwesFor(c, op, t)
  PROVE  IInv'
<1> DEFINE r == [op |-> op, id |-> i, tenant |-> t, verdict |-> v, client |-> c]
<1>0. /\ r \in Request \cup ListRequest /\ r.id = i /\ r.op = op /\ r.tenant = t /\ r.client = c
      /\ op # "list" => i \in Id
      /\ op = "list" => i = NoId
  <2>1. r \in Request \cup ListRequest /\ r.id = i /\ r.op = op /\ r.tenant = t /\ r.client = c
    OBVIOUS
  <2> HIDE DEF r
  <2> QED
    BY <2>1, CallType
<1>1. /\ pc[c] = "idle" /\ req' = [req EXCEPT ![c] = r] /\ pc' = [pc EXCEPT ![c] = first]
      /\ UNCHANGED <<store, index, gauge, got, todo, found, late, faults, known>>
  BY DEF Begin, Goto
<1> HIDE DEF r
<1>2. /\ TypeOK /\ IndexIsOwn /\ ToldAreIndexed /\ CallIsSound(c) /\ ListIsSound(c)
      /\ \A d \in Client : CallIsSound(d)
  BY DEF IInv
<1>3. /\ pc'[c] = first /\ req'[c] = r /\ todo'[c] = {} /\ found'[c] = {}
      /\ owed'[c] = {} \/ (op = "list" /\ owed'[c] = known \cap PendingOf(t))
      /\ \A d \in Client \ {c} : Same(d)
  BY <1>1, <1>2 DEF TypeOK, Same, ListIsSound, OwesFor
<1>4. TypeOK'
  <2>1. owed' \in [Client -> SUBSET Id]
    <3>1. known \cap PendingOf(t) \in SUBSET Id /\ owed \in [Client -> SUBSET Id]
      BY <1>2 DEF TypeOK
    <3> QED
      BY <3>1 DEF OwesFor
  <2>2. pc' \in [Client -> {"idle"} \cup Command \cup Outcome]
    BY <1>1, <1>2 DEF TypeOK, Command
  <2>3. req' \in [Client -> Request \cup ListRequest \cup {NoCall}]
    BY <1>0, <1>1, <1>2 DEF TypeOK
  <2> QED
    BY <1>1, <1>2, <2>1, <2>2, <2>3 DEF TypeOK
<1>5. CallIsSound(c)'
  BY <1>0, <1>3 DEF CallIsSound
<1>6. ListIsSound(c)'
  BY <1>0, <1>1, <1>3 DEF ListIsSound, OpOf
<1>7. \A j \in Id : j \in known' \/ j \in todo'[c] => Told(j) \/ \E u \in Tenant : j \in index[u]
  BY <1>1, <1>3 DEF Told
<1>8. ASSUME first = "set" PROVE Unshared(c)'
  <2>1. store[i] = Absent /\ (\A d \in Client : pc[d] # "idle" => req[d].id # i) /\ i \in Id
    BY <1>0, <1>8 DEF Fresh, OpOf
  <2>2. ~ Told(i) /\ \A u \in Tenant : i \notin index[u]
    BY <1>2, <2>1, IndexedExist DEF ToldAreIndexed
  <2>3. ~ Told(i)'
    BY <1>1, <2>2 DEF Told
  <2> QED
    BY <1>0, <1>1, <1>3, <1>8, <2>1, <2>2, <2>3 DEF Unshared, Same, Told
<1>9. ASSUME NEW d \in Client \ {c}, pc[d] \in {"set", "sadd"}, Unshared(d)
      PROVE  req'[c].id # req[d].id
  <2>1. req[d].id \in Id
    <3>1. pc[d] # "idle" /\ req[d] \in Request \cup ListRequest /\ req[d].op # "list"
      BY <1>2, <1>9 DEF CallIsSound, OpOf
    <3> QED
      BY <3>1, CallType
  <2>2. CASE op = "list"
    BY <1>0, <1>3, <2>1, <2>2, NullsAreNew
  <2>3. CASE op # "list"
    <3>1. CASE i \in known
      BY <1>0, <1>3, <1>9, <3>1 DEF Unshared, Told
    <3>2. CASE Fresh(i)
      BY <1>0, <1>3, <1>9, <3>2 DEF Fresh
    <3> QED
      BY <2>3, <3>1, <3>2 DEF Askable
  <2> QED
    BY <2>2, <2>3
<1> QED
  BY <1>1, <1>3, <1>4, <1>5, <1>6, <1>7, <1>8, <1>9, QuietIInv

(* Whichever method is called (redis.py 46-104).                           *)
LEMMA CallIInv ==
  ASSUME IInv, NEW c \in Client, Call(c)
  PROVE  IInv'
<1>1. ASSUME NEW i \in Id, NEW t \in Tenant, create_pending(c, i, t) PROVE IInv'
  <2>1. [op |-> "create", id |-> i, tenant |-> t, verdict |-> "none", client |-> c]
          \in Request \cup ListRequest
    BY DEF Request
  <2> QED
    BY <1>1, <2>1, BeginIInv DEF create_pending, OpOf, Askable, OwesFor
<1>2. ASSUME NEW i \in Id, NEW t \in Tenant, get(c, i, t) PROVE IInv'
  <2>1. [op |-> "get", id |-> i, tenant |-> t, verdict |-> "none", client |-> c]
          \in Request \cup ListRequest
    BY DEF Request
  <2> QED
    BY <1>2, <2>1, BeginIInv DEF get, OpOf, OwesFor
<1>3. ASSUME NEW i \in Id, NEW t \in Tenant, NEW v \in Verdict, decide(c, i, t, v) PROVE IInv'
  <2>1. [op |-> "decide", id |-> i, tenant |-> t, verdict |-> v, client |-> c]
          \in Request \cup ListRequest
    BY DEF Request
  <2> QED
    BY <1>3, <2>1, BeginIInv DEF decide, OpOf, OwesFor
<1>4. ASSUME NEW t \in Tenant, list_pending(c, t) PROVE IInv'
  <2> PICK op, first, v : op = "list" /\ first = "smembers" /\ v = "none"
    OBVIOUS
  <2>1. [op |-> op, id |-> NoId, tenant |-> t, verdict |-> v, client |-> c]
          \in Request \cup ListRequest
    BY DEF ListRequest
  <2>2. /\ Begin(c, op, NoId, t, v, first)
        /\ OwesFor(c, op, t)
    BY <1>4 DEF list_pending, OwesFor
  <2>3. op \in OpOf(first)
    BY DEF OpOf
  <2> QED
    BY <2>1, <2>2, <2>3, BeginIInv
<1> QED
  BY <1>1, <1>2, <1>3, <1>4 DEF Call

(* A call in progress: what its caller may count on.                       *)
LEMMA CallFacts ==
  ASSUME IInv, NEW c \in Client, pc[c] # "idle"
  PROVE  /\ TypeOK /\ req[c] \in Request \cup ListRequest /\ req[c].client = c
         /\ req[c].op \in OpOf(pc[c]) /\ req[c].tenant \in Tenant
         /\ req[c].op # "list" => req[c] \in Request /\ req[c].id \in Id
         /\ pc[c] = "sadd" => store[req[c].id].tenant = req[c].tenant
         /\ pc[c] = "srem" => store[req[c].id] = Decided(req[c]) /\ got[c] = Decided(req[c])
BY CallType DEF IInv, CallIsSound

(* get reads the record once (redis.py 89-94).                             *)
LEMMA GetIInv ==
  ASSUME IInv, NEW c \in Client, SendGet(c)
  PROVE  IInv'
<1> PICK r : r = req[c]
  OBVIOUS
<1>1. /\ pc[c] = "get" /\ r.op = "get" /\ TypeOK /\ r \in Request /\ r.client = c /\ r.id \in Id
      /\ UNCHANGED <<store, index, gauge, req, todo, found, late, faults, known, owed>>
  BY CallFacts DEF SendGet, OpOf
<1> PICK next \in {"ok", "none"} : pc' = [pc EXCEPT ![c] = next]
  BY DEF SendGet, Goto
<1>2. got' = got \/ got' = [got EXCEPT ![c] = store[r.id]]
  BY DEF SendGet
<1>3. /\ pc'[c] = next /\ req'[c] = r /\ todo'[c] = {} /\ found'[c] = {} /\ owed'[c] = {}
      /\ \A d \in Client \ {c} : Same(d)
  BY <1>1, <1>2 DEF TypeOK, Same, IInv, ListIsSound
<1>4. TypeOK'
  BY <1>1, <1>2 DEF TypeOK, Outcome
<1>5. CallIsSound(c)' /\ ListIsSound(c)'
  BY <1>1, <1>3 DEF CallIsSound, ListIsSound, OpOf
<1>6. /\ \A j \in Id : j \in known' \/ j \in todo'[c] => Told(j) \/ \E u \in Tenant : j \in index[u]
      /\ \A d \in Client \ {c} : Unshared(d) => req'[c].id # req[d].id
  BY <1>1, <1>3 DEF Told, Unshared
<1> QED
  BY <1>1, <1>3, <1>4, <1>5, <1>6, QuietIInv

(* SMEMBERS gives list_pending all it owes (redis.py 96-98).               *)
LEMMA SmembersIInv ==
  ASSUME IInv, NEW c \in Client, SendSmembers(c)
  PROVE  IInv'
<1> PICK r : r = req[c]
  OBVIOUS
<1>0. TypeOK /\ ToldAreIndexed /\ ListIsSound(c) /\ IndexIsOwn
  BY DEF IInv
<1>1. /\ pc[c] = "smembers" /\ r.op = "list" /\ r \in ListRequest /\ r.client = c /\ r.tenant \in Tenant
      /\ todo' = [todo EXCEPT ![c] = index[r.tenant]] /\ pc' = [pc EXCEPT ![c] = "fetch"]
      /\ UNCHANGED <<store, index, gauge, req, got, found, late, faults, known, owed>>
  BY CallFacts, CallType DEF SendSmembers, Goto, OpOf
<1>2. /\ pc'[c] = "fetch" /\ req'[c] = r /\ todo'[c] = index[r.tenant]
      /\ \A d \in Client \ {c} : Same(d)
  BY <1>0, <1>1 DEF TypeOK, Same
<1>3. TypeOK'
  BY <1>0, <1>1 DEF TypeOK, Command
<1>4. CallIsSound(c)'
  BY <1>1, <1>2 DEF CallIsSound, OpOf
<1>5. \A i \in owed[c] \cap PendingOf(r.tenant) : i \in index[r.tenant]
  BY <1>0, <1>1 DEF ListIsSound, ToldAreIndexed, Told, PendingOf
<1>6. ListIsSound(c)'
  BY <1>0, <1>1, <1>2, <1>5 DEF ListIsSound, IndexIsOwn, PendingOf
<1>7. \A j \in Id : j \in known' \/ j \in todo'[c] => Told(j) \/ \E u \in Tenant : j \in index[u]
  BY <1>1, <1>2 DEF Told
<1>8. \A d \in Client \ {c} : Unshared(d) => req'[c].id # req[d].id
  BY <1>1, <1>2 DEF Unshared
<1> QED
  BY <1>1, <1>2, <1>3, <1>4, <1>6, <1>7, <1>8, QuietIInv

(* A GET of one listed id hands it out if it is still pending (redis.py    *)
(* 99-104).                                                                *)
LEMMA FetchIInv ==
  ASSUME IInv, NEW c \in Client, Fetch(c)
  PROVE  IInv'
<1> PICK r : r = req[c]
  OBVIOUS
<1>0. TypeOK /\ ListIsSound(c)
  BY DEF IInv
<1>1. /\ pc[c] = "fetch" /\ r.op = "list" /\ r \in ListRequest /\ r.client = c
      /\ UNCHANGED <<store, index, gauge, pc, req, got, late, faults, owed>>
  BY CallFacts, CallType DEF Fetch, OpOf
<1> PICK i \in todo[c] :
      /\ todo' = [todo EXCEPT ![c] = @ \ {i}]
      /\ \/ /\ i \in PendingOf(r.tenant)
            /\ found' = [found EXCEPT ![c] = @ \cup {i}]
            /\ known' = known \cup {i}
         \/ /\ i \notin PendingOf(r.tenant)
            /\ UNCHANGED <<found, known>>
  BY DEF Fetch
<1>2. /\ todo'[c] = todo[c] \ {i} /\ i \in Id /\ i \in found[c] \cup todo[c]
      /\ found'[c] = found[c] \/ found'[c] = found[c] \cup {i}
      /\ known' = known \/ known' = known \cup {i}
      /\ i \in PendingOf(r.tenant) => i \in found'[c]
      /\ \A d \in Client \ {c} : Same(d)
  BY <1>0, <1>1 DEF TypeOK, Same
<1>3. TypeOK'
  BY <1>0, <1>1, <1>2 DEF TypeOK
<1>4. CallIsSound(c)'
  BY <1>1 DEF IInv, CallIsSound
<1>5. ListIsSound(c)'
  <2>1. \A j \in todo'[c] \cup found'[c] : store[j].tenant = r.tenant
    BY <1>0, <1>1, <1>2 DEF ListIsSound
  <2>2. owed[c] \subseteq known' /\ owed[c] \cap PendingOf(r.tenant) \subseteq todo'[c] \cup found'[c]
    BY <1>0, <1>1, <1>2 DEF ListIsSound
  <2> QED
    BY <1>1, <2>1, <2>2 DEF ListIsSound, PendingOf
<1>6. \A j \in Id : j \in known' \/ j \in todo'[c] => Told(j) \/ \E u \in Tenant : j \in index[u]
  BY <1>2 DEF Told
<1>7. \A d \in Client \ {c} : Unshared(d) => req'[c].id # req[d].id
  BY <1>1 DEF Unshared
<1> QED
  BY <1>1, <1>2, <1>3, <1>4, <1>5, <1>6, <1>7, QuietIInv

(* list_pending has read every id (redis.py 104).                          *)
LEMMA ListDoneIInv ==
  ASSUME IInv, NEW c \in Client, ListDone(c)
  PROVE  IInv'
<1>0. TypeOK /\ ListIsSound(c)
  BY DEF IInv
<1>1. /\ pc[c] = "fetch" /\ todo[c] = {} /\ pc' = [pc EXCEPT ![c] = "ok"]
      /\ UNCHANGED <<store, index, gauge, req, got, todo, found, late, faults, known, owed>>
  BY DEF ListDone, Goto
<1>2. pc'[c] = "ok" /\ \A d \in Client \ {c} : Same(d)
  BY <1>0, <1>1 DEF TypeOK, Same
<1>3. TypeOK'
  BY <1>0, <1>1 DEF TypeOK, Outcome
<1>4. CallIsSound(c)'
  BY <1>1, <1>2 DEF IInv, CallIsSound, OpOf
<1>5. ListIsSound(c)'
  BY <1>0, <1>1, <1>2 DEF ListIsSound, PendingOf
<1>6. \A j \in Id : j \in known' \/ j \in todo'[c] => Told(j) \/ \E u \in Tenant : j \in index[u]
  BY <1>1 DEF Told
<1>7. \A d \in Client \ {c} : Unshared(d) => req'[c].id # req[d].id
  BY <1>1 DEF Unshared
<1> QED
  BY <1>1, <1>2, <1>3, <1>4, <1>5, <1>6, <1>7, QuietIInv

(* A method returns or raises.                                             *)
LEMMA ReturnIInv ==
  ASSUME IInv, NEW c \in Client, Return(c)
  PROVE  IInv'
<1>0. TypeOK
  BY DEF IInv
<1>1. /\ pc[c] \in Outcome /\ pc' = [pc EXCEPT ![c] = "idle"]
      /\ req' = [req EXCEPT ![c] = NoCall] /\ got' = [got EXCEPT ![c] = Absent]
      /\ todo' = [todo EXCEPT ![c] = {}] /\ found' = [found EXCEPT ![c] = {}]
      /\ owed' = [owed EXCEPT ![c] = {}]
      /\ UNCHANGED <<store, index, gauge, late, faults, known>>
  BY DEF Return, Goto
<1>2. /\ pc'[c] = "idle" /\ req'[c] = NoCall /\ todo'[c] = {} /\ found'[c] = {} /\ owed'[c] = {}
      /\ \A d \in Client \ {c} : Same(d)
  BY <1>0, <1>1 DEF TypeOK, Same
<1>3. TypeOK'
  BY <1>0, <1>1 DEF TypeOK, Row
<1>4. CallIsSound(c)' /\ ListIsSound(c)'
  BY <1>2 DEF CallIsSound, ListIsSound
<1>5. \A j \in Id : j \in known' \/ j \in todo'[c] => Told(j) \/ \E u \in Tenant : j \in index[u]
  BY <1>1, <1>2 DEF Told
<1>6. pc[c] \notin {"set", "sadd", "srem"} /\ pc'[c] \notin {"sadd", "srem", "set"}
  BY <1>1, <1>2 DEF Outcome
<1> QED
  BY <1>1, <1>2, <1>3, <1>4, <1>5, <1>6, QuietIInv

-----------------------------------------------------------------------------
(* A timeout or a crash leaves behind what its process was entitled to     *)
(* send (redis.py 113-121), and nothing is fault-free any more.            *)
LEMMA FaultIInv ==
  ASSUME IInv, NEW c \in Client, Timeout(c) \/ Crash(c)
  PROVE  IInv'
<1> PICK r : r = req[c]
  OBVIOUS
<1>1. /\ pc[c] \in Command /\ pc[c] # "idle" /\ faults' = faults + 1 /\ faults < MaxFaults
      /\ late' = late \/ late' = late \cup InFlight(c)
      /\ pc' = pc \/ pc' = [pc EXCEPT ![c] = "error"]
      /\ gauge' = gauge \/ gauge' = [gauge EXCEPT ![c] = [t \in Tenant |-> 0]]
      /\ UNCHANGED <<store, index, req, got, todo, found, known, owed>>
  BY DEF Timeout, Crash, Goto, Command
<1>2. /\ TypeOK /\ IndexIsOwn /\ ToldAreIndexed
      /\ CallIsSound(c) /\ ListIsSound(c)
      /\ \A d \in Client : CallIsSound(d) /\ ListIsSound(d)
      /\ \A m \in late : LateIsSound(m)
  BY DEF IInv
<1>3. /\ pc'[c] = pc[c] \/ pc'[c] = "error"
      /\ \A d \in Client \ {c} : Same(d)
  BY <1>1, <1>2 DEF TypeOK, Same
<1>4. ASSUME NEW m \in InFlight(c) PROVE m \in Sent /\ LateIsSound(m)
  <2>1. pc[c] \in {"set", "sadd", "eval", "srem"} /\ m = [command |-> pc[c], request |-> r]
    BY DEF InFlight
  <2>2. r.op \in OpOf(pc[c]) /\ r \in Request \cup ListRequest
    BY <1>1, CallFacts
  <2>3. r \in Request
    BY <2>1, <2>2, CallType DEF OpOf
  <2>4. m.command = pc[c] /\ m.request = r
    BY <2>1
  <2>5. m \in Sent
    BY <2>1, <2>3 DEF Sent
  <2>6. /\ pc[c] = "sadd" => store[r.id].tenant = r.tenant
        /\ pc[c] = "srem" => store[r.id] = Decided(r)
    BY <1>1, CallFacts
  <2> QED
    BY <2>2, <2>4, <2>5, <2>6 DEF LateIsSound
<1>5. TypeOK'
  <2>1. late' \subseteq Sent
    BY <1>1, <1>2, <1>4 DEF TypeOK
  <2>2. faults' \in 0..MaxFaults /\ faults' # 0
    BY <1>1, <1>2, FaultsAreBounded DEF TypeOK
  <2>3. gauge' \in [Client -> [Tenant -> Int]]
    BY <1>1, <1>2 DEF TypeOK
  <2>4. pc' \in [Client -> {"idle"} \cup Command \cup Outcome]
    BY <1>1, <1>2 DEF TypeOK, Outcome
  <2> QED
    BY <1>1, <1>2, <2>1, <2>2, <2>3, <2>4 DEF TypeOK
<1>6. StoreMovesOn
  BY <1>1 DEF StoreMovesOn
<1>7. ASSUME NEW d \in Client PROVE CallIsSound(d)' /\ ListIsSound(d)'
  <2>1. CASE d # c
    BY <1>1, <1>2, <1>3, <1>6, <2>1, OthersKeep
  <2>2. CASE d = c
    <3>1. CallIsSound(c)'
      BY <1>1, <1>2, <1>3 DEF CallIsSound, OpOf
    <3>2. ListIsSound(c)'
      BY <1>1, <1>2, <1>3 DEF ListIsSound, PendingOf
    <3> QED
      BY <2>2, <3>1, <3>2
  <2> QED
    BY <2>1, <2>2
<1>8. ASSUME NEW m \in late' PROVE LateIsSound(m)'
  <2>1. m \in Sent /\ LateIsSound(m)
    BY <1>1, <1>2, <1>4 DEF TypeOK
  <2> QED
    BY <1>2, <1>6, <2>1, LateKeeps
<1>9. IndexIsOwn' /\ ToldAreIndexed'
  BY <1>1, <1>2 DEF IndexIsOwn, ToldAreIndexed, Told
<1>10. faults' # 0
  BY <1>1, <1>2, FaultsAreBounded DEF TypeOK
<1> QED
  BY <1>5, <1>7, <1>8, <1>9, <1>10 DEF IInv

-----------------------------------------------------------------------------
(* While nothing failed, ids of other creates are not the caller's: what   *)
(* it does with its own leaves them unshared.                              *)
LEMMA OthersUnshared ==
  ASSUME IInv, FaultFree, NEW c \in Client, pc[c] # "idle", req' = req,
         \A d \in Client \ {c} : Same(d), NEW i, i = req[c].id,
         \A j \in Id \ {i} : /\ store'[j] = store[j]
                             /\ Told(j)' => Told(j)
                             /\ \A t \in Tenant : j \in index'[t] => j \in index[t]
  PROVE  \A d \in Client \ {c} : pc'[d] \in {"set", "sadd"} => Unshared(d)'
<1> SUFFICES ASSUME NEW d \in Client \ {c}, pc'[d] \in {"set", "sadd"} PROVE Unshared(d)'
  OBVIOUS
<1>1. pc[d] \in {"set", "sadd"} /\ Unshared(d)
  BY DEF Same, FaultFree
<1>2. PICK j \in Id : j = req[d].id
  <2>1. pc[d] # "idle" /\ req[d] \in Request \cup ListRequest /\ req[d].op # "list"
    BY <1>1 DEF IInv, CallIsSound, OpOf
  <2> QED
    BY <2>1, CallType
<1>3. j # i
  BY <1>1, <1>2 DEF Unshared
<1>4. ~ Told(j) /\ \A t \in Tenant : j \notin index[t]
  BY <1>1, <1>2 DEF Unshared
<1>5. store'[j] = store[j] /\ ~ Told(j)' /\ \A t \in Tenant : j \notin index'[t]
  BY <1>2, <1>3, <1>4
<1>6. \A e \in Client \ {c} : pc'[e] = pc[e] /\ req'[e] = req[e]
  BY DEF Same
<1>7. pc'[c] # "idle" => req'[c].id # j
  BY <1>3
<1> QED
  BY <1>1, <1>2, <1>5, <1>6, <1>7, UnsharedKeeps

(* Who is about to send an SADD or SREM is still about to, but the caller. *)
LEMMA OthersHold ==
  ASSUME NEW c \in Client, \A d \in Client \ {c} : Same(d), NEW p, NEW i, Holds(p, i)
  PROVE  Holds(p, i)' \/ (pc[c] = p /\ req[c].id = i)
BY DEF Holds, Same

(* SET NX or the script takes effect: its caller goes on to the index      *)
(* (redis.py 52-57, 67-85).                                                *)
LEMMA WriteIInv ==
  ASSUME IInv, NEW c \in Client, NEW r \in Request, r = req[c], r.client = c, NEW next,
         pc' = [pc EXCEPT ![c] = next],
         \/ /\ pc[c] = "set" /\ next = "sadd" /\ SetApplies(r) /\ store' = SetEffect(r) /\ got' = got
         \/ /\ pc[c] = "eval" /\ next = "srem" /\ ScriptApplies(r) /\ store' = ScriptEffect(r)
            /\ got' = [got EXCEPT ![c] = store'[r.id]],
         UNCHANGED <<index, gauge, req, todo, found, late, faults, known, owed>>
  PROVE  IInv'
<1> PICK i \in Id : i = r.id
  BY RequestType
<1>0. /\ TypeOK /\ IndexIsOwn /\ ToldAreIndexed /\ ListIsSound(c)
      /\ \A d \in Client : CallIsSound(d) /\ ListIsSound(d)
      /\ \A m \in late : LateIsSound(m)
      /\ faults = 0 => FaultFree
  BY DEF IInv
<1>1. r.op \in OpOf(pc[c]) /\ r.tenant \in Tenant /\ pc[c] # "idle"
  BY CallFacts
<1>2. /\ StoreMovesOn /\ store' \in [Id -> Row]
      /\ store'[i].tenant = r.tenant /\ store'[i] # Absent
      /\ \A j \in Id \ {i} : store'[j] = store[j]
  BY <1>0, <1>1, WritesMoveOn DEF OpOf
<1>3. TypeOK'
  BY <1>0, <1>2 DEF TypeOK, Command
<1>4. /\ pc'[c] = next /\ req'[c] = r /\ todo'[c] = {} /\ found'[c] = {} /\ owed'[c] = {}
      /\ got' = got \/ got'[c] = store'[i]
      /\ \A d \in Client \ {c} : Same(d)
  BY <1>0, <1>1 DEF TypeOK, Same, ListIsSound, OpOf
<1>5. /\ next = "sadd" => store'[i] = Pending(r)
      /\ next = "srem" => store'[i] = Decided(r) /\ got'[c] = Decided(r)
  <2>1. CASE next = "sadd"
    BY <1>0, <2>1 DEF SetEffect, TypeOK
  <2>2. CASE next = "srem"
    <3>1. store' = [store EXCEPT ![i] = Decided(r)]
      BY <1>0, <1>1, <2>2, ScriptDecides DEF OpOf
    <3>2. store'[i] = Decided(r) /\ got' = [got EXCEPT ![c] = store'[i]]
      BY <1>0, <2>2, <3>1 DEF TypeOK
    <3> QED
      BY <1>0, <2>2, <3>2 DEF TypeOK
  <2> QED
    BY <2>1, <2>2
<1>6. CallIsSound(c)' /\ ListIsSound(c)'
  BY <1>1, <1>2, <1>4, <1>5 DEF CallIsSound, ListIsSound, OpOf
<1>7. \A d \in Client : CallIsSound(d)' /\ ListIsSound(d)'
  BY <1>0, <1>2, <1>4, <1>6, OthersKeep
<1>8. \A m \in late' : LateIsSound(m)'
  BY <1>0, <1>2, LateKeeps DEF TypeOK
<1>9. \A j : Told(j)' <=> Told(j)
  BY DEF Told
<1>10. IndexIsOwn' /\ ToldAreIndexed'
  <2> PICK none : none = {}
    OBVIOUS
  <2>1. index' \in [Tenant -> SUBSET Id] /\ \A t \in Tenant : \A j \in index'[t] : j \in index[t]
    BY <1>0 DEF TypeOK
  <2>2. /\ \A j \in Id : Told(j)' => Told(j) \/ j \in none \/ \E t \in Tenant : j \in index[t]
        /\ \A j \in Id : j \in none => store'[j] # Absent /\ j \in index'[store'[j].tenant]
        /\ \A t \in Tenant : \A j \in index[t] : j \in index'[t] \/ store'[j].status # "pending"
    BY <1>9
  <2>3. IndexIsOwn'
    BY <1>0, <1>2, <2>1, IndexKeeps
  <2>4. ToldAreIndexed'
    BY <1>0, <1>2, <2>1, <2>2, ToldKeep
  <2> QED
    BY <2>3, <2>4
<1>11. ASSUME faults' = 0 PROVE FaultFree'
  <2>0. FaultFree
    BY <1>0, <1>11
  <2>1. \A d \in Client \ {c} : pc'[d] \in {"set", "sadd"} => Unshared(d)'
    BY <1>1, <1>2, <1>4, <1>9, <2>0, OthersUnshared
  <2>2. ASSUME next = "sadd" PROVE Unshared(c)'
    <3>1. Unshared(c) /\ pc[c] = "set"
      BY <2>0, <2>2 DEF FaultFree
    <3> QED
      BY <1>4, <1>5, <1>9, <2>2, <3>1 DEF Unshared, Same, Told
  <2>3. ASSUME NEW t \in Tenant, NEW j \in index'[t]
        PROVE  store'[j].status = "pending" \/ Holds("srem", j)'
    <3>1. CASE j = i /\ next = "sadd"
      BY <1>5, <3>1, WrittenType
    <3>2. CASE j = i /\ next = "srem"
      BY <1>4, <3>2 DEF Holds
    <3>3. CASE j # i
      <4>1. j \in Id /\ (store[j].status = "pending" \/ Holds("srem", j))
        BY <1>0, <2>0, <2>3 DEF FaultFree, TypeOK
      <4> QED
        BY <1>2, <1>4, <3>3, <4>1, OthersHold
    <3> QED
      BY <3>1, <3>2, <3>3
  <2>4. ASSUME NEW t \in Tenant, NEW j \in PendingOf(t)'
        PROVE  j \in index'[t] \/ Holds("sadd", j)'
    <3>1. CASE j = i /\ next = "sadd"
      BY <1>4, <3>1 DEF Holds
    <3>2. CASE j = i /\ next = "srem"
      BY <1>1, <1>5, <2>4, <3>2, WrittenType DEF PendingOf, OpOf
    <3>3. CASE j # i
      <4>1. j \in PendingOf(t)
        BY <1>2, <2>4, <3>3 DEF PendingOf
      <4>2. j \in index[t] \/ Holds("sadd", j)
        BY <2>0, <4>1 DEF FaultFree
      <4> QED
        BY <1>4, <3>3, <4>2, OthersHold
    <3> QED
      BY <3>1, <3>2, <3>3
  <2>5. \A d \in Client : pc'[d] \in {"set", "sadd"} => Unshared(d)'
    BY <1>4, <2>1, <2>2
  <2> QED
    BY <2>0, <2>3, <2>4, <2>5 DEF FaultFree
<1> QED
  BY <1>3, <1>7, <1>8, <1>10, <1>11 DEF IInv

(* SET NX, or the "not persisted" of a re-sent one (redis.py 52-56).       *)
LEMMA SetIInv ==
  ASSUME IInv, NEW c \in Client, SendSet(c)
  PROVE  IInv'
<1> PICK r : r = req[c]
  OBVIOUS
<1>1. pc[c] = "set" /\ r \in Request /\ r.client = c /\ r.op = "create"
  BY CallFacts DEF SendSet, OpOf
<1>2. CASE SetApplies(r)
  BY <1>1, <1>2, WriteIInv DEF SendSet, Goto
<1>3. CASE ~ SetApplies(r)
  <2>1. /\ pc' = [pc EXCEPT ![c] = "error"]
        /\ UNCHANGED <<store, index, gauge, req, got, todo, found, late, faults, known, owed>>
    BY <1>3 DEF SendSet, Goto
  <2>2. TypeOK /\ CallIsSound(c) /\ ListIsSound(c)
    BY DEF IInv
  <2>3. pc'[c] = "error" /\ \A d \in Client \ {c} : Same(d)
    BY <2>1, <2>2 DEF TypeOK, Same
  <2>4. TypeOK'
    BY <2>1, <2>2 DEF TypeOK, Outcome
  <2>5. CallIsSound(c)' /\ ListIsSound(c)'
    BY <1>1, <2>1, <2>2, <2>3 DEF CallIsSound, ListIsSound, OpOf
  <2>6. \A j \in Id : j \in known' \/ j \in todo'[c] => Told(j) \/ \E u \in Tenant : j \in index[u]
    BY <2>1 DEF Told
  <2>7. \A d \in Client \ {c} : Unshared(d) => req'[c].id # req[d].id
    BY <1>1, <2>1 DEF Unshared
  <2> QED
    BY <1>1, <2>1, <2>3, <2>4, <2>5, <2>6, <2>7, QuietIInv
<1> QED
  BY <1>2, <1>3

(* The script decides, or answers nil (redis.py 18-37, 67-80).             *)
LEMMA EvalIInv ==
  ASSUME IInv, NEW c \in Client, SendEval(c)
  PROVE  IInv'
<1> PICK r : r = req[c]
  OBVIOUS
<1>1. pc[c] = "eval" /\ r \in Request /\ r.client = c /\ r.op = "decide"
  BY CallFacts DEF SendEval, OpOf
<1>2. CASE ScriptApplies(r)
  BY <1>1, <1>2, WriteIInv DEF SendEval, Goto
<1>3. CASE ~ ScriptApplies(r)
  <2>1. /\ pc' = [pc EXCEPT ![c] = "refused"]
        /\ UNCHANGED <<store, index, gauge, req, got, todo, found, late, faults, known, owed>>
    BY <1>3 DEF SendEval, Goto
  <2>2. TypeOK /\ CallIsSound(c) /\ ListIsSound(c)
    BY DEF IInv
  <2>3. pc'[c] = "refused" /\ \A d \in Client \ {c} : Same(d)
    BY <2>1, <2>2 DEF TypeOK, Same
  <2>4. TypeOK'
    BY <2>1, <2>2 DEF TypeOK, Outcome
  <2>5. CallIsSound(c)' /\ ListIsSound(c)'
    BY <1>1, <2>1, <2>2, <2>3 DEF CallIsSound, ListIsSound, OpOf
  <2>6. \A j \in Id : j \in known' \/ j \in todo'[c] => Told(j) \/ \E u \in Tenant : j \in index[u]
    BY <2>1 DEF Told
  <2>7. \A d \in Client \ {c} : Unshared(d) => req'[c].id # req[d].id
    BY <1>1, <2>1 DEF Unshared
  <2> QED
    BY <1>1, <2>1, <2>3, <2>4, <2>5, <2>6, <2>7, QuietIInv
<1> QED
  BY <1>2, <1>3

-----------------------------------------------------------------------------
(* SADD: the id is indexed before its client is told of it (redis.py       *)
(* 57-58).                                                                 *)
LEMMA SaddIInv ==
  ASSUME IInv, NEW c \in Client, SendSadd(c)
  PROVE  IInv'
<1>1. /\ pc[c] = "sadd" /\ pc[c] # "idle"
      /\ index' = Sadd(req[c]) /\ gauge' = Count(gauge, c, req[c].tenant, 1)
      /\ known' = known \cup {req[c].id} /\ pc' = [pc EXCEPT ![c] = "ok"]
      /\ UNCHANGED <<store, req, got, todo, found, late, faults, owed>>
  BY DEF SendSadd, Goto
<1> PICK r \in Request : r = req[c]
  BY <1>1, CallFacts DEF OpOf
<1> PICK i \in Id : i = r.id
  BY RequestType
<1>0. /\ TypeOK /\ IndexIsOwn /\ ToldAreIndexed /\ ListIsSound(c)
      /\ \A d \in Client : CallIsSound(d) /\ ListIsSound(d)
      /\ \A m \in late : LateIsSound(m)
      /\ faults = 0 => FaultFree
  BY DEF IInv
<1>2. /\ r.op = "create" /\ r.tenant \in Tenant /\ r.client = c
      /\ store[i].tenant = r.tenant /\ store[i] # Absent
  BY <1>1, CallFacts, NullsAreNew DEF OpOf, Absent
<1>3. /\ index' = [index EXCEPT ![r.tenant] = @ \cup {i}] /\ known' = known \cup {i}
      /\ index' \in [Tenant -> SUBSET Id] /\ i \in index'[r.tenant]
      /\ \A t \in Tenant : index[t] \subseteq index'[t]
      /\ \A t \in Tenant : \A j \in index'[t] : j \in index[t] \/ (j = i /\ t = r.tenant)
  BY <1>0, <1>1, <1>2 DEF Sadd, TypeOK
<1>4. TypeOK'
  <2>1. gauge' \in [Client -> [Tenant -> Int]]
    BY <1>0, <1>1, <1>2 DEF TypeOK, Count
  <2> QED
    BY <1>0, <1>1, <1>3, <2>1 DEF TypeOK, Outcome
<1>5. /\ pc'[c] = "ok" /\ req'[c] = r /\ todo'[c] = {} /\ found'[c] = {} /\ owed'[c] = {}
      /\ \A d \in Client \ {c} : Same(d)
  BY <1>0, <1>1, <1>2 DEF TypeOK, Same, ListIsSound
<1>6. StoreMovesOn
  BY <1>1 DEF StoreMovesOn
<1>7. CallIsSound(c)' /\ ListIsSound(c)'
  BY <1>2, <1>5 DEF CallIsSound, ListIsSound, OpOf
<1>8. \A d \in Client : CallIsSound(d)' /\ ListIsSound(d)'
  BY <1>0, <1>3, <1>5, <1>6, <1>7, OthersKeep
<1>9. \A m \in late' : LateIsSound(m)'
  BY <1>0, <1>1, <1>6, LateKeeps DEF TypeOK
<1>10. \A j \in Id : Told(j)' => Told(j) \/ j = i
  BY <1>1, <1>3 DEF Told
<1>11. IndexIsOwn'
  <2>1. \A t \in Tenant : \A j \in index'[t] : j \in index[t] \/ store'[j].tenant = t
    BY <1>1, <1>2, <1>3
  <2> QED
    BY <1>0, <1>3, <1>6, <2>1, IndexKeeps
<1>12. ToldAreIndexed'
  <2> PICK new : new = {i}
    OBVIOUS
  <2>1. /\ \A j \in Id : Told(j)' => Told(j) \/ j \in new \/ \E t \in Tenant : j \in index[t]
        /\ \A j \in Id : j \in new => store'[j] # Absent /\ j \in index'[store'[j].tenant]
        /\ \A t \in Tenant : \A j \in index[t] : j \in index'[t] \/ store'[j].status # "pending"
    BY <1>1, <1>2, <1>3, <1>10
  <2> QED
    BY <1>0, <1>3, <1>6, <2>1, ToldKeep
<1>13. ASSUME faults' = 0 PROVE FaultFree'
  <2>0. FaultFree
    BY <1>0, <1>1, <1>13
  <2>1. \A d \in Client \ {c} : pc'[d] \in {"set", "sadd"} => Unshared(d)'
    BY <1>1, <1>3, <1>5, <1>10, <2>0, OthersUnshared
  <2>2. store[i].status = "pending"
    BY <1>1, <2>0, WrittenType DEF FaultFree, Unshared
  <2>3. ASSUME NEW t \in Tenant, NEW j \in index'[t]
        PROVE  store'[j].status = "pending" \/ Holds("srem", j)'
    <3>1. CASE j = i
      BY <1>1, <2>2, <3>1
    <3>2. CASE j # i
      <4>1. store[j].status = "pending" \/ Holds("srem", j)
        BY <1>3, <2>0, <3>2 DEF FaultFree
      <4> QED
        BY <1>1, <1>5, <4>1, OthersHold
    <3> QED
      BY <3>1, <3>2
  <2>4. ASSUME NEW t \in Tenant, NEW j \in PendingOf(t)'
        PROVE  j \in index'[t] \/ Holds("sadd", j)'
    <3>1. CASE j = i
      BY <1>1, <1>2, <1>3, <2>4, <3>1 DEF PendingOf
    <3>2. CASE j # i
      <4>1. j \in index[t] \/ Holds("sadd", j)
        BY <1>1, <2>0, <2>4 DEF FaultFree, PendingOf
      <4> QED
        BY <1>3, <1>5, <3>2, <4>1, OthersHold
    <3> QED
      BY <3>1, <3>2
  <2>5. \A d \in Client : pc'[d] \in {"set", "sadd"} => Unshared(d)'
    BY <1>5, <2>1
  <2> QED
    BY <1>1, <2>0, <2>3, <2>4, <2>5 DEF FaultFree
<1> QED
  BY <1>4, <1>8, <1>9, <1>11, <1>12, <1>13 DEF IInv

(* SREM: only the id of a record that is decided for good leaves the index *)
(* (redis.py 84-86).                                                       *)
LEMMA SremIInv ==
  ASSUME IInv, NEW c \in Client, SendSrem(c)
  PROVE  IInv'
<1>1. /\ pc[c] = "srem" /\ pc[c] # "idle"
      /\ index' = Srem(req[c]) /\ gauge' = Count(gauge, c, got[c].tenant, -1)
      /\ pc' = [pc EXCEPT ![c] = "ok"]
      /\ UNCHANGED <<store, req, got, todo, found, late, faults, known, owed>>
  BY DEF SendSrem, Goto
<1> PICK r \in Request : r = req[c]
  BY <1>1, CallFacts DEF OpOf
<1> PICK i \in Id : i = r.id
  BY RequestType
<1>0. /\ TypeOK /\ IndexIsOwn /\ ToldAreIndexed /\ ListIsSound(c)
      /\ \A d \in Client : CallIsSound(d) /\ ListIsSound(d)
      /\ \A m \in late : LateIsSound(m)
      /\ faults = 0 => FaultFree
  BY DEF IInv
<1>2. /\ r.op = "decide" /\ r.tenant \in Tenant /\ r.client = c
      /\ store[i].tenant = r.tenant /\ store[i].status # "pending"
      /\ got[c].tenant = r.tenant
  <2>1. r.op = "decide" /\ store[i] = Decided(r) /\ got[c] = Decided(r) /\ r.client = c
    BY <1>1, CallFacts DEF OpOf
  <2> QED
    BY <2>1, WrittenType, RequestType
<1>3. /\ index' = [index EXCEPT ![r.tenant] = @ \ {i}]
      /\ index' \in [Tenant -> SUBSET Id] /\ i \notin index'[r.tenant]
      /\ \A t \in Tenant : index'[t] \subseteq index[t]
      /\ \A t \in Tenant : \A j \in index[t] : j \in index'[t] \/ j = i
  BY <1>0, <1>1, <1>2 DEF Srem, TypeOK
<1>4. TypeOK'
  <2>1. gauge' \in [Client -> [Tenant -> Int]]
    BY <1>0, <1>1, <1>2 DEF TypeOK, Count
  <2> QED
    BY <1>0, <1>1, <1>3, <2>1 DEF TypeOK, Outcome
<1>5. /\ pc'[c] = "ok" /\ req'[c] = r /\ todo'[c] = {} /\ found'[c] = {} /\ owed'[c] = {}
      /\ \A d \in Client \ {c} : Same(d)
  BY <1>0, <1>1, <1>2 DEF TypeOK, Same, ListIsSound
<1>6. StoreMovesOn
  BY <1>1 DEF StoreMovesOn
<1>7. CallIsSound(c)' /\ ListIsSound(c)'
  BY <1>2, <1>5 DEF CallIsSound, ListIsSound, OpOf
<1>8. \A d \in Client : CallIsSound(d)' /\ ListIsSound(d)'
  BY <1>0, <1>1, <1>5, <1>6, <1>7, OthersKeep
<1>9. \A m \in late' : LateIsSound(m)'
  BY <1>0, <1>1, <1>6, LateKeeps DEF TypeOK
<1>10. \A j : Told(j)' <=> Told(j)
  BY <1>1 DEF Told
<1>11. IndexIsOwn'
  BY <1>0, <1>3, <1>6, IndexKeeps
<1>12. ToldAreIndexed'
  <2> PICK none : none = {}
    OBVIOUS
  <2>1. /\ \A j \in Id : Told(j)' => Told(j) \/ j \in none \/ \E t \in Tenant : j \in index[t]
        /\ \A j \in Id : j \in none => store'[j] # Absent /\ j \in index'[store'[j].tenant]
        /\ \A t \in Tenant : \A j \in index[t] : j \in index'[t] \/ store'[j].status # "pending"
    BY <1>1, <1>2, <1>3, <1>10
  <2> QED
    BY <1>0, <1>3, <1>6, <2>1, ToldKeep
<1>13. ASSUME faults' = 0 PROVE FaultFree'
  <2>0. FaultFree
    BY <1>0, <1>1, <1>13
  <2>1. \A d \in Client \ {c} : pc'[d] \in {"set", "sadd"} => Unshared(d)'
    BY <1>1, <1>3, <1>5, <1>10, <2>0, OthersUnshared
  <2>2. ASSUME NEW t \in Tenant, NEW j \in index'[t]
        PROVE  store'[j].status = "pending" \/ Holds("srem", j)'
    <3>1. j \in index[t] /\ j # i
      BY <1>0, <1>2, <1>3 DEF IndexIsOwn
    <3>2. store[j].status = "pending" \/ Holds("srem", j)
      BY <2>0, <3>1 DEF FaultFree
    <3> QED
      BY <1>1, <1>5, <3>1, <3>2, OthersHold
  <2>3. ASSUME NEW t \in Tenant, NEW j \in PendingOf(t)'
        PROVE  j \in index'[t] \/ Holds("sadd", j)'
    <3>1. j \in PendingOf(t) /\ j # i
      BY <1>1, <1>2 DEF PendingOf
    <3>2. j \in index[t] \/ Holds("sadd", j)
      BY <2>0, <3>1 DEF FaultFree
    <3> QED
      BY <1>1, <1>3, <1>5, <3>1, <3>2, OthersHold
  <2>4. \A d \in Client : pc'[d] \in {"set", "sadd"} => Unshared(d)'
    BY <1>5, <2>1
  <2> QED
    BY <1>1, <2>0, <2>2, <2>3, <2>4 DEF FaultFree
<1> QED
  BY <1>4, <1>8, <1>9, <1>11, <1>12, <1>13 DEF IInv

(* The server runs a command long after its client gave it up, or never    *)
(* reads it (redis.py 113-121).                                            *)
LEMMA LateIInv ==
  ASSUME IInv, NEW m \in late, Late(m)
  PROVE  IInv'
<1>0. /\ TypeOK /\ IndexIsOwn /\ ToldAreIndexed
      /\ \A d \in Client : CallIsSound(d) /\ ListIsSound(d)
      /\ \A n \in late : LateIsSound(n)
      /\ faults # 0
  BY DEF IInv, FaultFree
<1>1. /\ late' = late \ {m} /\ UNCHANGED <<gauge, pc, req, got, todo, found, faults, known, owed>>
      /\ LateSet(m) \/ LateEval(m) \/ LateIndex(m) \/ UNCHANGED <<store, index>>
  BY DEF Late
<1> PICK r \in Request : r = m.request
  BY <1>0 DEF TypeOK, Sent
<1> PICK i \in Id : i = r.id
  BY RequestType
<1>2. r.tenant \in Tenant /\ m \in Sent /\ LateIsSound(m)
  BY <1>0, RequestType DEF TypeOK
<1>3. StoreMovesOn /\ store' \in [Id -> Row]
  <2>1. CASE UNCHANGED store
    BY <1>0, <2>1 DEF StoreMovesOn, TypeOK
  <2>2. CASE SetApplies(r) /\ store' = SetEffect(r)
    BY <1>0, <2>2, WritesMoveOn
  <2>3. CASE m.command = "eval" /\ ScriptApplies(r) /\ store' = ScriptEffect(r)
    BY <1>0, <1>2, <2>3, WritesMoveOn DEF LateIsSound, OpOf
  <2> QED
    BY <1>1, <2>1, <2>2, <2>3 DEF LateSet, LateEval, LateIndex
<1>4. /\ index' \in [Tenant -> SUBSET Id]
      /\ \A t \in Tenant : \A j \in index'[t] : j \in index[t] \/ store'[j].tenant = t
      /\ \A t \in Tenant : \A j \in index[t] : j \in index'[t] \/ store'[j].status # "pending"
  <2>1. CASE UNCHANGED index
    BY <1>0, <2>1 DEF TypeOK
  <2>2. CASE m.command = "sadd" /\ index' = Sadd(r) /\ UNCHANGED store
    <3>1. store[i].tenant = r.tenant
      BY <1>2, <2>2 DEF LateIsSound
    <3> QED
      BY <1>0, <1>2, <2>2, <3>1 DEF Sadd, TypeOK
  <2>3. CASE m.command = "srem" /\ index' = Srem(r) /\ UNCHANGED store
    <3>1. store[i].status # "pending"
      BY <1>2, <2>3, WrittenType DEF LateIsSound, OpOf
    <3> QED
      BY <1>0, <1>2, <2>3, <3>1 DEF Srem, TypeOK
  <2> QED
    BY <1>1, <2>1, <2>2, <2>3 DEF LateSet, LateEval, LateIndex
<1>5. TypeOK'
  BY <1>0, <1>1, <1>3, <1>4 DEF TypeOK
<1>6. \A d \in Client : CallIsSound(d)' /\ ListIsSound(d)'
  <2>1. \A d \in Client : Same(d)
    BY <1>1 DEF Same
  <2> QED
    BY <1>0, <1>1, <1>3, <2>1, OthersKeep
<1>7. \A n \in late' : LateIsSound(n)'
  BY <1>0, <1>1, <1>3, LateKeeps DEF TypeOK
<1>8. IndexIsOwn'
  BY <1>0, <1>3, <1>4, IndexKeeps
<1>9. ToldAreIndexed'
  <2> PICK none : none = {}
    OBVIOUS
  <2>1. /\ \A j \in Id : Told(j)' => Told(j) \/ j \in none \/ \E t \in Tenant : j \in index[t]
        /\ \A j \in Id : j \in none => store'[j] # Absent /\ j \in index'[store'[j].tenant]
    BY <1>1 DEF Told
  <2> QED
    BY <1>0, <1>3, <1>4, <2>1, ToldKeep
<1> QED
  BY <1>0, <1>1, <1>5, <1>6, <1>7, <1>8, <1>9 DEF IInv

-----------------------------------------------------------------------------
(* Nothing was stored, indexed or called when the program starts.          *)
LEMMA InitIInv == Init => IInv
<1> SUFFICES ASSUME Init PROVE IInv
  OBVIOUS
<1>1. TypeOK
  BY FaultsAreBounded DEF Init, TypeOK, Row
<1>2. \A c \in Client : CallIsSound(c) /\ ListIsSound(c)
  BY DEF Init, CallIsSound, ListIsSound
<1>3. IndexIsOwn /\ ToldAreIndexed /\ \A m \in late : LateIsSound(m)
  BY DEF Init, IndexIsOwn, ToldAreIndexed, Told
<1>4. FaultFree
  BY DEF Init, FaultFree, PendingOf, Absent
<1> QED
  BY <1>1, <1>2, <1>3, <1>4 DEF IInv

(* No command, fault or late command breaks the inductive invariant.       *)
LEMMA NextIInv == IInv /\ [Next]_vars => IInv'
<1> SUFFICES ASSUME IInv, [Next]_vars PROVE IInv'
  OBVIOUS
<1>1. CASE UNCHANGED vars
  <2>1. \A d \in Client : CallIsSound(d)' /\ ListIsSound(d)'
    BY <1>1 DEF vars, IInv, CallIsSound, ListIsSound, PendingOf
  <2>2. TypeOK' /\ IndexIsOwn' /\ ToldAreIndexed' /\ \A m \in late' : LateIsSound(m)'
    BY <1>1 DEF vars, IInv, TypeOK, IndexIsOwn, ToldAreIndexed, Told, LateIsSound
  <2>3. faults' = 0 => FaultFree'
    BY <1>1 DEF vars, IInv, FaultFree, Unshared, Told, Holds, PendingOf
  <2> QED
    BY <2>1, <2>2, <2>3 DEF IInv
<1> QED
  BY <1>1, CallIInv, SetIInv, SaddIInv, EvalIInv, SremIInv, GetIInv, SmembersIInv, FetchIInv,
     ListDoneIInv, ReturnIInv, FaultIInv, LateIInv DEF Next

(* The inductive invariant holds of every reachable state.                 *)
THEOREM Invariance == Spec => []IInv
  BY InitIInv, NextIInv, PTL DEF Spec

(* The keys, the indexes and the gauges keep their types; a record has a   *)
(* reviewer exactly when it is decided (redis.py 46-104).                  *)
THEOREM TypeCorrect == Spec => []TypeOK
<1>1. IInv => TypeOK
  BY DEF IInv
<1> QED
  BY <1>1, Invariance, PTL

(* For any number of timeouts, crashes and late commands, an id a client   *)
(* was given is in its tenant's index until somebody decides it, and with  *)
(* no fault an index at rest holds the pending ids exactly (redis.py       *)
(* 52-58, 84-86).                                                          *)
THEOREM NothingPendingIsLost == Spec => []PendingIsIndexed
<1>1. IInv => PendingIsIndexed
  <2> SUFFICES ASSUME IInv, NEW t \in Tenant
               PROVE  /\ known \cap PendingOf(t) \subseteq index[t]
                      /\ faults = 0 /\ (\A c \in Client : pc[c] = "idle") => index[t] = PendingOf(t)
    BY DEF PendingIsIndexed
  <2>1. known \cap PendingOf(t) \subseteq index[t]
    BY DEF IInv, ToldAreIndexed, Told, PendingOf
  <2>2. ASSUME faults = 0, \A c \in Client : pc[c] = "idle" PROVE index[t] = PendingOf(t)
    <3>1. FaultFree /\ \A i : ~ Holds("srem", i) /\ ~ Holds("sadd", i)
      BY <2>2 DEF IInv, Holds
    <3>2. \A i \in index[t] : i \in Id /\ store[i].tenant = t
      BY DEF IInv, IndexIsOwn, TypeOK
    <3> QED
      BY <3>1, <3>2 DEF FaultFree, PendingOf
  <2> QED
    BY <2>1, <2>2
<1> QED
  BY <1>1, Invariance, PTL

(* Whatever other processes do between its commands, list_pending returns  *)
(* every id that was handed out before it began and is still pending, and  *)
(* reads no record of another tenant (redis.py 41-43, 96-104).             *)
THEOREM ListsAreCompleteAndOwn == Spec => []ListIsCompleteAndOwn
<1>1. IInv => ListIsCompleteAndOwn
  <2> SUFFICES ASSUME IInv, NEW c \in Client
               PROVE  /\ pc[c] = "ok" /\ req[c].op = "list" =>
                           owed[c] \cap PendingOf(req[c].tenant) \subseteq found[c]
                      /\ \A i \in todo[c] \cup found[c] : store[i].tenant = req[c].tenant
    BY DEF ListIsCompleteAndOwn
  <2>1. ListIsSound(c)
    BY DEF IInv
  <2> QED
    BY <2>1 DEF ListIsSound
<1> QED
  BY <1>1, Invariance, PTL

-----------------------------------------------------------------------------
(***************************************************************************)
(* The gauges.  ContractProofs has what sums obey.                         *)
(***************************************************************************)
ContractProofs == INSTANCE ApprovalStoreProofs WITH
  approvals <- store, limbo <- Limbo, call <- AbstractCalls

(* Sums and finite sets are the same there as here.                        *)
LEMMA SameSums ==
  /\ \A S : ContractProofs!IsFiniteSet(S) <=> IsFiniteSet(S)
  /\ \A f, S : ContractProofs!SumFunctionOnSet(f, S) = SumFunctionOnSet(f, S)
<1>1. ASSUME NEW S PROVE ContractProofs!IsFiniteSet(S) <=> IsFiniteSet(S)
  BY DEF IsFiniteSet, ContractProofs!IsFiniteSet
<1>2. ASSUME NEW f, NEW S PROVE ContractProofs!SumFunctionOnSet(f, S) = SumFunctionOnSet(f, S)
  BY DEF SumFunctionOnSet, FoldFunctionOnSet, MapThenFoldSet,
         ContractProofs!SumFunctionOnSet, ContractProofs!FoldFunctionOnSet,
         ContractProofs!MapThenFoldSet
<1> QED BY <1>1, <1>2

(* How sums over the processes change (metrics.py 78).                     *)
LEMMA SumsOverClients ==
  /\ \A f : (\A c \in Client : f[c] = 0) => SumFunctionOnSet(f, Client) = 0
  /\ \A f, h : (\A c \in Client : f[c] = h[c])
                 => SumFunctionOnSet(f, Client) = SumFunctionOnSet(h, Client)
  /\ \A f, h : \A c \in Client :
       (\A d \in Client : f[d] \in Int /\ h[d] \in Int) /\ (\A d \in Client \ {c} : h[d] = f[d])
         => /\ SumFunctionOnSet(f, Client) \in Int
            /\ SumFunctionOnSet(h, Client) = SumFunctionOnSet(f, Client) + h[c] - f[c]
<1> USE ClientsAreFinite, SameSums, NullsAreNew DEF ContractProofs!NullsAreNew
<1>1. ASSUME NEW f, \A c \in Client : f[c] = 0 PROVE SumFunctionOnSet(f, Client) = 0
  BY <1>1, ContractProofs!SumOfZeros
<1>2. ASSUME NEW f, NEW h, \A c \in Client : f[c] = h[c]
      PROVE  SumFunctionOnSet(f, Client) = SumFunctionOnSet(h, Client)
  BY <1>2, ContractProofs!SumOfSame
<1>3. ASSUME NEW f, NEW h, NEW c \in Client, \A d \in Client : f[d] \in Int /\ h[d] \in Int,
             \A d \in Client \ {c} : h[d] = f[d]
      PROVE  /\ SumFunctionOnSet(f, Client) \in Int
             /\ SumFunctionOnSet(h, Client) = SumFunctionOnSet(f, Client) + h[c] - f[c]
  BY <1>3, ContractProofs!SumChanges
<1> QED BY <1>1, <1>2, <1>3

(* What the gauge of c is behind by: a create counts its record after SET, *)
(* with the SADD, a decide after the script, with the SREM.                *)
Due(c, t) ==
  IF req[c] # NoCall /\ req[c].tenant = t
    THEN CASE pc[c] = "sadd" -> 1 [] pc[c] = "srem" -> -1 [] OTHER -> 0
    ELSE 0
Counts(t) == [c \in Client |-> gauge[c][t] + Due(c, t)]

AddsUp(t) ==
  IsFiniteSet(PendingOf(t)) /\ SumFunctionOnSet(Counts(t), Client) = Cardinality(PendingOf(t))

GaugesAreDue == faults = 0 => \A t \in Tenant : AddsUp(t)

(* A gauge and what it is behind by are integers (metrics.py 78).          *)
LEMMA CountsType ==
  ASSUME TypeOK, NEW t \in Tenant, NEW c \in Client
  PROVE  Counts(t)[c] \in Int /\ Counts(t)[c] = gauge[c][t] + Due(c, t)
<1>1. gauge[c][t] \in Int
  BY DEF TypeOK
<1>2. Due(c, t) \in Int
  BY DEF Due
<1> QED BY <1>1, <1>2 DEF Counts

(* Nothing is pending that was not, and no gauge gets further behind.      *)
LEMMA CountsStay ==
  ASSUME IInv, IInv', GaugesAreDue, faults' = 0 => faults = 0,
         \A t \in Tenant : PendingOf(t)' = PendingOf(t),
         \A t \in Tenant : \A c \in Client :
           gauge'[c][t] + Due(c, t)' = gauge[c][t] + Due(c, t)
  PROVE  GaugesAreDue'
<1> SUFFICES ASSUME faults' = 0, NEW t \in Tenant PROVE AddsUp(t)'
  BY DEF GaugesAreDue
<1>1. AddsUp(t)
  BY DEF GaugesAreDue
<1>2. \A c \in Client : Counts(t)[c] = Counts(t)'[c]
  BY DEF Counts
<1>3. SumFunctionOnSet(Counts(t), Client) = SumFunctionOnSet(Counts(t)', Client)
  BY <1>2, SumsOverClients
<1>4. PendingOf(t)' = PendingOf(t)
  OBVIOUS
<1> QED BY <1>1, <1>3, <1>4 DEF AddsUp

(* A record that becomes pending, or is decided, is counted or not in one  *)
(* gauge in the next step of its process.                                  *)
LEMMA CountsMove ==
  ASSUME IInv, IInv', GaugesAreDue, faults' = 0 => faults = 0, gauge' = gauge,
         NEW c \in Client, NEW u \in Tenant, NEW i \in Id, NEW n \in {1, -1},
         \A t \in Tenant : \A d \in Client : Due(d, t)' = IF d = c /\ t = u THEN n ELSE Due(d, t),
         Due(c, u) = 0,
         \A t \in Tenant \ {u} : PendingOf(t)' = PendingOf(t),
         \/ n = 1 /\ i \notin PendingOf(u) /\ PendingOf(u)' = PendingOf(u) \cup {i}
         \/ n = -1 /\ i \in PendingOf(u) /\ PendingOf(u)' = PendingOf(u) \ {i}
  PROVE  GaugesAreDue'
<1> SUFFICES ASSUME faults' = 0, NEW t \in Tenant PROVE AddsUp(t)'
  BY DEF GaugesAreDue
<1>1. AddsUp(t) /\ TypeOK /\ TypeOK'
  BY DEF GaugesAreDue, IInv
<1>2. CASE t # u
  <2>1. \A d \in Client : Counts(t)[d] = Counts(t)'[d]
    BY <1>2 DEF Counts
  <2>2. SumFunctionOnSet(Counts(t), Client) = SumFunctionOnSet(Counts(t)', Client)
    BY <2>1, SumsOverClients
  <2>3. PendingOf(t)' = PendingOf(t)
    BY <1>2
  <2> QED BY <1>1, <2>2, <2>3 DEF AddsUp
<1>3. CASE t = u
  <2>1. \A d \in Client : Counts(u)[d] \in Int /\ Counts(u)'[d] \in Int
    <3>1. ASSUME NEW d \in Client PROVE Counts(u)[d] \in Int /\ Counts(u)'[d] \in Int
      <4>1. Counts(u)[d] \in Int /\ gauge[d][u] \in Int
        BY <1>1, CountsType DEF TypeOK
      <4>2. Due(d, u) \in Int /\ n \in Int
        BY DEF Due
      <4>3. Counts(u)'[d] = gauge[d][u] + (IF d = c THEN n ELSE Due(d, u))
        BY DEF Counts
      <4> QED BY <4>1, <4>2, <4>3
    <3> QED BY <3>1
  <2>2. \A d \in Client \ {c} : Counts(u)'[d] = Counts(u)[d]
    BY DEF Counts
  <2>3. Counts(u)'[c] = Counts(u)[c] + n
    <3>1. gauge[c][u] \in Int
      BY <1>1 DEF TypeOK
    <3>2. Counts(u)'[c] = gauge[c][u] + n /\ Counts(u)[c] = gauge[c][u] + 0
      BY DEF Counts
    <3> QED BY <3>1, <3>2
  <2>4. /\ SumFunctionOnSet(Counts(u), Client) \in Int
        /\ SumFunctionOnSet(Counts(u)', Client) = SumFunctionOnSet(Counts(u), Client) + n
    <3>1. PICK f, h : f = Counts(u) /\ h = Counts(u)'
      OBVIOUS
    <3>2. /\ SumFunctionOnSet(f, Client) \in Int
          /\ SumFunctionOnSet(h, Client) = SumFunctionOnSet(f, Client) + h[c] - f[c]
      BY <2>1, <2>2, <3>1, SumsOverClients
    <3>3. f[c] \in Int /\ h[c] = f[c] + n
      BY <2>1, <2>3, <3>1
    <3> QED BY <3>1, <3>2, <3>3
  <2>5. /\ IsFiniteSet(PendingOf(u)') /\ Cardinality(PendingOf(u)) \in Nat
        /\ Cardinality(PendingOf(u)') = Cardinality(PendingOf(u)) + n
    <3>1. IsFiniteSet(PendingOf(u)) /\ Cardinality(PendingOf(u)) \in Nat
      BY <1>1, <1>3, FS_CardinalityType DEF AddsUp
    <3>2. CASE n = 1
      BY <3>1, <3>2, FS_AddElement
    <3>3. CASE n = -1
      BY <3>1, <3>3, FS_RemoveElement, FS_CardinalityType
    <3> QED BY <3>1, <3>2, <3>3
  <2> QED BY <1>1, <1>3, <2>4, <2>5 DEF AddsUp
<1> QED BY <1>2, <1>3

(* A step that neither writes nor counts, and is not about to count,       *)
(* leaves the gauges as far behind as they were.                           *)
LEMMA QuietGauges ==
  ASSUME IInv, IInv', GaugesAreDue, faults' = 0 => faults = 0,
         NEW c \in Client, UNCHANGED <<store, gauge>>,
         \A d \in Client \ {c} : pc'[d] = pc[d] /\ req'[d] = req[d],
         pc[c] \notin {"sadd", "srem"}, pc'[c] \notin {"sadd", "srem"}
  PROVE  GaugesAreDue'
<1>1. ASSUME NEW t \in Tenant, NEW d \in Client PROVE Due(d, t)' = Due(d, t)
  <2>1. CASE d = c
    BY <2>1 DEF Due
  <2>2. CASE d # c
    BY <2>2 DEF Due
  <2> QED BY <2>1, <2>2
<1>2. \A t \in Tenant : PendingOf(t)' = PendingOf(t)
  BY DEF PendingOf
<1> QED BY <1>1, <1>2, CountsStay

(* SET makes the record pending and leaves it to be counted with the SADD  *)
(* (redis.py 52-58).                                                       *)
LEMMA SetGauges ==
  ASSUME IInv, IInv', GaugesAreDue, NEW c \in Client, SendSet(c)
  PROVE  GaugesAreDue'
<1>1. TypeOK /\ pc[c] = "set" /\ UNCHANGED <<gauge, req, faults>>
  BY DEF IInv, SendSet
<1> PICK r \in Request \cup ListRequest : r = req[c] /\ r.op \in OpOf(pc[c])
  BY <1>1, CallFacts
<1>2. r \in Request /\ r # NoCall /\ r.id \in Id /\ r.tenant \in Tenant
  BY <1>1, CallType DEF OpOf
<1>3. CASE ~ SetApplies(r) /\ Goto(c, "error") /\ UNCHANGED store
  <2>1. pc'[c] = "error" /\ \A d \in Client \ {c} : pc'[d] = pc[d] /\ req'[d] = req[d]
    BY <1>1, <1>3 DEF Goto, TypeOK
  <2> QED BY <1>1, <1>3, <2>1, QuietGauges
<1>4. CASE SetApplies(r) /\ store' = SetEffect(r) /\ Goto(c, "sadd")
  <2>1. pc'[c] = "sadd" /\ \A d \in Client \ {c} : pc'[d] = pc[d]
    BY <1>1, <1>4 DEF Goto, TypeOK
  <2>2. \A t \in Tenant : \A d \in Client :
          Due(d, t)' = IF d = c /\ t = r.tenant THEN 1 ELSE Due(d, t)
    BY <1>1, <1>2, <2>1 DEF Due
  <2>3. Due(c, r.tenant) = 0
    BY <1>1 DEF Due
  <2>4. store[r.id] = Absent /\ store' = [store EXCEPT ![r.id] = Pending(r)]
    BY <1>4 DEF SetApplies, SetEffect
  <2>5. /\ store'[r.id].tenant = r.tenant /\ store'[r.id].status = "pending"
        /\ \A j \in Id \ {r.id} : store'[j] = store[j]
    BY <1>1, <1>2, <2>4, WrittenType DEF TypeOK
  <2>6. \A t \in Tenant : r.id \notin PendingOf(t)
    BY <2>4, NullsAreNew DEF PendingOf, Absent
  <2>7. /\ \A t \in Tenant \ {r.tenant} : PendingOf(t)' = PendingOf(t)
        /\ PendingOf(r.tenant)' = PendingOf(r.tenant) \cup {r.id}
    BY <1>2, <2>4, <2>5, NullsAreNew DEF PendingOf, Absent
  <2> QED BY <1>1, <1>2, <2>2, <2>3, <2>6, <2>7, CountsMove
<1> QED BY <1>3, <1>4 DEF SendSet

(* The script decides the record and leaves that to be counted with the    *)
(* SREM (redis.py 67-86).                                                  *)
LEMMA EvalGauges ==
  ASSUME IInv, IInv', GaugesAreDue, NEW c \in Client, SendEval(c)
  PROVE  GaugesAreDue'
<1>1. TypeOK /\ pc[c] = "eval" /\ UNCHANGED <<gauge, req, faults>>
  BY DEF IInv, SendEval
<1> PICK r \in Request \cup ListRequest : r = req[c] /\ r.op \in OpOf(pc[c])
  BY <1>1, CallFacts
<1>2. /\ r \in Request /\ r # NoCall /\ r.id \in Id /\ r.tenant \in Tenant
      /\ r.op = "decide"
  BY <1>1, CallType DEF OpOf
<1>3. CASE ~ ScriptApplies(r) /\ Goto(c, "refused") /\ UNCHANGED store
  <2>1. pc'[c] = "refused" /\ \A d \in Client \ {c} : pc'[d] = pc[d] /\ req'[d] = req[d]
    BY <1>1, <1>3 DEF Goto, TypeOK
  <2> QED BY <1>1, <1>3, <2>1, QuietGauges
<1>4. CASE ScriptApplies(r) /\ store' = ScriptEffect(r) /\ Goto(c, "srem")
  <2>1. pc'[c] = "srem" /\ \A d \in Client \ {c} : pc'[d] = pc[d]
    BY <1>1, <1>4 DEF Goto, TypeOK
  <2>2. \A t \in Tenant : \A d \in Client :
          Due(d, t)' = IF d = c /\ t = r.tenant THEN -1 ELSE Due(d, t)
    BY <1>1, <1>2, <2>1 DEF Due
  <2>3. Due(c, r.tenant) = 0
    BY <1>1 DEF Due
  <2>4. /\ store[r.id].status = "pending" /\ store[r.id].tenant = r.tenant
        /\ store' = [store EXCEPT ![r.id] = Decided(r)]
    BY <1>1, <1>2, <1>4, ScriptDecides DEF ScriptApplies
  <2>5. /\ store'[r.id].tenant = r.tenant /\ store'[r.id].status # "pending"
        /\ \A j \in Id \ {r.id} : store'[j] = store[j]
    BY <1>1, <1>2, <2>4, WrittenType DEF TypeOK
  <2>6. r.id \in PendingOf(r.tenant)
    BY <1>2, <2>4 DEF PendingOf
  <2>7. /\ \A t \in Tenant \ {r.tenant} : PendingOf(t)' = PendingOf(t)
        /\ PendingOf(r.tenant)' = PendingOf(r.tenant) \ {r.id}
    BY <1>2, <2>4, <2>5 DEF PendingOf
  <2> QED BY <1>1, <1>2, <2>2, <2>3, <2>6, <2>7, CountsMove
<1> QED BY <1>3, <1>4 DEF SendEval

(* SADD and SREM come with the count of what their process is behind by    *)
(* (redis.py 57-58, 85-86).                                                *)
LEMMA CountGauges ==
  ASSUME IInv, IInv', GaugesAreDue, NEW c \in Client, SendSadd(c) \/ SendSrem(c)
  PROVE  GaugesAreDue'
<1>1. TypeOK /\ UNCHANGED <<store, req, faults>> /\ pc' = [pc EXCEPT ![c] = "ok"]
  BY DEF IInv, SendSadd, SendSrem, Goto
<1>2. pc[c] \in {"sadd", "srem"} /\ pc[c] # "idle"
  BY DEF SendSadd, SendSrem
<1> PICK r \in Request \cup ListRequest : r = req[c] /\ r.op \in OpOf(pc[c])
  BY <1>2, CallFacts
<1>3. r \in Request /\ r # NoCall /\ r.tenant \in Tenant
  BY <1>2, CallType DEF OpOf
<1> DEFINE n == IF pc[c] = "sadd" THEN 1 ELSE -1
<1>4. gauge' = [gauge EXCEPT ![c][r.tenant] = @ + n]
  <2>1. CASE SendSadd(c)
    BY <2>1 DEF SendSadd, Count
  <2>2. CASE SendSrem(c)
    <3>1. pc[c] = "srem" /\ gauge' = [gauge EXCEPT ![c][got[c].tenant] = @ - 1]
      BY <2>2 DEF SendSrem, Count
    <3>2. r.op = "decide" /\ got[c] = Decided(r)
      BY <3>1 DEF IInv, CallIsSound, OpOf
    <3>3. got[c].tenant = r.tenant
      BY <1>3, <3>2, WrittenType
    <3> QED BY <3>1, <3>3
  <2> QED BY <2>1, <2>2
<1>5. ASSUME NEW t \in Tenant, NEW d \in Client
      PROVE  gauge'[d][t] + Due(d, t)' = gauge[d][t] + Due(d, t)
  <2>1. gauge[d][t] \in Int /\ gauge[c][r.tenant] \in Int
    BY <1>1, <1>3 DEF TypeOK
  <2>2. CASE d = c /\ t = r.tenant
    <3>1. gauge'[c][t] = gauge[c][t] + n
      BY <1>1, <1>3, <1>4, <2>2 DEF TypeOK
    <3>2. Due(c, t) = n /\ Due(c, t)' = 0
      BY <1>1, <1>2, <1>3, <2>2 DEF Due, TypeOK
    <3> QED BY <2>1, <2>2, <3>1, <3>2
  <2>3. CASE d # c \/ t # r.tenant
    <3>1. gauge'[d][t] = gauge[d][t]
      BY <1>1, <1>3, <1>4, <2>3 DEF TypeOK
    <3>2. Due(d, t)' = Due(d, t)
      BY <1>1, <2>3 DEF Due, TypeOK
    <3> QED BY <3>1, <3>2
  <2> QED BY <2>2, <2>3
<1>6. \A t \in Tenant : PendingOf(t)' = PendingOf(t)
  BY <1>1 DEF PendingOf
<1> QED BY <1>1, <1>5, <1>6, CountsStay

(* Until something fails the gauges are behind by exactly what is about to *)
(* be counted: after a timeout or a crash a record can stay uncounted.     *)
LEMMA NextGauges ==
  ASSUME IInv, GaugesAreDue, [Next]_vars
  PROVE  GaugesAreDue'
<1>0. IInv' /\ TypeOK
  BY NextIInv DEF IInv
<1>1. CASE UNCHANGED vars
  <2>1. UNCHANGED <<store, gauge, pc, req, faults>>
    BY <1>1 DEF vars
  <2>2. \A t \in Tenant : PendingOf(t)' = PendingOf(t)
    BY <2>1 DEF PendingOf
  <2>3. \A t \in Tenant : \A c \in Client :
          gauge'[c][t] + Due(c, t)' = gauge[c][t] + Due(c, t)
    BY <2>1 DEF Due
  <2> QED BY <1>0, <2>1, <2>2, <2>3, CountsStay
<1>2. ASSUME NEW c \in Client, Call(c) PROVE GaugesAreDue'
  <2>1. PICK op, i, t, v, first :
          first \in {"set", "eval", "get", "smembers"} /\ Begin(c, op, i, t, v, first)
    BY <1>2 DEF Call, create_pending, decide, get, list_pending
  <2>2. /\ UNCHANGED <<store, gauge, faults>> /\ pc[c] = "idle"
        /\ pc'[c] = first /\ \A d \in Client \ {c} : pc'[d] = pc[d] /\ req'[d] = req[d]
    BY <1>0, <2>1 DEF Begin, Goto, TypeOK
  <2> QED BY <1>0, <2>1, <2>2, QuietGauges
<1>3. ASSUME NEW c \in Client,
             SendGet(c) \/ SendSmembers(c) \/ Fetch(c) \/ ListDone(c) \/ Return(c)
      PROVE  GaugesAreDue'
  <2>1. /\ UNCHANGED <<store, gauge, faults>> /\ pc[c] \notin {"sadd", "srem"}
        /\ pc'[c] \notin {"sadd", "srem"}
        /\ \A d \in Client \ {c} : pc'[d] = pc[d] /\ req'[d] = req[d]
    BY <1>0, <1>3 DEF SendGet, SendSmembers, Fetch, ListDone, Return, Goto, Outcome, TypeOK
  <2> QED BY <1>0, <2>1, QuietGauges
<1>4. ASSUME NEW c \in Client, Timeout(c) \/ Crash(c) PROVE GaugesAreDue'
  <2>1. faults \in Nat /\ faults' = faults + 1
    BY <1>0, <1>4, FaultsAreBounded DEF Timeout, Crash, TypeOK
  <2> QED BY <2>1 DEF GaugesAreDue
<1>5. ASSUME NEW m \in late PROVE faults # 0
  BY <1>5 DEF IInv, FaultFree
<1>6. ASSUME NEW m \in late, Late(m) PROVE GaugesAreDue'
  <2>1. faults' = faults
    BY <1>6 DEF Late
  <2> QED BY <1>5, <2>1 DEF GaugesAreDue
<1> QED
  BY <1>0, <1>1, <1>2, <1>3, <1>4, <1>6, SetGauges, EvalGauges, CountGauges DEF Next

(* At the start no gauge has counted anything and nothing is pending.      *)
LEMMA InitGauges == Init => GaugesAreDue
<1> SUFFICES ASSUME Init, NEW t \in Tenant PROVE AddsUp(t)
  BY DEF GaugesAreDue
<1>1. \A c \in Client : Counts(t)[c] = 0
  <2>1. ASSUME NEW c \in Client PROVE Counts(t)[c] = 0
    <3>1. gauge[c][t] = 0 /\ Due(c, t) = 0
      BY DEF Init, Due
    <3> QED BY <3>1 DEF Counts
  <2> QED BY <2>1
<1>2. SumFunctionOnSet(Counts(t), Client) = 0
  BY <1>1, SumsOverClients
<1>3. PendingOf(t) = {}
  BY DEF Init, PendingOf, Absent
<1> QED BY <1>2, <1>3, FS_EmptySet DEF AddsUp

(* For any processes and as long as nothing fails, the gauges of all of    *)
(* them add up to the pending records whenever no call is in progress,     *)
(* whichever process creates and whichever decides (redis.py 58, 86).      *)
THEOREM GaugesAgree == Spec => []GaugesAddUp
<1>1. IInv /\ GaugesAreDue => GaugesAddUp
  <2> SUFFICES ASSUME IInv, GaugesAreDue, faults = 0, \A c \in Client : pc[c] = "idle",
                      NEW t \in Tenant
               PROVE  SumFunction([c \in Client |-> gauge[c][t]]) = Cardinality(PendingOf(t))
    BY DEF GaugesAddUp
  <2> DEFINE f == [c \in Client |-> gauge[c][t]]
  <2>1. \A c \in Client : f[c] = Counts(t)[c]
    <3>1. ASSUME NEW c \in Client PROVE f[c] = Counts(t)[c]
      <4>1. gauge[c][t] \in Int /\ Due(c, t) = 0
        BY DEF IInv, TypeOK, Due
      <4> QED BY <4>1 DEF Counts
    <3> QED BY <3>1
  <2>2. SumFunctionOnSet(f, Client) = SumFunctionOnSet(Counts(t), Client)
    BY <2>1, SumsOverClients
  <2>3. SumFunction(f) = SumFunctionOnSet(f, Client)
    BY DEF SumFunction
  <2>4. SumFunctionOnSet(Counts(t), Client) = Cardinality(PendingOf(t))
    BY DEF GaugesAreDue, AddsUp
  <2> QED BY <2>2, <2>3, <2>4
<1>2. IInv /\ GaugesAreDue /\ [Next]_vars => GaugesAreDue'
  BY NextGauges
<1>3. Init => GaugesAreDue
  BY InitGauges
<1> QED BY <1>1, <1>2, <1>3, Invariance, PTL DEF Spec

-----------------------------------------------------------------------------
(* The call of ApprovalStore that a process's stands for, by the command   *)
(* it is at; list_pending stands for none.                                 *)
At(r, answer, row) == [op |-> "call", request |-> r, answer |-> answer, row |-> row]

Shown(p, r, row) ==
  IF p = "idle" \/ r.op = "list" THEN NoCall
  ELSE CASE p \in {"set", "eval", "get"} -> At(r, "open", Absent)
         [] p \in {"sadd", "srem", "ok"} -> At(r, "ok", IF r.op = "create" THEN Pending(r) ELSE row)
         [] OTHER -> At(r, p, Absent)

(* AbstractCalls by process, before and after a step.                      *)
LEMMA CallsAreShown ==
  /\ AbstractCalls = [c \in Client |-> Shown(pc[c], req[c], got[c])]
  /\ AbstractCalls' = [c \in Client |-> Shown(pc'[c], req'[c], got'[c])]
<1> USE DEF AbstractCalls, AbstractAnswer, AbstractRow, Shown, At
<1>1. ASSUME NEW c \in Client PROVE AbstractCalls[c] = Shown(pc[c], req[c], got[c])
  OBVIOUS
<1>2. ASSUME NEW c \in Client PROVE AbstractCalls'[c] = Shown(pc'[c], req'[c], got'[c])
  OBVIOUS
<1>3. /\ AbstractCalls = [c \in Client |-> AbstractCalls[c]]
      /\ AbstractCalls' = [c \in Client |-> AbstractCalls'[c]]
  OBVIOUS
<1> HIDE DEF AbstractCalls, AbstractAnswer, AbstractRow, Shown, At
<1> QED
  BY <1>1, <1>2, <1>3

(* A step of a process is one of its call.                                 *)
LEMMA CallsChange ==
  ASSUME NEW c \in Client,
         \A d \in Client \ {c} : pc'[d] = pc[d] /\ req'[d] = req[d] /\ got'[d] = got[d]
  PROVE  /\ AbstractCalls[c] = Shown(pc[c], req[c], got[c])
         /\ AbstractCalls' = SetRow(AbstractCalls, c, Shown(pc'[c], req'[c], got'[c]))
BY CallsAreShown DEF SetRow

(* A call that shows the same as before is no step of the contract.        *)
LEMMA CallsStay ==
  ASSUME NEW c \in Client, AbstractCalls' = SetRow(AbstractCalls, c, AbstractCalls[c])
  PROVE  AbstractCalls' = AbstractCalls
<1>1. AbstractCalls = [d \in Client |-> AbstractCalls[d]]
  BY DEF AbstractCalls
<1> QED
  BY <1>1 DEF SetRow

SetAnswer(f, c, v, w) == [f EXCEPT ![c].answer = v, ![c].row = w]

(* Answers of ApprovalStore replaces the call.                             *)
LEMMA Answering ==
  ASSUME NEW c \in Client, NEW r, NEW a, NEW row, AbstractCalls[c] = At(r, a, row), NEW v, NEW w,
         AbstractCalls' = SetRow(AbstractCalls, c, At(r, v, w))
  PROVE  AbstractCalls' = SetAnswer(AbstractCalls, c, v, w)
<1> USE DEF SetAnswer, SetRow
<1> DEFINE old == AbstractCalls[c]
           half == [AbstractCalls EXCEPT ![c].answer = v]
<1>1. AbstractCalls = [d \in Client |-> AbstractCalls[d]]
  BY DEF AbstractCalls
<1>2. [old EXCEPT !.answer = v] = At(r, v, row)
  <2>1. old = At(r, a, row)
    OBVIOUS
  <2> HIDE DEF old
  <2> QED
    BY <2>1 DEF At
<1>3. half = [AbstractCalls EXCEPT ![c] = At(r, v, row)]
  BY <1>2
<1> HIDE DEF half, old
<1>4. half[c] = At(r, v, row) /\ half = [d \in Client |-> half[d]]
      /\ \A d \in Client \ {c} : half[d] = AbstractCalls[d]
  BY <1>1, <1>3
<1> DEFINE mid == half[c]
<1>5. [mid EXCEPT !.row = w] = At(r, v, w)
  <2>1. mid = At(r, v, row)
    BY <1>4
  <2> HIDE DEF mid
  <2> QED
    BY <2>1 DEF At
<1>6. [half EXCEPT ![c].row = w] = [half EXCEPT ![c] = At(r, v, w)]
  BY <1>5
<1>7. [half EXCEPT ![c] = At(r, v, w)] = [AbstractCalls EXCEPT ![c] = At(r, v, w)]
  BY <1>1, <1>4
<1> QED
  BY <1>6, <1>7 DEF half

(* What ApprovalStore sees of such a call.                                 *)
LEMMA IsOpen ==
  ASSUME NEW c \in Client, NEW r, NEW a, NEW row, AbstractCalls[c] = At(r, a, row)
  PROVE  /\ AbstractCalls[c].request = r /\ AbstractCalls[c].answer = a
         /\ AbstractCalls[c] # Contract!NoCall
         /\ Contract!Open(c) <=> a = "open"
<1>1. AbstractCalls[c].request = r /\ AbstractCalls[c].answer = a /\ AbstractCalls[c] # Contract!NoCall
  BY DEF At, Contract!NoCall
<1> QED
  BY <1>1 DEF Contract!Open

-----------------------------------------------------------------------------
(* A method is called (state/store.py 30-60).                              *)
LEMMA Invokes ==
  ASSUME NEW c \in Client, NEW r \in Request, AbstractCalls[c] = NoCall, r.client = c,
         AbstractCalls' = SetRow(AbstractCalls, c, At(r, "open", Absent)),
         store' = store, Limbo' = Limbo
  PROVE  Contract!Next
<1>1. Contract!Invoke(c, r)
  BY DEF Contract!Invoke, At, SetRow, Contract!NoCall, NoCall, Contract!Absent, Absent
<1> QED
  BY <1>1 DEF Contract!Next, Contract!Request, Request

(* SET NX and the script are Succeed (redis.py 18-37, 52-55).              *)
LEMMA Succeeds ==
  ASSUME NEW c \in Client, NEW r \in Request, AbstractCalls[c] = At(r, "open", Absent),
         \/ r.op = "create" /\ SetApplies(r)
         \/ r.op = "decide" /\ ScriptApplies(r),
         AbstractCalls' = SetRow(AbstractCalls, c, At(r, "ok", Written(r))),
         store' = SetRow(store, r.id, Written(r)), Limbo' = Limbo
  PROVE  Contract!Next
<1>1. Contract!Written(r) = Written(r)
  BY DEF Contract!Written, Contract!Pending, Contract!Decided, Written, Pending, Decided
<1>2. AbstractCalls[c].request = r /\ Contract!Open(c)
  BY IsOpen
<1>3. Contract!CanApply(r) /\ Contract!Apply(r)
  BY <1>1 DEF Contract!CanApply, Contract!Apply, Contract!Decidable, Contract!Visible,
              Contract!Absent, Absent, SetApplies, ScriptApplies, SetRow
<1>4. Contract!Answers(c, "ok", Contract!Written(r))
  <2>1. AbstractCalls' = SetAnswer(AbstractCalls, c, "ok", Contract!Written(r))
    BY <1>1, Answering
  <2> QED
    BY <2>1 DEF Contract!Answers, SetAnswer
<1>5. Contract!Succeed(c)
  BY <1>2, <1>3, <1>4
     DEF Contract!Succeed, Contract!CanApply, Contract!Apply, Contract!Answers
<1> QED
  BY <1>5 DEF Contract!Next

(* A nil of the script is Refuse (redis.py 26-29, 76-80).                  *)
LEMMA Refuses ==
  ASSUME NEW c \in Client, NEW r \in Request, AbstractCalls[c] = At(r, "open", Absent),
         r.op = "decide", ~ ScriptApplies(r),
         AbstractCalls' = SetRow(AbstractCalls, c, At(r, "refused", Absent)),
         store' = store, Limbo' = Limbo
  PROVE  Contract!Next
<1>1. AbstractCalls[c].request = r /\ Contract!Open(c)
  BY IsOpen
<1>2. ~ Contract!Decidable(r.id, r.tenant)
  BY DEF Contract!Decidable, Contract!Visible, ScriptApplies
<1>3. Contract!Answers(c, "refused", Contract!Absent)
  <2>1. AbstractCalls' = SetAnswer(AbstractCalls, c, "refused", Contract!Absent)
    BY Answering DEF Contract!Absent, Absent
  <2> QED
    BY <2>1 DEF Contract!Answers, SetAnswer
<1>4. Contract!Refuse(c)
  BY <1>1, <1>2, <1>3 DEF Contract!Refuse
<1> QED
  BY <1>4 DEF Contract!Next

(* GET and the tenant test after it are Read (redis.py 89-94).             *)
LEMMA Reads ==
  ASSUME NEW c \in Client, NEW r \in Request, AbstractCalls[c] = At(r, "open", Absent), r.op = "get",
         \/ /\ store[r.id].tenant = r.tenant
            /\ AbstractCalls' = SetRow(AbstractCalls, c, At(r, "ok", store[r.id]))
         \/ /\ store[r.id].tenant # r.tenant
            /\ AbstractCalls' = SetRow(AbstractCalls, c, At(r, "none", Absent)),
         store' = store, Limbo' = Limbo
  PROVE  Contract!Next
<1>1. AbstractCalls[c].request = r /\ Contract!Open(c)
  BY IsOpen
<1>2. Contract!Visible(r.id, r.tenant) <=> store[r.id].tenant = r.tenant
  BY DEF Contract!Visible
<1>3. CASE /\ store[r.id].tenant = r.tenant
           /\ AbstractCalls' = SetRow(AbstractCalls, c, At(r, "ok", store[r.id]))
  <2>1. AbstractCalls' = SetAnswer(AbstractCalls, c, "ok", store[r.id])
    BY <1>3, Answering
  <2>2. Contract!Answers(c, "ok", store[r.id])
    BY <2>1 DEF Contract!Answers, SetAnswer
  <2>3. Contract!Read(c)
    BY <1>1, <1>2, <1>3, <2>2 DEF Contract!Read, Contract!Answers
  <2> QED
    BY <2>3 DEF Contract!Next
<1>4. CASE /\ store[r.id].tenant # r.tenant
           /\ AbstractCalls' = SetRow(AbstractCalls, c, At(r, "none", Absent))
  <2>1. AbstractCalls' = SetAnswer(AbstractCalls, c, "none", Contract!Absent)
    BY <1>4, Answering DEF Contract!Absent, Absent
  <2>2. Contract!Answers(c, "none", Contract!Absent)
    BY <2>1 DEF Contract!Answers, SetAnswer
  <2>3. Contract!Read(c)
    BY <1>1, <1>2, <1>4, <2>2 DEF Contract!Read, Contract!Answers
  <2> QED
    BY <2>3 DEF Contract!Next
<1> QED
  BY <1>3, <1>4

(* A timeout or crash is Raise, and leaves its SET or EVAL in limbo        *)
(* (redis.py 113-121).                                                     *)
LEMMA Raises ==
  ASSUME NEW c \in Client, NEW r \in Request, NEW answer, NEW row, AbstractCalls[c] = At(r, answer, row),
         \/ AbstractCalls' = AbstractCalls
         \/ AbstractCalls' = SetRow(AbstractCalls, c, At(r, "error", Absent)),
         store' = store,
         Limbo' = Limbo \/ (r.op # "get" /\ Limbo' = Limbo \cup {r})
  PROVE  Contract!Next
<1>1. AbstractCalls[c].request = r /\ AbstractCalls[c] # Contract!NoCall
  BY IsOpen
<1>2. AbstractCalls' = AbstractCalls \/ AbstractCalls' = SetAnswer(AbstractCalls, c, "error", Contract!Absent)
  BY Answering DEF Contract!Absent, Absent
<1>3. Contract!Raise(c)
  BY <1>1, <1>2 DEF Contract!Raise, SetAnswer
<1> QED
  BY <1>3 DEF Contract!Next

(* An answered call returns.                                               *)
LEMMA Returns ==
  ASSUME NEW c \in Client, NEW r \in Request, NEW answer, NEW row, AbstractCalls[c] = At(r, answer, row),
         answer # "open", AbstractCalls' = SetRow(AbstractCalls, c, NoCall),
         store' = store, Limbo' = Limbo
  PROVE  Contract!Next
<1>1. AbstractCalls[c] # Contract!NoCall /\ ~ Contract!Open(c)
  BY IsOpen
<1>2. Contract!Return(c)
  BY <1>1 DEF Contract!Return, Contract!NoCall, NoCall, SetRow
<1> QED
  BY <1>2 DEF Contract!Next

(* A SET or EVAL left behind takes effect late, or never.                  *)
LEMMA TakesEffectLate ==
  ASSUME NEW r \in Request, r \in Limbo, Limbo' = Limbo \ {r}, AbstractCalls' = AbstractCalls,
         \/ store' = store
         \/ r.op = "create" /\ SetApplies(r) /\ store' = SetRow(store, r.id, Written(r))
         \/ r.op = "decide" /\ ScriptApplies(r) /\ store' = SetRow(store, r.id, Written(r))
  PROVE  Contract!Next
<1>1. Contract!Written(r) = Written(r)
  BY DEF Contract!Written, Contract!Pending, Contract!Decided, Written, Pending, Decided
<1>2. store' = store \/ (Contract!CanApply(r) /\ Contract!Apply(r))
  BY <1>1 DEF Contract!CanApply, Contract!Apply, Contract!Decidable, Contract!Visible,
              Contract!Absent, Absent, SetApplies, ScriptApplies, SetRow
<1>3. Contract!Late(r)
  BY <1>2 DEF Contract!Late
<1> QED
  BY <1>3 DEF Contract!Next

(* The index and the gauge are nothing to the contract.                    *)
LEMMA Stutters ==
  ASSUME AbstractCalls' = AbstractCalls, store' = store, Limbo' = Limbo
  PROVE  UNCHANGED Contract!vars
BY DEF Contract!vars

-----------------------------------------------------------------------------
(* A SET or EVAL given up on puts its request in limbo; a GET or an index  *)
(* command does not.                                                       *)
LEMMA LimboGrows ==
  ASSUME IInv, NEW c \in Client, late' = late \cup InFlight(c)
  PROVE  Limbo' = Limbo \/ (pc[c] \in {"set", "eval"} /\ Limbo' = Limbo \cup {req[c]})
<1> PICK r : r = req[c]
  OBVIOUS
<1>1. CASE pc[c] \in {"set", "eval"}
  <2> PICK m : m = [command |-> pc[c], request |-> r]
    OBVIOUS
  <2>1. late' = late \cup {m} /\ m.command \in {"set", "eval"} /\ m.request = r
    BY <1>1 DEF InFlight
  <2> QED
    BY <1>1, <2>1 DEF Limbo
<1>2. CASE pc[c] \in {"sadd", "srem"}
  <2> PICK m : m = [command |-> pc[c], request |-> r]
    OBVIOUS
  <2>1. late' = late \cup {m} /\ m.command \notin {"set", "eval"}
    BY <1>2 DEF InFlight
  <2> QED
    BY <2>1 DEF Limbo
<1>3. CASE pc[c] \notin {"set", "sadd", "eval", "srem"}
  BY <1>3 DEF InFlight, Limbo
<1> QED
  BY <1>1, <1>2, <1>3

(* A request is in limbo by one command only: SET for a create, EVAL for a *)
(* decide.                                                                 *)
LEMMA LimboShrinks ==
  ASSUME IInv, NEW m \in late, late' = late \ {m}
  PROVE  /\ m.command \in {"set", "eval"} => m.request \in Limbo /\ Limbo' = Limbo \ {m.request}
         /\ m.command \notin {"set", "eval"} => Limbo' = Limbo
<1>1. CASE m.command \in {"set", "eval"}
  <2>1. ASSUME NEW n \in late, n.command \in {"set", "eval"}, n.request = m.request PROVE n = m
    <3>1. n \in Sent /\ m \in Sent /\ LateIsSound(n) /\ LateIsSound(m)
      BY DEF IInv, TypeOK
    <3>2. n.command = m.command
      BY <1>1, <2>1, <3>1 DEF LateIsSound, OpOf
    <3> QED
      BY <2>1, <3>1, <3>2 DEF Sent
  <2> QED
    BY <1>1, <2>1 DEF Limbo
<1>2. CASE m.command \notin {"set", "eval"}
  BY <1>2 DEF Limbo
<1> QED
  BY <1>1, <1>2

(* Everything but a late command is a step of some process's call.         *)
LEMMA CallStepImplements ==
  ASSUME IInv, NEW c \in Client, Call(c)
  PROVE  Contract!Next \/ UNCHANGED Contract!vars
<1>0. TypeOK
  BY DEF IInv
<1>1. ASSUME NEW i, NEW t \in Tenant, NEW op, NEW v, NEW first,
             [op |-> op, id |-> i, tenant |-> t, verdict |-> v, client |-> c] \in Request \cup ListRequest,
             first \in {"set", "eval", "get", "smembers"}, op = "list" <=> first = "smembers",
             Begin(c, op, i, t, v, first)
      PROVE  Contract!Next \/ UNCHANGED Contract!vars
  <2> DEFINE r == [op |-> op, id |-> i, tenant |-> t, verdict |-> v, client |-> c]
  <2>1. r \in Request \cup ListRequest /\ r.client = c /\ r.op = op
    BY <1>1
  <2>2. /\ pc[c] = "idle" /\ req' = [req EXCEPT ![c] = r] /\ pc' = [pc EXCEPT ![c] = first]
        /\ UNCHANGED <<store, got, late>>
    BY <1>1 DEF Begin, Goto
  <2> HIDE DEF r
  <2>3. /\ pc'[c] = first /\ req'[c] = r
        /\ \A d \in Client \ {c} : pc'[d] = pc[d] /\ req'[d] = req[d] /\ got'[d] = got[d]
    BY <1>0, <2>2 DEF TypeOK
  <2>4. AbstractCalls[c] = NoCall /\ AbstractCalls' = SetRow(AbstractCalls, c, Shown(first, r, got'[c]))
    BY <2>2, <2>3, CallsChange DEF Shown
  <2>5. Limbo' = Limbo /\ store' = store
    BY <2>2 DEF Limbo
  <2>6. CASE op = "list"
    <3>1. AbstractCalls' = SetRow(AbstractCalls, c, AbstractCalls[c])
      BY <2>1, <2>4, <2>6 DEF Shown
    <3> QED
      BY <2>5, <3>1, CallsStay, Stutters
  <2>7. CASE op # "list"
    <3>1. r \in Request
      BY <2>1, <2>7, CallType
    <3>2. AbstractCalls' = SetRow(AbstractCalls, c, At(r, "open", Absent))
      BY <1>1, <2>1, <2>4, <2>7 DEF Shown
    <3> QED
      BY <2>1, <2>4, <2>5, <3>1, <3>2, Invokes
  <2> QED
    BY <2>6, <2>7
<1>2. ASSUME NEW i \in Id, NEW t \in Tenant, create_pending(c, i, t)
      PROVE  Contract!Next \/ UNCHANGED Contract!vars
  <2>1. [op |-> "create", id |-> i, tenant |-> t, verdict |-> "none", client |-> c]
          \in Request \cup ListRequest
    BY DEF Request
  <2> QED
    BY <1>1, <1>2, <2>1 DEF create_pending
<1>3. ASSUME NEW i \in Id, NEW t \in Tenant, get(c, i, t)
      PROVE  Contract!Next \/ UNCHANGED Contract!vars
  <2>1. [op |-> "get", id |-> i, tenant |-> t, verdict |-> "none", client |-> c]
          \in Request \cup ListRequest
    BY DEF Request
  <2> QED
    BY <1>1, <1>3, <2>1 DEF get
<1>4. ASSUME NEW i \in Id, NEW t \in Tenant, NEW v \in Verdict, decide(c, i, t, v)
      PROVE  Contract!Next \/ UNCHANGED Contract!vars
  <2>1. [op |-> "decide", id |-> i, tenant |-> t, verdict |-> v, client |-> c]
          \in Request \cup ListRequest
    BY DEF Request
  <2> QED
    BY <1>1, <1>4, <2>1 DEF decide
<1>5. ASSUME NEW t \in Tenant, list_pending(c, t)
      PROVE  Contract!Next \/ UNCHANGED Contract!vars
  <2>1. [op |-> "list", id |-> NoId, tenant |-> t, verdict |-> "none", client |-> c]
          \in Request \cup ListRequest
    BY DEF ListRequest
  <2> QED
    BY <1>1, <1>5, <2>1 DEF list_pending
<1> QED
  BY <1>2, <1>3, <1>4, <1>5 DEF Call

(* SET NX, EVAL and GET are where create_pending, decide and get take      *)
(* effect; SADD, SREM and all of list_pending show nothing (redis.py       *)
(* 46-104).                                                                *)
LEMMA CommandImplements ==
  ASSUME IInv, NEW c \in Client,
         \/ SendSet(c) \/ SendSadd(c) \/ SendEval(c) \/ SendSrem(c) \/ SendGet(c)
         \/ SendSmembers(c) \/ Fetch(c) \/ ListDone(c) \/ Return(c)
  PROVE  Contract!Next \/ UNCHANGED Contract!vars
<1> DEFINE Goal == Contract!Next \/ UNCHANGED Contract!vars
<1> SUFFICES Goal
  OBVIOUS
<1>0. TypeOK /\ pc[c] # "idle"
  BY DEF IInv, SendSet, SendSadd, SendEval, SendSrem, SendGet, SendSmembers, Fetch, ListDone,
         Return, Outcome
<1>1. Limbo' = Limbo
  <2>1. late' = late
    BY DEF SendSet, SendSadd, SendEval, SendSrem, SendGet, SendSmembers, Fetch, ListDone, Return
  <2> QED
    BY <2>1 DEF Limbo
<1> PICK r \in Request \cup ListRequest : r = req[c] /\ r.op \in OpOf(pc[c]) /\ r.client = c
  BY <1>0, CallFacts
<1>2. r.op # "list" => r \in Request
  BY CallType
<1>3. ASSUME NEW next, pc' = [pc EXCEPT ![c] = next], req' = req,
             \A d \in Client \ {c} : got'[d] = got[d]
      PROVE  /\ AbstractCalls[c] = Shown(pc[c], r, got[c])
             /\ AbstractCalls' = SetRow(AbstractCalls, c, Shown(next, r, got'[c]))
  <2>1. /\ pc'[c] = next /\ req'[c] = r
        /\ \A d \in Client \ {c} : pc'[d] = pc[d] /\ req'[d] = req[d] /\ got'[d] = got[d]
    BY <1>0, <1>3 DEF TypeOK
  <2> QED
    BY <2>1, CallsChange
<1>4. CASE SendSet(c)
  <2>1. pc[c] = "set" /\ UNCHANGED <<req, got>> /\ r.op = "create" /\ r \in Request
    BY <1>2, <1>4 DEF SendSet, OpOf
  <2>2. AbstractCalls[c] = At(r, "open", Absent)
    BY <2>1, CallsAreShown DEF Shown
  <2>3. CASE SetApplies(r) /\ store' = SetEffect(r) /\ Goto(c, "sadd")
    <3>1. AbstractCalls' = SetRow(AbstractCalls, c, At(r, "ok", Written(r)))
      BY <1>3, <2>1, <2>3 DEF Shown, Goto, Written
    <3>2. store' = SetRow(store, r.id, Written(r))
      BY <2>1, <2>3 DEF SetEffect, SetRow, Written
    <3> QED
      BY <1>1, <2>1, <2>2, <2>3, <3>1, <3>2, Succeeds
  <2>4. CASE ~ SetApplies(r) /\ Goto(c, "error") /\ UNCHANGED store
    <3>1. AbstractCalls' = SetRow(AbstractCalls, c, At(r, "error", Absent))
      BY <1>3, <2>1, <2>4 DEF Shown, Goto
    <3> QED
      BY <1>1, <2>1, <2>2, <2>4, <3>1, Raises
  <2> QED
    BY <1>4, <2>3, <2>4 DEF SendSet
<1>5. CASE SendEval(c)
  <2>1. pc[c] = "eval" /\ UNCHANGED req /\ r.op = "decide" /\ r \in Request /\ Written(r) = Decided(r)
    BY <1>2, <1>5 DEF SendEval, OpOf, Written
  <2>2. AbstractCalls[c] = At(r, "open", Absent)
    BY <2>1, CallsAreShown DEF Shown
  <2>3. CASE ScriptApplies(r) /\ store' = ScriptEffect(r) /\ Goto(c, "srem")
             /\ got' = [got EXCEPT ![c] = store'[r.id]]
    <3>1. store' = [store EXCEPT ![r.id] = Written(r)]
      BY <1>0, <2>1, <2>3, ScriptDecides
    <3>2. store'[r.id] = Written(r)
      BY <1>0, <2>1, <3>1, RequestType DEF TypeOK
    <3>3. got'[c] = Written(r) /\ \A d \in Client \ {c} : got'[d] = got[d]
      BY <1>0, <2>3, <3>2 DEF TypeOK
    <3>4. AbstractCalls' = SetRow(AbstractCalls, c, At(r, "ok", Written(r)))
      BY <1>3, <2>1, <2>3, <3>3 DEF Shown, Goto
    <3>5. store' = SetRow(store, r.id, Written(r))
      BY <3>1 DEF SetRow
    <3> QED
      BY <1>1, <2>1, <2>2, <2>3, <3>4, <3>5, Succeeds
  <2>4. CASE ~ ScriptApplies(r) /\ Goto(c, "refused") /\ UNCHANGED <<store, got>>
    <3>1. AbstractCalls' = SetRow(AbstractCalls, c, At(r, "refused", Absent))
      BY <1>3, <2>1, <2>4 DEF Shown, Goto
    <3> QED
      BY <1>1, <2>1, <2>2, <2>4, <3>1, Refuses
  <2> QED
    BY <1>5, <2>3, <2>4 DEF SendEval
<1>6. CASE SendGet(c)
  <2>1. pc[c] = "get" /\ UNCHANGED <<store, req>> /\ r.op = "get" /\ r \in Request
    BY <1>2, <1>6 DEF SendGet, OpOf
  <2>2. AbstractCalls[c] = At(r, "open", Absent)
    BY <2>1, CallsAreShown DEF Shown
  <2>3. CASE store[r.id].tenant = r.tenant /\ got' = [got EXCEPT ![c] = store[r.id]] /\ Goto(c, "ok")
    <3>1. got'[c] = store[r.id] /\ \A d \in Client \ {c} : got'[d] = got[d]
      BY <1>0, <2>3 DEF TypeOK
    <3>2. AbstractCalls' = SetRow(AbstractCalls, c, At(r, "ok", store[r.id]))
      BY <1>3, <2>1, <2>3, <3>1 DEF Shown, Goto
    <3> QED
      BY <1>1, <2>1, <2>2, <2>3, <3>2, Reads
  <2>4. CASE store[r.id].tenant # r.tenant /\ Goto(c, "none") /\ UNCHANGED got
    <3>1. AbstractCalls' = SetRow(AbstractCalls, c, At(r, "none", Absent))
      BY <1>3, <2>1, <2>4 DEF Shown, Goto
    <3> QED
      BY <1>1, <2>1, <2>2, <2>4, <3>1, Reads
  <2> QED
    BY <1>6, <2>3, <2>4 DEF SendGet
<1>7. CASE SendSadd(c) \/ SendSrem(c) \/ SendSmembers(c) \/ ListDone(c)
  <2>1. UNCHANGED <<store, req, got>>
    BY <1>7 DEF SendSadd, SendSrem, SendSmembers, ListDone
  <2> PICK next : /\ pc' = [pc EXCEPT ![c] = next]
                  /\ Shown(next, r, got[c]) = Shown(pc[c], r, got[c])
    BY <1>7 DEF SendSadd, SendSrem, SendSmembers, ListDone, Goto, Shown, OpOf
  <2>2. AbstractCalls' = SetRow(AbstractCalls, c, AbstractCalls[c])
    BY <1>3, <2>1
  <2> QED
    BY <1>1, <2>1, <2>2, CallsStay, Stutters
<1>8. CASE Fetch(c)
  <2>1. UNCHANGED <<store, pc, req, got>>
    BY <1>8 DEF Fetch
  <2>2. AbstractCalls' = AbstractCalls
    BY <2>1, CallsAreShown
  <2> QED
    BY <1>1, <2>1, <2>2, Stutters
<1>9. CASE Return(c)
  <2>1. /\ pc[c] \in Outcome /\ pc' = [pc EXCEPT ![c] = "idle"] /\ store' = store
        /\ req' = [req EXCEPT ![c] = NoCall] /\ got' = [got EXCEPT ![c] = Absent]
    BY <1>9 DEF Return, Goto
  <2>2. /\ pc'[c] = "idle"
        /\ \A d \in Client \ {c} : pc'[d] = pc[d] /\ req'[d] = req[d] /\ got'[d] = got[d]
    BY <1>0, <2>1 DEF TypeOK
  <2>3. AbstractCalls[c] = Shown(pc[c], r, got[c]) /\ AbstractCalls' = SetRow(AbstractCalls, c, NoCall)
    BY <2>2, CallsChange DEF Shown
  <2>4. CASE r.op = "list"
    <3>1. AbstractCalls' = SetRow(AbstractCalls, c, AbstractCalls[c])
      BY <2>3, <2>4 DEF Shown
    <3> QED
      BY <1>1, <2>1, <3>1, CallsStay, Stutters
  <2>5. CASE r.op # "list"
    <3>1. PICK answer, row : AbstractCalls[c] = At(r, answer, row) /\ answer # "open"
      BY <2>1, <2>3, <2>5 DEF Shown, Outcome
    <3> QED
      BY <1>1, <1>2, <2>1, <2>3, <2>5, <3>1, Returns
  <2> QED
    BY <2>4, <2>5
<1> QED
  BY <1>4, <1>5, <1>6, <1>7, <1>8, <1>9

(* A fault is the Raise of the call it hits (redis.py 113-121).            *)
LEMMA FaultImplements ==
  ASSUME IInv, NEW c \in Client, Timeout(c) \/ Crash(c)
  PROVE  Contract!Next \/ UNCHANGED Contract!vars
<1>1. /\ TypeOK /\ pc[c] \in Command /\ pc[c] # "idle"
      /\ late' = late \/ late' = late \cup InFlight(c)
      /\ pc' = pc \/ pc' = [pc EXCEPT ![c] = "error"]
      /\ UNCHANGED <<store, req, got>>
  BY DEF IInv, Timeout, Crash, Goto, Command
<1> PICK r \in Request \cup ListRequest : r = req[c] /\ r.op \in OpOf(pc[c])
  BY <1>1, CallFacts
<1>2. AbstractCalls[c] = Shown(pc[c], r, got[c])
  BY CallsAreShown
<1>3. Limbo' = Limbo \/ (pc[c] \in {"set", "eval"} /\ Limbo' = Limbo \cup {r})
  <2>1. CASE late' = late
    BY <2>1 DEF Limbo
  <2> QED
    BY <1>1, <2>1, LimboGrows
<1>4. AbstractCalls' = AbstractCalls
        \/ AbstractCalls' = SetRow(AbstractCalls, c, Shown("error", r, got[c]))
  <2>1. CASE pc' = pc
    BY <1>1, <2>1, CallsAreShown
  <2>2. CASE pc' = [pc EXCEPT ![c] = "error"]
    <3>1. /\ pc'[c] = "error" /\ req'[c] = r /\ got'[c] = got[c]
          /\ \A d \in Client \ {c} : pc'[d] = pc[d] /\ req'[d] = req[d] /\ got'[d] = got[d]
      BY <1>1, <2>2 DEF TypeOK
    <3> QED
      BY <3>1, CallsChange
  <2> QED
    BY <1>1, <2>1, <2>2
<1>5. CASE r.op = "list"
  <2>1. AbstractCalls' = AbstractCalls
    <3>1. Shown("error", r, got[c]) = AbstractCalls[c]
      BY <1>2, <1>5 DEF Shown
    <3> QED
      BY <1>4, <3>1, CallsStay
  <2>2. Limbo' = Limbo
    BY <1>3, <1>5 DEF OpOf
  <2> QED
    BY <1>1, <2>1, <2>2, Stutters
<1>6. CASE r.op # "list"
  <2>1. r \in Request /\ (pc[c] \in {"set", "eval"} => r.op # "get")
    BY <1>6, CallType DEF OpOf
  <2>2. PICK answer, row : AbstractCalls[c] = At(r, answer, row)
    BY <1>1, <1>2, <1>6 DEF Shown, Command
  <2>3. Shown("error", r, got[c]) = At(r, "error", Absent)
    BY <1>6 DEF Shown
  <2> QED
    BY <1>1, <1>3, <1>4, <2>1, <2>2, <2>3, Raises
<1> QED
  BY <1>5, <1>6

(* A late SET or EVAL is Late; a late SADD or SREM shows nothing.          *)
LEMMA LateImplements ==
  ASSUME IInv, NEW m \in late, Late(m)
  PROVE  Contract!Next \/ UNCHANGED Contract!vars
<1>1. /\ TypeOK /\ late' = late \ {m} /\ UNCHANGED <<pc, req, got>>
      /\ LateSet(m) \/ LateEval(m) \/ LateIndex(m) \/ UNCHANGED <<store, index>>
  BY DEF IInv, Late
<1>2. AbstractCalls' = AbstractCalls
  BY <1>1, CallsAreShown
<1> PICK r \in Request : r = m.request
  BY <1>1 DEF TypeOK, Sent
<1>3. r.op \in OpOf(m.command) /\ m.command \in {"set", "sadd", "eval", "srem"}
  BY <1>1 DEF IInv, LateIsSound, TypeOK, Sent
<1>4. CASE m.command \in {"set", "eval"}
  <2>1. r \in Limbo /\ Limbo' = Limbo \ {r}
    BY <1>1, <1>4, LimboShrinks
  <2>2. CASE UNCHANGED store
    BY <1>2, <2>1, <2>2, TakesEffectLate
  <2>3. CASE m.command = "set" /\ SetApplies(r) /\ store' = SetEffect(r)
    <3>1. r.op = "create" /\ store' = SetRow(store, r.id, Written(r))
      BY <1>3, <2>3 DEF OpOf, SetEffect, SetRow, Written
    <3> QED
      BY <1>2, <2>1, <2>3, <3>1, TakesEffectLate
  <2>4. CASE m.command = "eval" /\ ScriptApplies(r) /\ store' = ScriptEffect(r)
    <3>1. r.op = "decide" /\ Written(r) = Decided(r)
      BY <1>3, <2>4 DEF OpOf, Written
    <3>2. store' = SetRow(store, r.id, Written(r))
      BY <1>1, <2>4, <3>1, ScriptDecides DEF SetRow
    <3> QED
      BY <1>2, <2>1, <2>4, <3>1, <3>2, TakesEffectLate
  <2> QED
    BY <1>1, <2>2, <2>3, <2>4 DEF LateSet, LateEval, LateIndex
<1>5. CASE m.command \in {"sadd", "srem"}
  <2>1. UNCHANGED store /\ Limbo' = Limbo
    BY <1>1, <1>5, LimboShrinks DEF LateSet, LateEval, LateIndex
  <2> QED
    BY <1>2, <2>1, Stutters
<1> QED
  BY <1>3, <1>4, <1>5

(* For any processes and any timeouts, crashes and late commands, this     *)
(* store is the contract's: a call takes effect at most once, at the SET,  *)
(* EVAL or GET, a call that raised takes effect late or never, and its     *)
(* answer is the stored one (state/store.py 30-60, redis.py 46-94).        *)
THEOREM RedisImplementsTheContract == Spec => ImplementsApprovalStore
<1>1. Init => Contract!Init
  <2> SUFFICES ASSUME Init PROVE Contract!Init
    OBVIOUS
  <2>1. AbstractCalls = [c \in Client |-> NoCall] /\ Limbo = {}
    BY DEF Init, AbstractCalls, Limbo
  <2> QED
    BY <2>1 DEF Init, Contract!Init, Contract!Absent, Absent, Contract!NoCall, NoCall
<1>2. IInv /\ [Next]_vars => [Contract!Next]_(Contract!vars)
  <2> SUFFICES ASSUME IInv, [Next]_vars PROVE Contract!Next \/ UNCHANGED Contract!vars
    OBVIOUS
  <2>1. CASE UNCHANGED vars
    <3>1. UNCHANGED <<pc, req, got, store, late>>
      BY <2>1 DEF vars
    <3>2. AbstractCalls' = AbstractCalls /\ Limbo' = Limbo
      BY <3>1, CallsAreShown DEF Limbo
    <3> QED
      BY <3>1, <3>2, Stutters
  <2> QED
    BY <2>1, CallStepImplements, CommandImplements, FaultImplements, LateImplements DEF Next
<1> QED
  BY <1>1, <1>2, Invariance, PTL DEF Spec, ImplementsApprovalStore, Contract!Spec

-----------------------------------------------------------------------------
(***************************************************************************)
(* What is proved of the contract holds of this store.                     *)
(***************************************************************************)

(* The contract that is implemented and the one ApprovalStoreProofs is     *)
(* about are the same, operator by operator (state/store.py 30-60).        *)
LEMMA SameRecords ==
  /\ Contract!Absent = ContractProofs!Absent
  /\ Contract!NoCall = ContractProofs!NoCall
  /\ Contract!Request = ContractProofs!Request
  /\ \A r : Contract!Written(r) = ContractProofs!Written(r)
  /\ \A i, t : Contract!Decidable(i, t) <=> ContractProofs!Decidable(i, t)
  BY DEF Contract!Absent, ContractProofs!Absent, Contract!NoCall, ContractProofs!NoCall,
         Contract!Request, ContractProofs!Request, Contract!Written, ContractProofs!Written,
         Contract!Pending, ContractProofs!Pending, Contract!Decided, ContractProofs!Decided,
         Contract!Decidable, ContractProofs!Decidable, Contract!Visible, ContractProofs!Visible

(* So are their writes (state/store.py 30-60).                             *)
LEMMA SameWrites ==
  ASSUME NEW r
  PROVE  /\ Contract!CanApply(r) <=> ContractProofs!CanApply(r)
         /\ Contract!Apply(r) <=> ContractProofs!Apply(r)
  BY SameRecords DEF Contract!CanApply, ContractProofs!CanApply, Contract!Apply,
                     ContractProofs!Apply

(* And so are their steps (state/store.py 30-60).                          *)
LEMMA SameSteps == Contract!Next => ContractProofs!Next
<1> USE SameRecords
<1>1. ASSUME NEW c, NEW r PROVE Contract!Invoke(c, r) => ContractProofs!Invoke(c, r)
  BY DEF Contract!Invoke, ContractProofs!Invoke
<1>2. ASSUME NEW c PROVE Contract!Succeed(c) => ContractProofs!Succeed(c)
  BY SameWrites DEF Contract!Succeed, ContractProofs!Succeed, Contract!Open, ContractProofs!Open,
                    Contract!Answers, ContractProofs!Answers
<1>3. ASSUME NEW c PROVE Contract!Refuse(c) => ContractProofs!Refuse(c)
  BY DEF Contract!Refuse, ContractProofs!Refuse, Contract!Open, ContractProofs!Open,
         Contract!Answers, ContractProofs!Answers
<1>4. ASSUME NEW c PROVE Contract!Read(c) => ContractProofs!Read(c)
  BY DEF Contract!Read, ContractProofs!Read, Contract!Open, ContractProofs!Open,
         Contract!Answers, ContractProofs!Answers, Contract!Visible, ContractProofs!Visible
<1>5. ASSUME NEW c PROVE Contract!Raise(c) => ContractProofs!Raise(c)
  BY DEF Contract!Raise, ContractProofs!Raise
<1>6. ASSUME NEW c PROVE Contract!Return(c) => ContractProofs!Return(c)
  BY DEF Contract!Return, ContractProofs!Return, Contract!Open, ContractProofs!Open
<1>7. ASSUME NEW r PROVE Contract!Late(r) => ContractProofs!Late(r)
  BY SameWrites DEF Contract!Late, ContractProofs!Late
<1> QED
  BY <1>1, <1>2, <1>3, <1>4, <1>5, <1>6, <1>7 DEF Contract!Next, ContractProofs!Next

(* For any processes, crashes, timeouts and late commands, an approval is  *)
(* decided at most once, never deleted and never moved to another tenant,  *)
(* and whoever was told "ok" was told the truth about a record of its own  *)
(* tenant (redis.py 46-94).                                                *)
THEOREM RedisKeepsTheContract == Spec => []Contract!HonestAnswers /\ Contract!DecidedOnce
<1>1. Contract!Init => ContractProofs!Init
  BY SameRecords DEF Contract!Init, ContractProofs!Init
<1>2. [Contract!Next]_(Contract!vars) => [ContractProofs!Next]_(ContractProofs!vars)
  BY SameSteps DEF Contract!vars, ContractProofs!vars
<1>3. ContractProofs!HonestAnswers => Contract!HonestAnswers
  BY SameRecords DEF ContractProofs!HonestAnswers, Contract!HonestAnswers,
                     ContractProofs!Decided, Contract!Decided
<1>4. ContractProofs!NullsAreNew
  BY NullsAreNew DEF ContractProofs!NullsAreNew
<1> QED
  BY <1>1, <1>2, <1>3, <1>4, RedisImplementsTheContract, ContractProofs!AnswersAreHonest,
     ContractProofs!NeverDecidedTwice, PTL
     DEF ImplementsApprovalStore, Contract!Spec, ContractProofs!Spec, Contract!DecidedOnce,
         ContractProofs!DecidedOnce
=============================================================================
