------------------------ MODULE SqliteApprovalsProofs ------------------------
(***************************************************************************)
(* Proofs about SqliteApprovals, for any threads, ids and tenants and any  *)
(* number of faults: it implements ApprovalStore, and its gauge is right   *)
(* whenever no call is in progress.                                        *)
(*                                                                         *)
(* Both rest on what a thread may count on between two critical sections:  *)
(* the row it has inserted or decided is still there, and nobody else can  *)
(* have decided it, or inserted the id it is about to insert.              *)
(***************************************************************************)
EXTENDS SqliteApprovals, FiniteSetTheorems, TLAPS

(* What a thread has to do in each of its critical sections.               *)
OpOf(section) ==
  CASE section = "insert" -> {"create"}
    [] section \in {"update", "refused"} -> {"decide"}
    [] section \in {"select", "none"} -> {"get"}
    [] section \in {"reread", "count"} -> {"create", "decide"}
    [] OTHER -> {"create", "decide", "get"}

(* The id of a create is its caller's alone until it is inserted.          *)
Unshared(c) ==
  /\ rows[req[c].id] = Absent
  /\ \A d \in Client \ {c} : pc[d] # "idle" => req[d].id # req[c].id

(* The row a thread wrote: its own decision, or a record that any other    *)
(* thread of its tenant may have decided meanwhile.                        *)
Wrote(r, row) == row.tenant = r.tenant /\ (r.op = "decide" => row = Decided(r))

CallIsSound(c) ==
  /\ pc[c] = "idle" => req[c] = NoCall
  /\ pc[c] # "idle" =>
       /\ req[c] \in Request /\ req[c].client = c
       /\ req[c].op \in OpOf(pc[c])
       /\ pc[c] = "insert" => Unshared(c)
       /\ pc[c] \in {"reread", "count"} => Wrote(req[c], rows[req[c].id])
       /\ pc[c] = "count" => Wrote(req[c], got[c])

KnownExist == \A i \in known : rows[i] # Absent

(* The gauge is behind by the threads that have written and not counted.   *)
Uncounted(op, t) ==
  {c \in Client : pc[c] \in {"reread", "count"} /\ req[c].op = op /\ req[c].tenant = t}

GaugeIsSound(t) ==
  /\ IsFiniteSet(PendingOf(t))
  /\ IsFiniteSet(Uncounted("create", t)) /\ IsFiniteSet(Uncounted("decide", t))
  /\ faults = 0 => gauge[t] = Cardinality(PendingOf(t)) - Cardinality(Uncounted("create", t))
                                + Cardinality(Uncounted("decide", t))

IInv ==
  /\ TypeOK
  /\ \A c \in Client : CallIsSound(c)
  /\ KnownExist
  /\ \A t \in Tenant : GaugeIsSound(t)

-----------------------------------------------------------------------------
(* The fields of a call (state/store.py 30-60).                            *)
LEMMA RequestType ==
  ASSUME NEW r \in Request
  PROVE  /\ r.id \in Id /\ r.tenant \in Tenant /\ r.client \in Client
         /\ r.op \in {"create", "get", "decide"}
         /\ r.op = "decide" => r.verdict \in Verdict
         /\ r # NoCall
BY DEF Request, NoCall

(* A row has a tenant exactly when it exists (state/store.py 15-27).       *)
LEMMA RowType ==
  ASSUME NEW row \in Row
  PROVE  /\ row.tenant \in Tenant \cup {NoTenant}
         /\ row.status \in {"absent", "pending"} \cup Verdict
         /\ row.tenant \in Tenant <=> row # Absent
         /\ row = [tenant |-> row.tenant, status |-> row.status, by |-> row.by]
BY NullsAreNew DEF Row, Absent

(* What INSERT and UPDATE leave is a row of the caller's tenant, pending   *)
(* or decided (state/store.py 111-127, 143-151).                           *)
LEMMA WrittenType ==
  ASSUME NEW r \in Request
  PROVE  /\ Pending(r) \in Row /\ Pending(r).tenant = r.tenant
         /\ Pending(r) # Absent /\ Pending(r).status = "pending"
         /\ r.op = "decide" =>
              /\ Decided(r) \in Row /\ Decided(r).tenant = r.tenant
              /\ Decided(r) # Absent /\ Decided(r).status # "pending"
BY RequestType, NullsAreNew DEF Pending, Decided, Row, Absent

(* Two fields of a row set by one UPDATE (state/store.py 144-149).         *)
SetFields(f, i, v, w) == [f EXCEPT ![i].status = v, ![i].by = w]
SetRow(f, i, row)     == [f EXCEPT ![i] = row]

(* Setting the two columns of an UPDATE is replacing the row by one of the *)
(* same tenant.                                                            *)
LEMMA TwoFields ==
  ASSUME NEW f, NEW S, f = [j \in S |-> f[j]], NEW i \in S,
         NEW a, NEW b, NEW c, f[i] = [tenant |-> a, status |-> b, by |-> c], NEW v, NEW w
  PROVE  SetFields(f, i, v, w) = SetRow(f, i, [tenant |-> a, status |-> v, by |-> w])
<1> USE DEF SetFields, SetRow
<1> DEFINE g == [f EXCEPT ![i].status = v]
           row == f[i]
<1>1. [row EXCEPT !.status = v] = [tenant |-> a, status |-> v, by |-> c]
  <2>1. row = [tenant |-> a, status |-> b, by |-> c]
    OBVIOUS
  <2> HIDE DEF row
  <2> QED
    BY <2>1
<1>2. g = [f EXCEPT ![i] = [tenant |-> a, status |-> v, by |-> c]]
  BY <1>1
<1> HIDE DEF g, row
<1>3. g[i] = [tenant |-> a, status |-> v, by |-> c] /\ g = [j \in S |-> g[j]]
      /\ \A j \in S \ {i} : g[j] = f[j]
  BY <1>2
<1> DEFINE half == g[i]
<1>4. [half EXCEPT !.by = w] = [tenant |-> a, status |-> v, by |-> w]
  <2>1. half = [tenant |-> a, status |-> v, by |-> c]
    BY <1>3
  <2> HIDE DEF half
  <2> QED
    BY <2>1
<1>5. [g EXCEPT ![i].by = w] = [g EXCEPT ![i] = [tenant |-> a, status |-> v, by |-> w]]
  BY <1>4
<1>6. [g EXCEPT ![i] = [tenant |-> a, status |-> v, by |-> w]]
        = [f EXCEPT ![i] = [tenant |-> a, status |-> v, by |-> w]]
  BY <1>2, <1>3
<1>7. [f EXCEPT ![i].status = v, ![i].by = w] = [g EXCEPT ![i].by = w]
  BY DEF g
<1> QED
  BY <1>5, <1>6, <1>7

(* The UPDATE leaves the caller's decision (state/store.py 144-149).       *)
LEMMA UpdatedType ==
  ASSUME TypeOK, NEW r \in Request, r.op = "decide", UpdateMatches(r)
  PROVE  Updated(r) = [rows EXCEPT ![r.id] = Decided(r)]
<1>1. r.id \in Id /\ rows = [j \in Id |-> rows[j]] /\ rows[r.id] \in Row
  BY RequestType DEF TypeOK
<1>2. \E a, b : rows[r.id] = [tenant |-> r.tenant, status |-> a, by |-> b]
  <2> DEFINE row == rows[r.id]
  <2>1. row = [tenant |-> row.tenant, status |-> row.status, by |-> row.by] /\ row.tenant = r.tenant
    BY <1>1, RowType DEF UpdateMatches
  <2> HIDE DEF row
  <2>2. row = [tenant |-> r.tenant, status |-> row.status, by |-> row.by]
    BY <2>1
  <2> QED
    BY <2>2 DEF row
<1>3. SetFields(rows, r.id, r.verdict, r.client)
        = SetRow(rows, r.id, [tenant |-> r.tenant, status |-> r.verdict, by |-> r.client])
  BY <1>1, <1>2, TwoFields
<1> QED
  BY <1>3 DEF Updated, Decided, SetFields, SetRow

-----------------------------------------------------------------------------
(* What any critical section may do to a row: create it, or decide it.     *)
RowsMoveOn ==
  \A i \in Id :
    \/ rows'[i] = rows[i]
    \/ rows[i] = Absent
    \/ /\ rows[i].status = "pending"
       /\ rows'[i].tenant = rows[i].tenant /\ rows'[i] # Absent

(* What a thread may count on is not disturbed by another: its id stays    *)
(* unshared, and the row it wrote is there with the decision it made.      *)
LEMMA OthersKeep ==
  ASSUME TypeOK, NEW c \in Client, NEW d \in Client \ {c}, CallIsSound(d), RowsMoveOn,
         \A e \in Client \ {c} : pc'[e] = pc[e] /\ req'[e] = req[e] /\ got'[e] = got[e],
         pc[d] = "insert" => /\ rows'[req[d].id] = rows[req[d].id]
                             /\ pc'[c] # "idle" => req'[c].id # req[d].id
  PROVE  CallIsSound(d)'
<1>1. pc'[d] = pc[d] /\ req'[d] = req[d] /\ got'[d] = got[d]
  OBVIOUS
<1>2. CASE pc[d] = "idle"
  BY <1>1, <1>2 DEF CallIsSound
<1>3. CASE pc[d] # "idle"
  <2> DEFINE r == req[d]
  <2>1. r \in Request /\ r.client = d /\ r.op \in OpOf(pc[d])
    BY <1>3 DEF CallIsSound
  <2>2. r.id \in Id /\ r.tenant \in Tenant
    BY <2>1, RequestType
  <2>3. pc[d] = "insert" => Unshared(d)'
    BY <1>1, <1>3 DEF CallIsSound, Unshared
  <2>4. ASSUME pc[d] \in {"reread", "count"} PROVE Wrote(r, rows'[r.id])
    <3>1. rows[r.id].tenant = r.tenant /\ (r.op = "decide" => rows[r.id] = Decided(r))
      BY <1>3, <2>4 DEF CallIsSound, Wrote
    <3>2. rows[r.id] # Absent
      BY <2>2, <3>1, NullsAreNew DEF Absent
    <3>3. r.op = "decide" => rows[r.id].status # "pending"
      BY <2>1, <3>1, WrittenType
    <3>4. rows'[r.id] = rows[r.id] \/ (r.op # "decide" /\ rows'[r.id].tenant = r.tenant)
      BY <2>2, <3>1, <3>2, <3>3 DEF RowsMoveOn
    <3> QED
      BY <3>1, <3>4 DEF Wrote
  <2>5. pc[d] = "count" => Wrote(r, got[d])
    BY <1>3 DEF CallIsSound
  <2> QED
    BY <1>1, <1>3, <2>1, <2>3, <2>4, <2>5 DEF CallIsSound, Wrote
<1> QED
  BY <1>2, <1>3

(* A row that exists goes on existing.                                     *)
LEMMA KnownStay ==
  ASSUME TypeOK, KnownExist, RowsMoveOn, known' \subseteq Id,
         \A i \in known' \ known : rows'[i] # Absent
  PROVE  KnownExist'
BY DEF TypeOK, KnownExist, RowsMoveOn

(* A critical section that writes no row and counts none leaves the gauge  *)
(* as far behind as it was.                                                *)
LEMMA GaugeStays ==
  ASSUME \A t \in Tenant : GaugeIsSound(t), UNCHANGED <<rows, gauge, faults>>,
         \A op \in {"create", "decide"}, t \in Tenant : Uncounted(op, t)' = Uncounted(op, t)
  PROVE  \A t \in Tenant : GaugeIsSound(t)'
<1> SUFFICES ASSUME NEW t \in Tenant PROVE GaugeIsSound(t)'
  OBVIOUS
<1>1. PendingOf(t)' = PendingOf(t)
  BY DEF PendingOf
<1>2. Uncounted("create", t)' = Uncounted("create", t) /\ Uncounted("decide", t)' = Uncounted("decide", t)
  OBVIOUS
<1>3. GaugeIsSound(t) /\ gauge' = gauge /\ faults' = faults
  OBVIOUS
<1> QED
  BY <1>1, <1>2, <1>3 DEF GaugeIsSound

-----------------------------------------------------------------------------
(* A call begins, with an id it may know (state/store.py 108-164).         *)
LEMMA BeginIInv ==
  ASSUME IInv, NEW c \in Client, NEW i \in Id, NEW t \in Tenant, NEW op, NEW v, NEW first,
         [op |-> op, id |-> i, tenant |-> t, verdict |-> v, client |-> c] \in Request,
         first \in {"insert", "update", "select"}, op \in OpOf(first),
         Askable(i), first = "insert" => Fresh(i),
         Begin(c, op, i, t, v, first)
  PROVE  IInv'
<1> DEFINE r == [op |-> op, id |-> i, tenant |-> t, verdict |-> v, client |-> c]
<1>0. r \in Request /\ r.id = i /\ r.op = op /\ r.client = c
  OBVIOUS
<1>1. /\ pc[c] = "idle" /\ req' = [req EXCEPT ![c] = r] /\ pc' = [pc EXCEPT ![c] = first]
      /\ UNCHANGED <<rows, gauge, got, faults, known>>
  BY DEF Begin, Goto
<1> HIDE DEF r
<1>2. TypeOK
  BY DEF IInv
<1>3. TypeOK'
  BY <1>0, <1>1, <1>2 DEF TypeOK, Section
<1>4. /\ pc'[c] = first /\ req'[c] = r
      /\ \A d \in Client \ {c} : pc'[d] = pc[d] /\ req'[d] = req[d] /\ got'[d] = got[d]
  BY <1>1, <1>2 DEF TypeOK
<1>5. CallIsSound(c)'
  <2>1. first = "insert" => Unshared(c)'
    BY <1>0, <1>1, <1>4 DEF Fresh, Unshared
  <2> QED
    BY <1>0, <1>4, <2>1 DEF CallIsSound
<1>6. ASSUME NEW d \in Client \ {c} PROVE CallIsSound(d)'
  <2>1. CallIsSound(d) /\ KnownExist /\ RowsMoveOn
    BY <1>1 DEF IInv, RowsMoveOn
  <2>2. ASSUME pc[d] = "insert" PROVE i # req[d].id
    <3>1. rows[req[d].id] = Absent
      BY <2>1, <2>2 DEF CallIsSound, Unshared
    <3>2. Fresh(i) => req[d].id # i
      BY <2>2 DEF Fresh
    <3> QED
      BY <2>1, <3>1, <3>2 DEF Askable, KnownExist
  <2> QED
    BY <1>0, <1>1, <1>2, <1>4, <2>1, <2>2, OthersKeep
<1>7. KnownExist'
  BY <1>1 DEF IInv, KnownExist
<1>8. \A o \in {"create", "decide"}, u \in Tenant : Uncounted(o, u)' = Uncounted(o, u)
  <2>1. pc[c] \notin {"reread", "count"} /\ pc'[c] \notin {"reread", "count"}
    BY <1>1, <1>4
  <2> QED
    BY <1>4, <2>1 DEF Uncounted
<1>9. \A u \in Tenant : GaugeIsSound(u)'
  BY <1>1, <1>8, GaugeStays DEF IInv
<1> QED
  BY <1>3, <1>5, <1>6, <1>7, <1>9 DEF IInv

(* Whichever method is called (state/store.py 108-164).                    *)
LEMMA CallIInv ==
  ASSUME IInv, NEW c \in Client, Call(c)
  PROVE  IInv'
<1>1. ASSUME NEW i \in Id, NEW t \in Tenant, create_pending(c, i, t) PROVE IInv'
  <2>1. [op |-> "create", id |-> i, tenant |-> t, verdict |-> "none", client |-> c] \in Request
    BY DEF Request
  <2> QED
    BY <1>1, <2>1, BeginIInv DEF create_pending, OpOf, Askable
<1>2. ASSUME NEW i \in Id, NEW t \in Tenant, get(c, i, t) PROVE IInv'
  <2>1. [op |-> "get", id |-> i, tenant |-> t, verdict |-> "none", client |-> c] \in Request
    BY DEF Request
  <2> QED
    BY <1>2, <2>1, BeginIInv DEF get, OpOf
<1>3. ASSUME NEW i \in Id, NEW t \in Tenant, NEW v \in Verdict, decide(c, i, t, v) PROVE IInv'
  <2>1. [op |-> "decide", id |-> i, tenant |-> t, verdict |-> v, client |-> c] \in Request
    BY DEF Request
  <2> QED
    BY <1>3, <2>1, BeginIInv DEF decide, OpOf
<1>4. ASSUME NEW t \in Tenant, list_pending(c, t) PROVE IInv'
  <2>1. known' = known \cup PendingOf(t) /\ UNCHANGED <<rows, gauge, pc, req, got, faults>>
    BY <1>4 DEF list_pending
  <2>2. TypeOK'
    BY <2>1 DEF IInv, TypeOK, PendingOf
  <2>3. \A d \in Client : CallIsSound(d)'
    BY <2>1 DEF IInv, CallIsSound, Unshared
  <2>4. KnownExist'
    BY <2>1 DEF IInv, KnownExist, PendingOf, Absent
  <2>5. \A u \in Tenant : GaugeIsSound(u)'
    BY <2>1, GaugeStays DEF IInv, Uncounted
  <2> QED
    BY <2>2, <2>3, <2>4, <2>5 DEF IInv
<1> QED
  BY <1>1, <1>2, <1>3, <1>4 DEF Call

-----------------------------------------------------------------------------
(* A pending row more is one more of its tenant.                           *)
LEMMA CardAdd ==
  ASSUME NEW S, IsFiniteSet(S), NEW x, x \notin S
  PROVE  /\ IsFiniteSet(S \cup {x}) /\ Cardinality(S) \in Nat
         /\ Cardinality(S \cup {x}) = Cardinality(S) + 1
BY FS_AddElement, FS_CardinalityType

(* A pending row less is one less of its tenant.                           *)
LEMMA CardRemove ==
  ASSUME NEW S, IsFiniteSet(S), NEW x \in S
  PROVE  /\ IsFiniteSet(S \ {x}) /\ Cardinality(S) \in Nat
         /\ Cardinality(S \ {x}) = Cardinality(S) - 1
BY FS_RemoveElement, FS_CardinalityType

(* A critical section of a call that goes on: what holds of its caller.    *)
LEMMA CallFacts ==
  ASSUME IInv, NEW c \in Client, pc[c] # "idle"
  PROVE  /\ TypeOK /\ req[c] \in Request /\ req[c].client = c /\ req[c].op \in OpOf(pc[c])
         /\ req[c].id \in Id /\ req[c].tenant \in Tenant /\ rows[req[c].id] \in Row
         /\ pc[c] = "insert" => Unshared(c)
         /\ pc[c] \in {"reread", "count"} => Wrote(req[c], rows[req[c].id])
         /\ pc[c] = "count" => Wrote(req[c], got[c])
BY RequestType DEF IInv, CallIsSound, TypeOK

(* A write of its row takes a thread on to reading it back.                *)
LEMMA WriteIInv ==
  ASSUME IInv, NEW c \in Client, pc[c] \in {"insert", "update"}, NEW row \in Row,
         Wrote(req[c], row), row # Absent,
         \/ pc[c] = "insert"
         \/ rows[req[c].id].status = "pending" /\ rows[req[c].id].tenant = req[c].tenant,
         rows' = [rows EXCEPT ![req[c].id] = row], pc' = [pc EXCEPT ![c] = "reread"],
         UNCHANGED <<gauge, req, got, faults, known>>,
         pc[c] = "insert" => row.status = "pending",
         pc[c] = "update" => row.status # "pending"
  PROVE  IInv'
<1> DEFINE r == req[c]
           t == r.tenant
<1>1. /\ TypeOK /\ r \in Request /\ r.client = c /\ r.op \in OpOf(pc[c])
      /\ r.id \in Id /\ t \in Tenant
      /\ pc[c] = "insert" => Unshared(c)
  BY CallFacts
<1>2. TypeOK'
  BY <1>1 DEF TypeOK, Section
<1>3. /\ rows'[r.id] = row /\ \A j \in Id \ {r.id} : rows'[j] = rows[j]
      /\ pc'[c] = "reread" /\ req'[c] = r
      /\ \A d \in Client \ {c} : pc'[d] = pc[d] /\ req'[d] = req[d] /\ got'[d] = got[d]
  BY <1>1 DEF TypeOK
<1>4. RowsMoveOn
  BY <1>1, <1>3 DEF RowsMoveOn, Unshared, Wrote
<1>5. CallIsSound(c)'
  BY <1>1, <1>3 DEF CallIsSound, OpOf
<1>6. ASSUME NEW d \in Client \ {c} PROVE CallIsSound(d)'
  <2>1. CallIsSound(d)
    BY DEF IInv
  <2>2. ASSUME pc[d] = "insert" PROVE r.id # req[d].id /\ req[d].id \in Id
    <3>1. req[d] \in Request /\ Unshared(d)
      BY <2>2, CallFacts
    <3> QED
      BY <3>1, RequestType DEF Unshared
  <2> QED
    BY <1>1, <1>3, <1>4, <2>1, <2>2, OthersKeep
<1>7. KnownExist'
  BY <1>1, <1>4, KnownStay DEF IInv, TypeOK
<1>8. ASSUME NEW u \in Tenant PROVE GaugeIsSound(u)'
  <2>1. GaugeIsSound(u) /\ gauge' = gauge /\ faults' = faults /\ gauge[u] \in Int
    BY <1>1 DEF IInv, TypeOK
  <2>2. CASE u # t
    <3>1. rows[r.id].tenant # u /\ rows'[r.id].tenant # u
      BY <1>1, <1>3, <2>2, NullsAreNew DEF Unshared, Absent, Wrote
    <3>2. PendingOf(u)' = PendingOf(u)
      BY <1>3, <3>1 DEF PendingOf
    <3>3. \A op : Uncounted(op, u)' = Uncounted(op, u)
      BY <1>3, <2>2 DEF Uncounted
    <3> QED
      BY <2>1, <3>2, <3>3 DEF GaugeIsSound
  <2>3. CASE u = t /\ pc[c] = "insert"
    <3>1. PendingOf(t)' = PendingOf(t) \cup {r.id} /\ r.id \notin PendingOf(t)
      BY <1>1, <1>3, <2>3 DEF PendingOf, Unshared, Absent, Wrote
    <3>2. Uncounted("create", t)' = Uncounted("create", t) \cup {c} /\ c \notin Uncounted("create", t)
      BY <1>1, <1>3, <2>3 DEF Uncounted, OpOf
    <3>3. Uncounted("decide", t)' = Uncounted("decide", t)
      BY <1>1, <1>3, <2>3 DEF Uncounted, OpOf
    <3>4. /\ IsFiniteSet(PendingOf(t)') /\ Cardinality(PendingOf(t)) \in Nat
          /\ Cardinality(PendingOf(t)') = Cardinality(PendingOf(t)) + 1
      BY <2>1, <2>3, <3>1, CardAdd DEF GaugeIsSound
    <3>5. /\ IsFiniteSet(Uncounted("create", t)') /\ Cardinality(Uncounted("create", t)) \in Nat
          /\ Cardinality(Uncounted("create", t)') = Cardinality(Uncounted("create", t)) + 1
      <4>1. IsFiniteSet(Uncounted("create", t))
        BY <2>1, <2>3 DEF GaugeIsSound
      <4> QED
        BY <3>2, <4>1, CardAdd
    <3>6. Cardinality(Uncounted("decide", t)) \in Nat
      BY <2>1, <2>3, FS_CardinalityType DEF GaugeIsSound
    <3> QED
      BY <2>1, <2>3, <3>3, <3>4, <3>5, <3>6 DEF GaugeIsSound
  <2>4. CASE u = t /\ pc[c] = "update"
    <3>1. PendingOf(t)' = PendingOf(t) \ {r.id} /\ r.id \in PendingOf(t)
      BY <1>1, <1>3, <2>4 DEF PendingOf, Wrote
    <3>2. Uncounted("decide", t)' = Uncounted("decide", t) \cup {c} /\ c \notin Uncounted("decide", t)
      BY <1>1, <1>3, <2>4 DEF Uncounted, OpOf
    <3>3. Uncounted("create", t)' = Uncounted("create", t)
      BY <1>1, <1>3, <2>4 DEF Uncounted, OpOf
    <3>4. /\ IsFiniteSet(PendingOf(t)') /\ Cardinality(PendingOf(t)) \in Nat
          /\ Cardinality(PendingOf(t)') = Cardinality(PendingOf(t)) - 1
      BY <2>1, <2>4, <3>1, CardRemove DEF GaugeIsSound
    <3>5. /\ IsFiniteSet(Uncounted("decide", t)') /\ Cardinality(Uncounted("decide", t)) \in Nat
          /\ Cardinality(Uncounted("decide", t)') = Cardinality(Uncounted("decide", t)) + 1
      <4>1. IsFiniteSet(Uncounted("decide", t))
        BY <2>1, <2>4 DEF GaugeIsSound
      <4> QED
        BY <3>2, <4>1, CardAdd
    <3>6. Cardinality(Uncounted("create", t)) \in Nat
      BY <2>1, <2>4, FS_CardinalityType DEF GaugeIsSound
    <3> QED
      BY <2>1, <2>4, <3>3, <3>4, <3>5, <3>6 DEF GaugeIsSound
  <2> QED
    BY <2>2, <2>3, <2>4
<1> QED
  BY <1>2, <1>5, <1>6, <1>7, <1>8 DEF IInv

(* INSERT adds a pending row that its own call has yet to count            *)
(* (state/store.py 111-127).                                               *)
LEMMA InsertIInv ==
  ASSUME IInv, NEW c \in Client, Insert(c)
  PROVE  IInv'
<1>1. /\ pc[c] = "insert" /\ req[c] \in Request /\ req[c].op \in OpOf("insert")
      /\ rows' = [rows EXCEPT ![req[c].id] = Pending(req[c])] /\ pc' = [pc EXCEPT ![c] = "reread"]
      /\ UNCHANGED <<gauge, req, got, faults, known>>
  BY CallFacts DEF Insert, Goto
<1>2. Wrote(req[c], Pending(req[c]))
  BY <1>1, WrittenType DEF Wrote, OpOf
<1> QED
  BY <1>1, <1>2, WrittenType, WriteIInv

(* A call that ends or is refused, or that reads and has nothing to count. *)
LEMMA AnswerIInv ==
  ASSUME IInv, NEW c \in Client, pc[c] \notin {"idle", "count"}, NEW next \in Outcome,
         pc[c] = "reread" => faults' > 0,
         pc' = [pc EXCEPT ![c] = next], faults' \in {faults, faults + 1}, faults' \in 0..MaxFaults,
         got' \in [Client -> Row], \A d \in Client \ {c} : got'[d] = got[d],
         req[c].op \in OpOf(next), UNCHANGED <<rows, gauge, req, known>>
  PROVE  IInv'
<1>1. TypeOK /\ req[c] \in Request /\ req[c].client = c /\ faults \in Nat
  BY CallFacts DEF TypeOK
<1>2. TypeOK'
  BY <1>1 DEF TypeOK
<1>3. /\ pc'[c] = next /\ req'[c] = req[c]
      /\ \A d \in Client \ {c} : pc'[d] = pc[d] /\ req'[d] = req[d] /\ got'[d] = got[d]
  BY <1>1 DEF TypeOK
<1>4. CallIsSound(c)'
  BY <1>1, <1>3 DEF CallIsSound, Outcome
<1>5. ASSUME NEW d \in Client \ {c} PROVE CallIsSound(d)'
  <2>1. CallIsSound(d) /\ RowsMoveOn
    BY DEF IInv, RowsMoveOn
  <2>2. pc[d] = "insert" => req[c].id # req[d].id
    BY <2>1 DEF CallIsSound, Unshared
  <2> QED
    BY <1>1, <1>3, <2>1, <2>2, OthersKeep
<1>6. KnownExist'
  BY DEF IInv, KnownExist
<1>7. ASSUME NEW u \in Tenant PROVE GaugeIsSound(u)'
  <2>1. GaugeIsSound(u) /\ PendingOf(u)' = PendingOf(u)
    BY DEF IInv, PendingOf
  <2>2. CASE pc[c] = "reread"
    <3>1. /\ Uncounted("create", u)' = Uncounted("create", u) \ {c}
          /\ Uncounted("decide", u)' = Uncounted("decide", u) \ {c}
      BY <1>3 DEF Uncounted, Outcome
    <3>2. IsFiniteSet(Uncounted("create", u)') /\ IsFiniteSet(Uncounted("decide", u)')
      BY <2>1, <3>1, FS_RemoveElement DEF GaugeIsSound
    <3> QED
      BY <2>1, <2>2, <3>2 DEF GaugeIsSound
  <2>3. CASE pc[c] # "reread"
    <3>1. /\ Uncounted("create", u)' = Uncounted("create", u)
          /\ Uncounted("decide", u)' = Uncounted("decide", u)
      BY <1>3, <2>3 DEF Uncounted, Outcome
    <3>2. faults' = 0 => faults = 0
      BY <1>1
    <3> QED
      BY <2>1, <3>1, <3>2 DEF GaugeIsSound
  <2> QED
    BY <2>2, <2>3
<1> QED
  BY <1>2, <1>4, <1>5, <1>6, <1>7 DEF IInv

(* UPDATE takes a pending row that its own call has yet to count, or       *)
(* matches nothing and is refused (state/store.py 143-151).                *)
LEMMA UpdateIInv ==
  ASSUME IInv, NEW c \in Client, Update(c)
  PROVE  IInv'
<1>1. /\ pc[c] = "update" /\ TypeOK /\ req[c] \in Request /\ req[c].op = "decide"
      /\ UNCHANGED <<gauge, req, got, faults, known>>
  BY CallFacts DEF Update, OpOf
<1>2. CASE UpdateMatches(req[c]) /\ rows' = Updated(req[c]) /\ Goto(c, "reread")
  <2>1. rows' = [rows EXCEPT ![req[c].id] = Decided(req[c])] /\ pc' = [pc EXCEPT ![c] = "reread"]
    BY <1>1, <1>2, UpdatedType DEF Goto
  <2>2. /\ Decided(req[c]) \in Row /\ Wrote(req[c], Decided(req[c]))
        /\ Decided(req[c]) # Absent /\ Decided(req[c]).status # "pending"
    BY <1>1, WrittenType DEF Wrote
  <2>3. rows[req[c].id].status = "pending" /\ rows[req[c].id].tenant = req[c].tenant
    BY <1>2 DEF UpdateMatches
  <2> QED
    BY <1>1, <2>1, <2>2, <2>3, WriteIInv
<1>3. CASE Goto(c, "refused") /\ UNCHANGED rows
  <2>1. /\ pc' = [pc EXCEPT ![c] = "refused"] /\ "refused" \in Outcome
        /\ req[c].op \in OpOf("refused") /\ faults' \in 0..MaxFaults /\ got' \in [Client -> Row]
    BY <1>1, <1>3 DEF Goto, Outcome, OpOf, TypeOK
  <2> QED
    BY <1>1, <1>3, <2>1, AnswerIInv
<1> QED
  BY <1>2, <1>3 DEF Update

(* get answers its row; create_pending and decide find theirs, the decided *)
(* one as they left it, and go on to count it (store.py 128-156).          *)
LEMMA SelectIInv ==
  ASSUME IInv, NEW c \in Client, Select(c)
  PROVE  IInv'
<1> DEFINE r == req[c]
<1>1. /\ pc[c] \in {"select", "reread"} /\ UNCHANGED <<rows, gauge, req, faults, known>>
  BY DEF Select
<1>2. /\ TypeOK /\ r \in Request /\ r.client = c /\ r.op \in OpOf(pc[c]) /\ rows[r.id] \in Row
      /\ pc[c] = "reread" => Wrote(r, rows[r.id])
  BY <1>1, CallFacts
<1>3. CASE pc[c] = "reread"
  <2>1. SelectMatches(r)
    BY <1>2, <1>3 DEF SelectMatches, Wrote
  <2>2. got' = [got EXCEPT ![c] = rows[r.id]] /\ pc' = [pc EXCEPT ![c] = "count"]
    BY <1>3, <2>1 DEF Select, Goto
  <2>3. TypeOK'
    BY <1>1, <1>2, <2>2 DEF TypeOK, Section
  <2>4. /\ pc'[c] = "count" /\ req'[c] = r /\ got'[c] = rows[r.id]
        /\ \A d \in Client \ {c} : pc'[d] = pc[d] /\ req'[d] = req[d] /\ got'[d] = got[d]
    BY <1>1, <1>2, <2>2 DEF TypeOK
  <2>5. CallIsSound(c)'
    BY <1>1, <1>2, <1>3, <2>4 DEF CallIsSound, OpOf
  <2>6. ASSUME NEW d \in Client \ {c} PROVE CallIsSound(d)'
    <3>1. CallIsSound(d) /\ RowsMoveOn
      BY <1>1 DEF IInv, RowsMoveOn
    <3>2. pc[d] = "insert" => r.id # req[d].id
      BY <1>3, <3>1 DEF CallIsSound, Unshared
    <3> QED
      BY <1>1, <1>2, <2>4, <3>1, <3>2, OthersKeep
  <2>7. \A op \in {"create", "decide"}, t \in Tenant : Uncounted(op, t)' = Uncounted(op, t)
    BY <1>1, <1>3, <2>4 DEF Uncounted
  <2> QED
    BY <1>1, <2>3, <2>5, <2>6, <2>7, GaugeStays DEF IInv, KnownExist
<1>4. CASE pc[c] = "select"
  <2>1. PICK next \in {"ok", "none"} : pc' = [pc EXCEPT ![c] = next]
    BY <1>4 DEF Select, Goto
  <2>2. got' \in [Client -> Row] /\ \A d \in Client \ {c} : got'[d] = got[d]
    BY <1>2 DEF Select, TypeOK
  <2>3. next \in Outcome /\ r.op \in OpOf(next) /\ faults' \in 0..MaxFaults
    BY <1>1, <1>2, <1>4 DEF Outcome, OpOf, TypeOK
  <2> QED
    BY <1>1, <1>4, <2>1, <2>2, <2>3, AnswerIInv
<1> QED
  BY <1>1, <1>3, <1>4

(* The gauge catches up with a call by one, for its caller's tenant        *)
(* (store.py 131, 155).                                                    *)
LEMMA CountIInv ==
  ASSUME IInv, NEW c \in Client, Count(c)
  PROVE  IInv'
<1> DEFINE r == req[c]
           t == r.tenant
<1>1. /\ pc[c] = "count" /\ TypeOK /\ r \in Request /\ r.client = c /\ r.op \in {"create", "decide"}
      /\ r.id \in Id /\ t \in Tenant /\ Wrote(r, rows[r.id]) /\ got[c].tenant = t
  BY CallFacts DEF Count, OpOf, Wrote
<1>2. /\ gauge' = [gauge EXCEPT ![t] = IF r.op = "create" THEN gauge[t] + 1 ELSE gauge[t] - 1]
      /\ known' = known \cup {r.id} /\ pc' = [pc EXCEPT ![c] = "ok"]
      /\ UNCHANGED <<rows, req, got, faults>>
  BY <1>1 DEF Count, Goto
<1>3. TypeOK'
  BY <1>1, <1>2 DEF TypeOK, Outcome
<1>4. /\ pc'[c] = "ok" /\ req'[c] = r
      /\ \A d \in Client \ {c} : pc'[d] = pc[d] /\ req'[d] = req[d] /\ got'[d] = got[d]
  BY <1>1, <1>2 DEF TypeOK
<1>5. CallIsSound(c)'
  BY <1>1, <1>4 DEF CallIsSound, OpOf
<1>6. ASSUME NEW d \in Client \ {c} PROVE CallIsSound(d)'
  <2>1. CallIsSound(d) /\ RowsMoveOn
    BY <1>2 DEF IInv, RowsMoveOn
  <2>2. pc[d] = "insert" => r.id # req[d].id
    BY <1>1, <2>1 DEF CallIsSound, Unshared
  <2> QED
    BY <1>1, <1>2, <1>4, <2>1, <2>2, OthersKeep
<1>7. KnownExist'
  <2>1. rows[r.id] # Absent
    BY <1>1, NullsAreNew DEF Wrote, Absent
  <2> QED
    BY <1>2, <2>1 DEF IInv, KnownExist
<1>8. ASSUME NEW u \in Tenant PROVE GaugeIsSound(u)'
  <2>0. /\ IsFiniteSet(PendingOf(u))
        /\ IsFiniteSet(Uncounted("create", u)) /\ IsFiniteSet(Uncounted("decide", u))
    BY DEF IInv, GaugeIsSound
  <2>1. /\ GaugeIsSound(u) /\ PendingOf(u)' = PendingOf(u) /\ faults' = faults
        /\ gauge[u] \in Int /\ Cardinality(PendingOf(u)) \in Nat
        /\ Cardinality(Uncounted("create", u)) \in Nat /\ Cardinality(Uncounted("decide", u)) \in Nat
    <3>1. GaugeIsSound(u) /\ PendingOf(u)' = PendingOf(u) /\ faults' = faults /\ gauge[u] \in Int
      BY <1>1, <1>2 DEF IInv, PendingOf, TypeOK
    <3> QED
      BY <2>0, <3>1, FS_CardinalityType
  <2>2. CASE u # t
    <3>1. \A op : Uncounted(op, u)' = Uncounted(op, u)
      BY <1>1, <1>4, <2>2 DEF Uncounted
    <3>2. gauge'[u] = gauge[u]
      BY <1>1, <1>2, <2>2 DEF TypeOK
    <3> QED
      BY <2>1, <3>1, <3>2 DEF GaugeIsSound
  <2>3. CASE u = t /\ r.op = "create"
    <3>1. /\ Uncounted("create", u)' = Uncounted("create", u) \ {c} /\ c \in Uncounted("create", u)
          /\ Uncounted("decide", u)' = Uncounted("decide", u)
      BY <1>1, <1>4, <2>3 DEF Uncounted
    <3>2. gauge'[u] = gauge[u] + 1
      BY <1>1, <1>2, <2>3 DEF TypeOK
    <3>3. /\ IsFiniteSet(Uncounted("create", u)')
          /\ Cardinality(Uncounted("create", u)') = Cardinality(Uncounted("create", u)) - 1
      BY <2>1, <3>1, CardRemove DEF GaugeIsSound
    <3> QED
      BY <2>1, <3>1, <3>2, <3>3 DEF GaugeIsSound
  <2>4. CASE u = t /\ r.op = "decide"
    <3>1. /\ Uncounted("decide", u)' = Uncounted("decide", u) \ {c} /\ c \in Uncounted("decide", u)
          /\ Uncounted("create", u)' = Uncounted("create", u)
      BY <1>1, <1>4, <2>4 DEF Uncounted
    <3>2. gauge'[u] = gauge[u] - 1
      BY <1>1, <1>2, <2>4 DEF TypeOK
    <3>3. /\ IsFiniteSet(Uncounted("decide", u)')
          /\ Cardinality(Uncounted("decide", u)') = Cardinality(Uncounted("decide", u)) - 1
      BY <2>1, <3>1, CardRemove DEF GaugeIsSound
    <3> QED
      BY <2>1, <3>1, <3>2, <3>3 DEF GaugeIsSound
  <2> QED
    BY <1>1, <2>2, <2>3, <2>4
<1> QED
  BY <1>3, <1>5, <1>6, <1>7, <1>8 DEF IInv

(* A statement raises, and the gauge is wrong from then on.                *)
LEMMA FailIInv ==
  ASSUME IInv, NEW c \in Client, Fail(c)
  PROVE  IInv'
<1>1. /\ pc[c] \in {"insert", "update", "select", "reread"} /\ pc' = [pc EXCEPT ![c] = "error"]
      /\ faults < MaxFaults /\ faults' = faults + 1 /\ UNCHANGED <<rows, gauge, req, got, known>>
  BY DEF Fail, Goto
<1>2. TypeOK /\ req[c] \in Request
  BY <1>1, CallFacts
<1>3. faults' > 0 /\ faults' \in 0..MaxFaults
  BY <1>1, <1>2, FaultsAreBounded DEF TypeOK
<1>4. got' \in [Client -> Row] /\ "error" \in Outcome /\ req[c].op \in OpOf("error")
  BY <1>1, <1>2, RequestType DEF TypeOK, Outcome, OpOf
<1> QED
  BY <1>1, <1>3, <1>4, AnswerIInv

(* A thread is free again once its call has returned or raised.            *)
LEMMA ReturnIInv ==
  ASSUME IInv, NEW c \in Client, Return(c)
  PROVE  IInv'
<1>1. /\ pc[c] \in Outcome /\ pc' = [pc EXCEPT ![c] = "idle"]
      /\ req' = [req EXCEPT ![c] = NoCall] /\ got' = [got EXCEPT ![c] = Absent]
      /\ UNCHANGED <<rows, gauge, faults, known>>
  BY DEF Return, Goto
<1>2. TypeOK
  BY DEF IInv
<1>3. TypeOK'
  BY <1>1, <1>2 DEF TypeOK, Row
<1>4. /\ pc'[c] = "idle" /\ req'[c] = NoCall
      /\ \A d \in Client \ {c} : pc'[d] = pc[d] /\ req'[d] = req[d] /\ got'[d] = got[d]
  BY <1>1, <1>2 DEF TypeOK
<1>5. CallIsSound(c)'
  BY <1>4 DEF CallIsSound
<1>6. ASSUME NEW d \in Client \ {c} PROVE CallIsSound(d)'
  <2>1. CallIsSound(d) /\ RowsMoveOn
    BY <1>1 DEF IInv, RowsMoveOn
  <2> QED
    BY <1>1, <1>2, <1>4, <2>1, OthersKeep
<1>7. \A op \in {"create", "decide"}, t \in Tenant : Uncounted(op, t)' = Uncounted(op, t)
  BY <1>1, <1>4 DEF Uncounted, Outcome
<1> QED
  BY <1>1, <1>3, <1>5, <1>6, <1>7, GaugeStays DEF IInv, KnownExist

-----------------------------------------------------------------------------
(* A new database has no rows and the gauge starts at zero.                *)
LEMMA InitIInv == Init => IInv
<1> SUFFICES ASSUME Init PROVE IInv
  OBVIOUS
<1>1. TypeOK
  BY FaultsAreBounded DEF Init, TypeOK, Row
<1>2. \A c \in Client : CallIsSound(c)
  BY DEF Init, CallIsSound
<1>3. ASSUME NEW t \in Tenant PROVE GaugeIsSound(t)
  <2>1. PendingOf(t) = {} /\ Uncounted("create", t) = {} /\ Uncounted("decide", t) = {}
    BY DEF Init, PendingOf, Uncounted, Absent
  <2>2. gauge[t] = 0
    BY DEF Init
  <2> QED
    BY <2>1, <2>2, FS_EmptySet DEF GaugeIsSound
<1> QED
  BY <1>1, <1>2, <1>3 DEF IInv, KnownExist, Init

(* Every step of every thread keeps the invariant.                         *)
LEMMA NextIInv == IInv /\ [Next]_vars => IInv'
<1> SUFFICES ASSUME IInv, [Next]_vars PROVE IInv'
  OBVIOUS
<1>1. CASE UNCHANGED vars
  <2>1. TypeOK' /\ KnownExist'
    BY <1>1 DEF IInv, TypeOK, KnownExist, vars
  <2>2. \A c \in Client : CallIsSound(c)'
    BY <1>1 DEF IInv, CallIsSound, Unshared, vars
  <2>3. \A t \in Tenant : GaugeIsSound(t)'
    BY <1>1, GaugeStays DEF IInv, Uncounted, vars
  <2> QED
    BY <2>1, <2>2, <2>3 DEF IInv
<1> QED
  BY <1>1, CallIInv, InsertIInv, UpdateIInv, SelectIInv, CountIInv, FailIInv, ReturnIInv DEF Next

(* The inductive invariant holds of every reachable state.                 *)
THEOREM Invariance == Spec => []IInv
  BY InitIInv, NextIInv, PTL DEF Spec

(* The store's variables keep their types; a row has a reviewer exactly    *)
(* when it is decided.                                                     *)
THEOREM TypeCorrect == Spec => []TypeOK
<1>1. IInv => TypeOK
  BY DEF IInv
<1> QED
  BY <1>1, Invariance, PTL

(* Whatever the threads did, when none has a call in progress the gauge of *)
(* each tenant is the number of its pending rows, if no statement raised   *)
(* (store.py 131, 155; metrics.py 78).                                     *)
THEOREM GaugeIsRightAtRest == Spec => []GaugeAtRest
<1>1. IInv => GaugeAtRest
  <2> SUFFICES ASSUME IInv, \A c \in Client : pc[c] = "idle", faults = 0, NEW t \in Tenant
               PROVE  gauge[t] = Cardinality(PendingOf(t))
    BY DEF GaugeAtRest
  <2>1. Uncounted("create", t) = {} /\ Uncounted("decide", t) = {}
    BY DEF Uncounted
  <2>2. /\ IsFiniteSet(PendingOf(t))
        /\ gauge[t] = Cardinality(PendingOf(t)) - Cardinality(Uncounted("create", t))
                        + Cardinality(Uncounted("decide", t))
    BY DEF IInv, GaugeIsSound
  <2>3. Cardinality(PendingOf(t)) \in Nat
    BY <2>2, FS_CardinalityType
  <2>4. Cardinality(Uncounted("create", t)) = 0 /\ Cardinality(Uncounted("decide", t)) = 0
    BY <2>1, FS_EmptySet
  <2> QED
    BY <2>2, <2>3, <2>4
<1> QED
  BY <1>1, Invariance, PTL

-----------------------------------------------------------------------------
(* The call of ApprovalStore that a thread's stands for, by where it is.   *)
At(r, answer, row) == [op |-> "call", request |-> r, answer |-> answer, row |-> row]

Shown(p, r, row) ==
  CASE p = "idle" -> NoCall
    [] p \in {"insert", "update", "select"} -> At(r, "open", Absent)
    [] p = "reread" -> At(r, "ok", Written(r))
    [] p \in {"count", "ok"} -> At(r, "ok", IF r.op = "create" THEN Written(r) ELSE row)
    [] OTHER -> At(r, p, Absent)

(* AbstractCalls by thread, before and after a step.                       *)
LEMMA CallsAreShown ==
  /\ AbstractCalls = [c \in Client |-> Shown(pc[c], req[c], got[c])]
  /\ AbstractCalls' = [c \in Client |-> Shown(pc'[c], req'[c], got'[c])]
<1> USE DEF AbstractCalls, AbstractAnswer, AbstractRow, Shown, At
<1>1. ASSUME NEW c \in Client PROVE AbstractCalls[c] = Shown(pc[c], req[c], got[c])
  OBVIOUS
<1>2. ASSUME NEW c \in Client PROVE AbstractCalls'[c] = Shown(pc'[c], req'[c], got'[c])
  OBVIOUS
<1>3. /\ AbstractCalls = [c \in Client |-> AbstractCalls[c]]
      /\ AbstractCalls' = [c \in Client |-> AbstractCalls'[c]]
  OBVIOUS
<1> HIDE DEF AbstractCalls, AbstractAnswer, AbstractRow, Shown, At
<1> QED
  BY <1>1, <1>2, <1>3

(* A step of a thread is one of its call.                                  *)
LEMMA CallsChange ==
  ASSUME NEW c \in Client,
         \A d \in Client \ {c} : pc'[d] = pc[d] /\ req'[d] = req[d] /\ got'[d] = got[d]
  PROVE  /\ AbstractCalls[c] = Shown(pc[c], req[c], got[c])
         /\ AbstractCalls' = SetRow(AbstractCalls, c, Shown(pc'[c], req'[c], got'[c]))
BY CallsAreShown DEF SetRow

SetAnswer(f, c, v, w) == [f EXCEPT ![c].answer = v, ![c].row = w]

(* Answers of ApprovalStore replaces the call.                             *)
LEMMA Answering ==
  ASSUME NEW c \in Client, NEW r, NEW a, NEW row, AbstractCalls[c] = At(r, a, row), NEW v, NEW w,
         AbstractCalls' = SetRow(AbstractCalls, c, At(r, v, w))
  PROVE  AbstractCalls' = SetAnswer(AbstractCalls, c, v, w)
<1> USE DEF SetAnswer, SetRow
<1> DEFINE old == AbstractCalls[c]
           half == [AbstractCalls EXCEPT ![c].answer = v]
<1>1. AbstractCalls = [d \in Client |-> AbstractCalls[d]]
  BY DEF AbstractCalls
<1>2. [old EXCEPT !.answer = v] = At(r, v, row)
  <2>1. old = At(r, a, row)
    OBVIOUS
  <2> HIDE DEF old
  <2> QED
    BY <2>1 DEF At
<1>3. half = [AbstractCalls EXCEPT ![c] = At(r, v, row)]
  BY <1>2
<1> HIDE DEF half, old
<1>4. half[c] = At(r, v, row) /\ half = [d \in Client |-> half[d]]
      /\ \A d \in Client \ {c} : half[d] = AbstractCalls[d]
  BY <1>1, <1>3
<1> DEFINE mid == half[c]
<1>5. [mid EXCEPT !.row = w] = At(r, v, w)
  <2>1. mid = At(r, v, row)
    BY <1>4
  <2> HIDE DEF mid
  <2> QED
    BY <2>1 DEF At
<1>6. [half EXCEPT ![c].row = w] = [half EXCEPT ![c] = At(r, v, w)]
  BY <1>5
<1>7. [half EXCEPT ![c] = At(r, v, w)] = [AbstractCalls EXCEPT ![c] = At(r, v, w)]
  BY <1>1, <1>4
<1> QED
  BY <1>6, <1>7 DEF half

(* The steps of ApprovalStore, on the calls and rows of this store.        *)
LEMMA Invokes ==
  ASSUME NEW c \in Client, NEW r \in Request, AbstractCalls[c] = NoCall, r.client = c,
         AbstractCalls' = SetRow(AbstractCalls, c, At(r, "open", Absent)), rows' = rows
  PROVE  Contract!Next
<1>1. Contract!Invoke(c, r)
  BY DEF Contract!Invoke, At, SetRow, Contract!NoCall, NoCall, Contract!Absent, Absent
<1> QED
  BY <1>1 DEF Contract!Next, Contract!Request, Request

(* What ApprovalStore sees of such a call.                                 *)
LEMMA IsOpen ==
  ASSUME NEW c \in Client, NEW r, NEW a, NEW row, AbstractCalls[c] = At(r, a, row)
  PROVE  /\ AbstractCalls[c].request = r /\ AbstractCalls[c].answer = a
         /\ AbstractCalls[c] # Contract!NoCall
         /\ Contract!Open(c) <=> a = "open"
<1>1. AbstractCalls[c].request = r /\ AbstractCalls[c].answer = a /\ AbstractCalls[c] # Contract!NoCall
  BY DEF At, Contract!NoCall
<1> QED
  BY <1>1 DEF Contract!Open

(* INSERT and a matching UPDATE are Succeed (state/store.py 111-127,       *)
(* 143-149).                                                               *)
LEMMA Succeeds ==
  ASSUME NEW c \in Client, NEW r \in Request, AbstractCalls[c] = At(r, "open", Absent),
         \/ r.op = "create" /\ rows[r.id] = Absent
         \/ r.op = "decide" /\ UpdateMatches(r),
         AbstractCalls' = SetRow(AbstractCalls, c, At(r, "ok", Written(r))),
         rows' = SetRow(rows, r.id, Written(r))
  PROVE  Contract!Next
<1>1. Contract!Written(r) = Written(r)
  BY DEF Contract!Written, Contract!Pending, Contract!Decided, Written, Pending, Decided
<1>2. AbstractCalls[c].request = r /\ Contract!Open(c)
  BY IsOpen
<1>3. Contract!CanApply(r) /\ Contract!Apply(r)
  BY <1>1 DEF Contract!CanApply, Contract!Apply, Contract!Decidable, Contract!Visible,
              Contract!Absent, Absent, UpdateMatches, SetRow
<1>4. Contract!Answers(c, "ok", Contract!Written(r))
  <2>1. AbstractCalls' = SetAnswer(AbstractCalls, c, "ok", Contract!Written(r))
    BY <1>1, Answering
  <2> QED
    BY <2>1 DEF Contract!Answers, SetAnswer
<1>5. Contract!Succeed(c)
  BY <1>2, <1>3, <1>4
     DEF Contract!Succeed, Contract!CanApply, Contract!Apply, Contract!Answers
<1> QED
  BY <1>5 DEF Contract!Next

(* An UPDATE of no row is Refuse (state/store.py 150-151).                 *)
LEMMA Refuses ==
  ASSUME NEW c \in Client, NEW r \in Request, AbstractCalls[c] = At(r, "open", Absent),
         r.op = "decide", ~ UpdateMatches(r),
         AbstractCalls' = SetRow(AbstractCalls, c, At(r, "refused", Absent)), rows' = rows
  PROVE  Contract!Next
<1>1. AbstractCalls[c].request = r /\ Contract!Open(c)
  BY IsOpen
<1>2. ~ Contract!Decidable(r.id, r.tenant)
  BY DEF Contract!Decidable, Contract!Visible, UpdateMatches
<1>3. Contract!Answers(c, "refused", Contract!Absent)
  <2>1. AbstractCalls' = SetAnswer(AbstractCalls, c, "refused", Contract!Absent)
    BY Answering DEF Contract!Absent, Absent
  <2> QED
    BY <2>1 DEF Contract!Answers, SetAnswer
<1>4. Contract!Refuse(c)
  BY <1>1, <1>2, <1>3 DEF Contract!Refuse
<1> QED
  BY <1>4 DEF Contract!Next

(* The SELECT by id and tenant is Read (state/store.py 158-164).           *)
LEMMA Reads ==
  ASSUME NEW c \in Client, NEW r \in Request, AbstractCalls[c] = At(r, "open", Absent), r.op = "get",
         \/ /\ SelectMatches(r)
            /\ AbstractCalls' = SetRow(AbstractCalls, c, At(r, "ok", rows[r.id]))
         \/ /\ ~ SelectMatches(r)
            /\ AbstractCalls' = SetRow(AbstractCalls, c, At(r, "none", Absent)),
         rows' = rows
  PROVE  Contract!Next
<1>1. AbstractCalls[c].request = r /\ Contract!Open(c)
  BY IsOpen
<1>2. Contract!Visible(r.id, r.tenant) <=> SelectMatches(r)
  BY DEF Contract!Visible, SelectMatches
<1>3. CASE /\ SelectMatches(r)
           /\ AbstractCalls' = SetRow(AbstractCalls, c, At(r, "ok", rows[r.id]))
  <2>1. AbstractCalls' = SetAnswer(AbstractCalls, c, "ok", rows[r.id])
    BY <1>3, Answering
  <2>2. Contract!Answers(c, "ok", rows[r.id])
    BY <2>1 DEF Contract!Answers, SetAnswer
  <2>3. Contract!Read(c)
    BY <1>1, <1>2, <1>3, <2>2 DEF Contract!Read, Contract!Answers
  <2> QED
    BY <2>3 DEF Contract!Next
<1>4. CASE /\ ~ SelectMatches(r)
           /\ AbstractCalls' = SetRow(AbstractCalls, c, At(r, "none", Absent))
  <2>1. AbstractCalls' = SetAnswer(AbstractCalls, c, "none", Contract!Absent)
    BY <1>4, Answering DEF Contract!Absent, Absent
  <2>2. Contract!Answers(c, "none", Contract!Absent)
    BY <2>1 DEF Contract!Answers, SetAnswer
  <2>3. Contract!Read(c)
    BY <1>1, <1>2, <1>4, <2>2 DEF Contract!Read, Contract!Answers
  <2> QED
    BY <2>3 DEF Contract!Next
<1> QED
  BY <1>3, <1>4

(* An exception of the database, before or after its write, is Raise.      *)
LEMMA Raises ==
  ASSUME NEW c \in Client, NEW r \in Request, NEW answer, NEW row, AbstractCalls[c] = At(r, answer, row),
         AbstractCalls' = SetRow(AbstractCalls, c, At(r, "error", Absent)), rows' = rows
  PROVE  Contract!Next
<1>1. AbstractCalls[c].request = r /\ AbstractCalls[c] # Contract!NoCall
  BY IsOpen
<1>2. AbstractCalls' = SetAnswer(AbstractCalls, c, "error", Contract!Absent)
  BY Answering DEF Contract!Absent, Absent
<1>3. Contract!Raise(c)
  BY <1>1, <1>2 DEF Contract!Raise, SetAnswer
<1> QED
  BY <1>3 DEF Contract!Next

(* An answered call returns.                                               *)
LEMMA Returns ==
  ASSUME NEW c \in Client, NEW r \in Request, NEW answer, NEW row, AbstractCalls[c] = At(r, answer, row),
         answer # "open", AbstractCalls' = SetRow(AbstractCalls, c, NoCall), rows' = rows
  PROVE  Contract!Next
<1>1. AbstractCalls[c] # Contract!NoCall /\ ~ Contract!Open(c)
  BY IsOpen
<1>2. Contract!Return(c)
  BY <1>1 DEF Contract!Return, Contract!NoCall, NoCall, SetRow
<1> QED
  BY <1>2 DEF Contract!Next

(* The gauge and the reread of a written row are nothing to the contract.  *)
LEMMA Stutters ==
  ASSUME AbstractCalls' = AbstractCalls, rows' = rows
  PROVE  UNCHANGED Contract!vars
BY DEF Contract!vars

-----------------------------------------------------------------------------
(* INSERT and UPDATE are where create_pending and decide take effect, and  *)
(* counting is nothing to their clients (state/store.py 108-164).          *)
LEMMA StepImplements ==
  ASSUME IInv, [Next]_vars
  PROVE  [Contract!Next]_(Contract!vars)
<1> DEFINE Goal == Contract!Next \/ UNCHANGED Contract!vars
<1> SUFFICES Goal
  OBVIOUS
<1>0. TypeOK
  BY DEF IInv
<1>1. ASSUME NEW c \in Client,
             \A d \in Client \ {c} : pc'[d] = pc[d] /\ req'[d] = req[d] /\ got'[d] = got[d]
      PROVE  /\ AbstractCalls[c] = Shown(pc[c], req[c], got[c])
             /\ AbstractCalls' = SetRow(AbstractCalls, c, Shown(pc'[c], req'[c], got'[c]))
  BY <1>1, CallsChange
<1>2. ASSUME NEW c \in Client, Call(c) PROVE Goal
  <2>1. ASSUME NEW i \in Id, NEW t \in Tenant, NEW op, NEW v, NEW first,
               [op |-> op, id |-> i, tenant |-> t, verdict |-> v, client |-> c] \in Request,
               first \in {"insert", "update", "select"}, Begin(c, op, i, t, v, first)
        PROVE  Goal
    <3> DEFINE r == [op |-> op, id |-> i, tenant |-> t, verdict |-> v, client |-> c]
    <3>1. r \in Request /\ r.client = c
      BY <2>1
    <3>2. /\ pc[c] = "idle" /\ req' = [req EXCEPT ![c] = r] /\ pc' = [pc EXCEPT ![c] = first]
          /\ UNCHANGED <<rows, got>>
      BY <2>1 DEF Begin, Goto
    <3> HIDE DEF r
    <3>3. pc'[c] = first /\ req'[c] = r
          /\ \A d \in Client \ {c} : pc'[d] = pc[d] /\ req'[d] = req[d] /\ got'[d] = got[d]
      BY <1>0, <3>2 DEF TypeOK
    <3>4. AbstractCalls[c] = NoCall /\ AbstractCalls' = SetRow(AbstractCalls, c, At(r, "open", Absent))
      BY <1>1, <2>1, <3>2, <3>3 DEF Shown
    <3> QED
      BY <3>1, <3>2, <3>4, Invokes
  <2>2. ASSUME NEW i \in Id, NEW t \in Tenant, create_pending(c, i, t) PROVE Goal
    <3>1. [op |-> "create", id |-> i, tenant |-> t, verdict |-> "none", client |-> c] \in Request
      BY DEF Request
    <3> QED
      BY <2>1, <2>2, <3>1 DEF create_pending
  <2>3. ASSUME NEW i \in Id, NEW t \in Tenant, get(c, i, t) PROVE Goal
    <3>1. [op |-> "get", id |-> i, tenant |-> t, verdict |-> "none", client |-> c] \in Request
      BY DEF Request
    <3> QED
      BY <2>1, <2>3, <3>1 DEF get
  <2>4. ASSUME NEW i \in Id, NEW t \in Tenant, NEW v \in Verdict, decide(c, i, t, v) PROVE Goal
    <3>1. [op |-> "decide", id |-> i, tenant |-> t, verdict |-> v, client |-> c] \in Request
      BY DEF Request
    <3> QED
      BY <2>1, <2>4, <3>1 DEF decide
  <2>5. ASSUME NEW t \in Tenant, list_pending(c, t) PROVE Goal
    <3>1. UNCHANGED <<pc, req, got, rows>>
      BY <2>5 DEF list_pending
    <3>2. AbstractCalls' = AbstractCalls
      BY <3>1, CallsAreShown
    <3> QED
      BY <3>1, <3>2, Stutters
  <2> QED
    BY <1>2, <2>2, <2>3, <2>4, <2>5 DEF Call
<1>3. ASSUME NEW c \in Client, Insert(c) \/ Update(c) \/ Select(c) \/ Count(c) \/ Fail(c) \/ Return(c)
      PROVE  Goal
  <2> PICK r \in Request : r = req[c]
    <3>1. pc[c] # "idle"
      BY <1>3 DEF Insert, Update, Select, Count, Fail, Return, Outcome
    <3> QED
      BY <3>1, CallFacts
  <2>1. ASSUME NEW next, pc' = [pc EXCEPT ![c] = next], req' = req,
               \A d \in Client \ {c} : got'[d] = got[d]
        PROVE  /\ AbstractCalls[c] = Shown(pc[c], r, got[c])
               /\ AbstractCalls' = SetRow(AbstractCalls, c, Shown(next, r, got'[c]))
    <3>1. /\ pc'[c] = next /\ req'[c] = r
          /\ \A d \in Client \ {c} : pc'[d] = pc[d] /\ req'[d] = req[d] /\ got'[d] = got[d]
      BY <1>0, <2>1 DEF TypeOK
    <3> QED
      BY <1>1, <3>1
  <2>2. CASE Insert(c)
    <3>1. /\ pc[c] = "insert" /\ rows' = [rows EXCEPT ![r.id] = Pending(r)]
          /\ pc' = [pc EXCEPT ![c] = "reread"] /\ UNCHANGED <<req, got>>
      BY <2>2 DEF Insert, Goto
    <3>2. r.op = "create" /\ rows[r.id] = Absent
      BY <3>1, CallFacts DEF OpOf, Unshared
    <3>3. /\ AbstractCalls[c] = At(r, "open", Absent)
          /\ AbstractCalls' = SetRow(AbstractCalls, c, At(r, "ok", Written(r)))
      BY <2>1, <3>1 DEF Shown
    <3>4. rows' = SetRow(rows, r.id, Written(r))
      BY <3>1, <3>2 DEF Written, SetRow
    <3>5. Contract!Next
      BY <3>2, <3>3, <3>4, Succeeds
    <3> QED
      BY <3>5
  <2>3. CASE Update(c)
    <3>1. pc[c] = "update" /\ UNCHANGED <<req, got>>
      BY <2>3 DEF Update
    <3>2. r.op = "decide" /\ Written(r) = Decided(r)
      BY <3>1, CallFacts DEF OpOf, Written
    <3>3. CASE UpdateMatches(r) /\ rows' = Updated(r) /\ Goto(c, "reread")
      <4>1. rows' = SetRow(rows, r.id, Written(r))
        BY <1>0, <3>2, <3>3, UpdatedType DEF SetRow
      <4>2. /\ AbstractCalls[c] = At(r, "open", Absent)
            /\ AbstractCalls' = SetRow(AbstractCalls, c, At(r, "ok", Written(r)))
        BY <2>1, <3>1, <3>3 DEF Shown, Goto
      <4> QED
        BY <3>2, <3>3, <4>1, <4>2, Succeeds
    <3>4. CASE ~ UpdateMatches(r) /\ Goto(c, "refused") /\ UNCHANGED rows
      <4>1. /\ AbstractCalls[c] = At(r, "open", Absent)
            /\ AbstractCalls' = SetRow(AbstractCalls, c, At(r, "refused", Absent))
        BY <2>1, <3>1, <3>4 DEF Shown, Goto
      <4> QED
        BY <3>2, <3>4, <4>1, Refuses
    <3> QED
      BY <2>3, <3>3, <3>4 DEF Update
  <2>4. CASE Select(c) /\ pc[c] = "select"
    <3>1. r.op = "get" /\ UNCHANGED <<rows, req>>
      BY <2>4, CallFacts DEF Select, OpOf
    <3>2. CASE SelectMatches(r) /\ got' = [got EXCEPT ![c] = rows[r.id]] /\ Goto(c, "ok")
      <4>1. got'[c] = rows[r.id] /\ \A d \in Client \ {c} : got'[d] = got[d]
        BY <1>0, <3>2 DEF TypeOK
      <4>2. /\ AbstractCalls[c] = At(r, "open", Absent)
            /\ AbstractCalls' = SetRow(AbstractCalls, c, At(r, "ok", rows[r.id]))
        BY <2>1, <2>4, <3>1, <3>2, <4>1 DEF Shown, Goto
      <4> QED
        BY <3>1, <3>2, <4>2, Reads
    <3>3. CASE ~ SelectMatches(r) /\ Goto(c, "none") /\ UNCHANGED got
      <4>1. /\ AbstractCalls[c] = At(r, "open", Absent)
            /\ AbstractCalls' = SetRow(AbstractCalls, c, At(r, "none", Absent))
        BY <2>1, <2>4, <3>1, <3>3 DEF Shown, Goto
      <4> QED
        BY <3>1, <3>3, <4>1, Reads
    <3> QED
      BY <2>4, <3>2, <3>3 DEF Select
  <2>5. CASE (Select(c) /\ pc[c] = "reread") \/ Count(c)
    <3>1. UNCHANGED <<rows, req>>
      BY <2>5 DEF Select, Count
    <3>2. PICK next \in {"count", "ok"} :
            /\ pc' = [pc EXCEPT ![c] = next] /\ \A d \in Client \ {c} : got'[d] = got[d]
            /\ Shown(next, r, got'[c]) = Shown(pc[c], r, got[c])
      <4>1. CASE Count(c)
        BY <4>1 DEF Count, Goto, Shown
      <4>2. CASE Select(c) /\ pc[c] = "reread"
        <5>1. Wrote(r, rows[r.id])
          BY <4>2, CallFacts
        <5>2. got' = [got EXCEPT ![c] = rows[r.id]] /\ pc' = [pc EXCEPT ![c] = "count"]
          BY <4>2, <5>1 DEF Select, SelectMatches, Wrote, Goto
        <5>3. got'[c] = rows[r.id] /\ \A d \in Client \ {c} : got'[d] = got[d]
          BY <1>0, <5>2 DEF TypeOK
        <5>4. r.op = "create" \/ got'[c] = Written(r)
          BY <4>2, <5>1, <5>3, CallFacts DEF Wrote, Written, OpOf
        <5> QED
          BY <4>2, <5>2, <5>3, <5>4 DEF Shown
      <4> QED
        BY <2>5, <4>1, <4>2
    <3>3. AbstractCalls' = SetRow(AbstractCalls, c, AbstractCalls[c])
      BY <2>1, <3>1, <3>2
    <3>4. AbstractCalls' = AbstractCalls
      <4>1. AbstractCalls = [d \in Client |-> AbstractCalls[d]]
        BY DEF AbstractCalls
      <4> QED
        BY <3>3, <4>1 DEF SetRow
    <3> QED
      BY <3>1, <3>4, Stutters
  <2>6. CASE Fail(c)
    <3>1. /\ pc[c] \in {"insert", "update", "select", "reread"}
          /\ pc' = [pc EXCEPT ![c] = "error"] /\ UNCHANGED <<rows, req, got>>
      BY <2>6 DEF Fail, Goto
    <3>2. AbstractCalls' = SetRow(AbstractCalls, c, At(r, "error", Absent))
      BY <2>1, <3>1 DEF Shown
    <3>3. PICK answer, row : AbstractCalls[c] = At(r, answer, row)
      BY <2>1, <3>1 DEF Shown
    <3>4. Contract!Next
      BY <3>1, <3>2, <3>3, Raises
    <3> QED
      BY <3>4
  <2>7. CASE Return(c)
    <3>1. /\ pc[c] \in Outcome /\ pc' = [pc EXCEPT ![c] = "idle"] /\ rows' = rows
          /\ req' = [req EXCEPT ![c] = NoCall] /\ got' = [got EXCEPT ![c] = Absent]
      BY <2>7 DEF Return, Goto
    <3>2. /\ pc'[c] = "idle"
          /\ \A d \in Client \ {c} : pc'[d] = pc[d] /\ req'[d] = req[d] /\ got'[d] = got[d]
      BY <1>0, <3>1 DEF TypeOK
    <3>3. AbstractCalls[c] = Shown(pc[c], r, got[c]) /\ AbstractCalls' = SetRow(AbstractCalls, c, NoCall)
      BY <1>1, <3>2 DEF Shown
    <3>4. PICK answer, row : AbstractCalls[c] = At(r, answer, row) /\ answer # "open"
      BY <3>1, <3>3 DEF Shown, Outcome
    <3>5. Contract!Next
      BY <3>1, <3>3, <3>4, Returns
    <3> QED
      BY <3>5
  <2>8. Select(c) => pc[c] \in {"select", "reread"}
    BY DEF Select
  <2> QED
    BY <1>3, <2>2, <2>3, <2>4, <2>5, <2>6, <2>7, <2>8
<1>4. CASE UNCHANGED vars
  <2>1. UNCHANGED <<pc, req, got, rows>>
    BY <1>4 DEF vars
  <2>2. AbstractCalls' = AbstractCalls
    BY <2>1, CallsAreShown
  <2> QED
    BY <2>1, <2>2, Stutters
<1> QED
  BY <1>2, <1>3, <1>4 DEF Next

(* For any threads, ids, tenants and faults, this store is the contract's: *)
(* a call takes effect once, at one instant, and its answer says what      *)
(* (state/store.py 30-60, 108-164).                                        *)
THEOREM SqliteImplementsTheContract == Spec => ImplementsApprovalStore
<1>1. Init => Contract!Init
  BY DEF Init, AbstractCalls, Contract!Init, Contract!Absent, Absent, Contract!NoCall, NoCall
<1>2. IInv /\ [Next]_vars => [Contract!Next]_(Contract!vars)
  BY StepImplements
<1> QED
  BY <1>1, <1>2, Invariance, PTL DEF Spec, ImplementsApprovalStore, Contract!Spec

-----------------------------------------------------------------------------
(***************************************************************************)
(* What is proved of the contract holds of this store.                     *)
(***************************************************************************)
ContractProofs == INSTANCE ApprovalStoreProofs WITH
  approvals <- rows, limbo <- {}, call <- AbstractCalls

(* The contract that is implemented and the one ApprovalStoreProofs is     *)
(* about are the same, operator by operator (state/store.py 30-60).        *)
LEMMA SameRecords ==
  /\ Contract!Absent = ContractProofs!Absent
  /\ Contract!NoCall = ContractProofs!NoCall
  /\ Contract!Request = ContractProofs!Request
  /\ \A r : Contract!Written(r) = ContractProofs!Written(r)
  /\ \A i, t : Contract!Decidable(i, t) <=> ContractProofs!Decidable(i, t)
  BY DEF Contract!Absent, ContractProofs!Absent, Contract!NoCall, ContractProofs!NoCall,
         Contract!Request, ContractProofs!Request, Contract!Written, ContractProofs!Written,
         Contract!Pending, ContractProofs!Pending, Contract!Decided, ContractProofs!Decided,
         Contract!Decidable, ContractProofs!Decidable, Contract!Visible, ContractProofs!Visible

(* So are their writes (state/store.py 30-60).                             *)
LEMMA SameWrites ==
  ASSUME NEW r
  PROVE  /\ Contract!CanApply(r) <=> ContractProofs!CanApply(r)
         /\ Contract!Apply(r) <=> ContractProofs!Apply(r)
  BY SameRecords DEF Contract!CanApply, ContractProofs!CanApply, Contract!Apply,
                     ContractProofs!Apply

(* And so are their steps (state/store.py 30-60).                          *)
LEMMA SameSteps == Contract!Next => ContractProofs!Next
<1> USE SameRecords
<1>1. ASSUME NEW c, NEW r PROVE Contract!Invoke(c, r) => ContractProofs!Invoke(c, r)
  BY DEF Contract!Invoke, ContractProofs!Invoke
<1>2. ASSUME NEW c PROVE Contract!Succeed(c) => ContractProofs!Succeed(c)
  BY SameWrites DEF Contract!Succeed, ContractProofs!Succeed, Contract!Open, ContractProofs!Open,
                    Contract!Answers, ContractProofs!Answers
<1>3. ASSUME NEW c PROVE Contract!Refuse(c) => ContractProofs!Refuse(c)
  BY DEF Contract!Refuse, ContractProofs!Refuse, Contract!Open, ContractProofs!Open,
         Contract!Answers, ContractProofs!Answers
<1>4. ASSUME NEW c PROVE Contract!Read(c) => ContractProofs!Read(c)
  BY DEF Contract!Read, ContractProofs!Read, Contract!Open, ContractProofs!Open,
         Contract!Answers, ContractProofs!Answers, Contract!Visible, ContractProofs!Visible
<1>5. ASSUME NEW c PROVE Contract!Raise(c) => ContractProofs!Raise(c)
  BY DEF Contract!Raise, ContractProofs!Raise
<1>6. ASSUME NEW c PROVE Contract!Return(c) => ContractProofs!Return(c)
  BY DEF Contract!Return, ContractProofs!Return, Contract!Open, ContractProofs!Open
<1>7. ASSUME NEW r PROVE Contract!Late(r) => ContractProofs!Late(r)
  BY SameWrites DEF Contract!Late, ContractProofs!Late
<1> QED
  BY <1>1, <1>2, <1>3, <1>4, <1>5, <1>6, <1>7 DEF Contract!Next, ContractProofs!Next

(* For any threads and faults, an approval is decided at most once, never  *)
(* deleted and never moved to another tenant, and whoever was told "ok"    *)
(* was told the truth about a record of its own tenant (store.py 108-164). *)
THEOREM SqliteKeepsTheContract == Spec => []Contract!HonestAnswers /\ Contract!DecidedOnce
<1>1. Contract!Init => ContractProofs!Init
  BY SameRecords DEF Contract!Init, ContractProofs!Init
<1>2. [Contract!Next]_(Contract!vars) => [ContractProofs!Next]_(ContractProofs!vars)
  BY SameSteps DEF Contract!vars, ContractProofs!vars
<1>3. ContractProofs!HonestAnswers => Contract!HonestAnswers
  BY SameRecords DEF ContractProofs!HonestAnswers, Contract!HonestAnswers,
                     ContractProofs!Decided, Contract!Decided
<1>4. ContractProofs!NullsAreNew
  BY NullsAreNew DEF ContractProofs!NullsAreNew
<1> QED
  BY <1>1, <1>2, <1>3, <1>4, SqliteImplementsTheContract, ContractProofs!AnswersAreHonest,
     ContractProofs!NeverDecidedTwice, PTL
     DEF ImplementsApprovalStore, Contract!Spec, ContractProofs!Spec, Contract!DecidedOnce,
         ContractProofs!DecidedOnce
=============================================================================
