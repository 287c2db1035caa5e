----------------------- MODULE PostgresApprovalsProofs -----------------------
(***************************************************************************)
(* Proofs about PostgresApprovals, for any processes, threads, connections,*)
(* ids and tenants and any number of lost connections and failed           *)
(* statements: its pools are sound, and it implements ApprovalStore.       *)
(*                                                                         *)
(* A connection is in one place, its pool or the hands of the thread that  *)
(* has its process's lock; what its session holds follows from how far     *)
(* that thread has come, as long as the connection is alive.  A session    *)
(* that was lost with a write may still commit it, so the invariant says   *)
(* of each uncommitted write, and not of each call, that it can be applied.*)
(*                                                                         *)
(* Between a commit and the count a gauge is behind by its thread's call;  *)
(* the gauges and what they are behind by add up to the pending records.   *)
(*                                                                         *)
(* There is no circular wait because a thread that waits, for its lock, a  *)
(* connection or a row, waits for one that has come further.               *)
(***************************************************************************)
EXTENDS PostgresApprovals, FiniteSetTheorems, SequenceTheorems, TLAPS

Holding == {"scope", "statement", "commit", "rollback", "release"}
Inside  == Holding \cup {"take"}

(* The lock is its process's, and taken by the thread that is inside.      *)
LockIsSound ==
  /\ \A c \in Client : pc[c] \in Inside <=> lock[ProcessOf[c]] = c
  /\ \A p \in Process : lock[p] # NoClient => ProcessOf[lock[p]] = p

(* A pool has connections of its own process, none twice.                  *)
PoolIsOwn(p) ==
  /\ IsInjective(pool[p])
  /\ \A k \in Range(pool[p]) : ProcessOf[k] = p

(* The session of a thread's connection, if it is alive.                   *)
SessionIsSound(c) ==
  LET s == conn[held[c]]  r == req[c] IN
  s.alive =>
    /\ pc[c] \in {"scope", "release"} => s = NewSession
    /\ pc[c] = "statement" =>
         s = [alive |-> TRUE, tx |-> "open", tenant |-> r.tenant, write |-> NoCall]
    /\ pc[c] = "commit" =>
         s = [alive |-> TRUE, tx |-> "open", tenant |-> r.tenant,
              write |-> IF answer[c] = "open" THEN r ELSE NoCall]

HeldIsSound(c) ==
  IF pc[c] \in Holding
    THEN held[c] \in Conn /\ ProcessOf[held[c]] = ProcessOf[c] /\ SessionIsSound(c)
    ELSE held[c] = NoConn

(* The id of a create is its caller's alone until it is inserted.          *)
Unshared(c) ==
  LET i == req[c].id IN
  /\ rows[i] = Absent
  /\ \A d \in Client \ {c} : pc[d] # "idle" => req[d].id # i
  /\ \A k \in Conn : conn[k].write # NoCall => conn[k].write.id # i

Writes == {"create", "decide"}

CallIsSound(c) ==
  /\ pc[c] = "idle" => req[c] = NoCall /\ answer[c] = "open" /\ got[c] = Absent /\ found[c] = {}
  /\ pc[c] # "idle" =>
       /\ req[c] \in Request \cup ListRequest /\ req[c].client = c
       /\ pc[c] \in {"lock", "take", "scope", "statement"} =>
            answer[c] = "open" /\ (req[c].op = "create" => Unshared(c))
       /\ pc[c] = "commit" /\ answer[c] = "open" => req[c].op \in Writes /\ got[c] = Written(req[c])
       /\ pc[c] \in {"rollback", "release", "count", "done"} => answer[c] # "open"
       /\ pc[c] = "count" => req[c].op \in Writes
       /\ req[c].op = "create" /\ answer[c] = "ok" => rows[req[c].id] # Absent

(* A write that was not committed can be, and nobody else has one of its   *)
(* record: a decision holds the row lock, and a new id is its creator's.   *)
WriteIsSound(k) ==
  LET w == conn[k].write IN
  w # NoCall =>
    /\ w.op \in Writes /\ conn[k].tx # "idle"
    /\ w.op = "create" => rows[w.id] = Absent
    /\ w.op = "decide" => rows[w.id].tenant = w.tenant /\ rows[w.id].status = "pending"
    /\ \A j \in Conn \ {k} : conn[j].write # NoCall => conn[j].write.id # w.id

ConnIsSound(k) ==
  LET p == ProcessOf[k] IN
  /\ k \in Range(pool[p]) <=> \A c \in Client : held[c] # k
  /\ k \in Range(pool[p]) /\ conn[k].alive => conn[k] = NewSession
  /\ conn[k].tx = "committing" => ~ conn[k].alive
  /\ WriteIsSound(k)

KnownExist ==
  /\ \A i \in known : rows[i] # Absent
  /\ \A c \in Client : \A i \in found[c] : rows[i] # Absent

IInv ==
  /\ TypeOK
  /\ LockIsSound
  /\ \A p \in Process : PoolIsOwn(p)
  /\ \A c \in Client : HeldIsSound(c) /\ CallIsSound(c)
  /\ \A k \in Conn : ConnIsSound(k)
  /\ KnownExist

-----------------------------------------------------------------------------
(* The fields of a create, decide or get (state/store.py 30-60).           *)
LEMMA RequestType ==
  ASSUME NEW r \in Request
  PROVE  /\ r.id \in Id /\ r.tenant \in Tenant /\ r.client \in Client /\ r # NoCall
         /\ r.op \in {"create", "get", "decide"}
         /\ r.op = "decide" => r.verdict \in Verdict
BY DEF Request, NoCall

(* The fields of any call, a list_pending included (state/store.py 30-60). *)
LEMMA CallType ==
  ASSUME NEW r \in Request \cup ListRequest
  PROVE  /\ r.tenant \in Tenant /\ r.client \in Client /\ r # NoCall
         /\ r.op # "list" => r \in Request /\ r.id \in Id
         /\ r.op = "list" => r \in ListRequest /\ r.id = NoId
BY DEF Request, ListRequest, NoCall

(* A row has a tenant exactly when it exists (state/store.py 15-27).       *)
LEMMA RowType ==
  ASSUME NEW row \in Row
  PROVE  /\ row.tenant \in Tenant \cup {NoTenant}
         /\ row.status \in {"absent", "pending"} \cup Verdict
         /\ row.tenant \in Tenant <=> row # Absent
         /\ row.status = "absent" <=> row = Absent
BY NullsAreNew DEF Row, Absent

(* What a committed write leaves (postgres.py 152-208).                    *)
LEMMA WrittenType ==
  ASSUME NEW r \in Request, r.op \in Writes
  PROVE  Written(r) \in Row /\ Written(r) # Absent /\ Written(r).tenant = r.tenant
BY RequestType, NullsAreNew DEF Written, Pending, Decided, Row, Absent, Writes

(* The two sides of a connection, field by field.                          *)
Sess(alive, tx, tenant, write) ==
  [alive |-> alive, tx |-> tx, tenant |-> tenant, write |-> write]

SetAt(f, k, s) == [f EXCEPT ![k] = s]

(* A session is its fields.                                                *)
LEMMA SessionType ==
  ASSUME NEW s \in Session
  PROVE  /\ s = Sess(s.alive, s.tx, s.tenant, s.write)
         /\ s.alive \in BOOLEAN /\ s.tx \in {"idle", "open", "committing"}
         /\ s.tenant \in Tenant \cup {NoTenant} /\ s.write \in Request \cup {NoCall}
BY DEF Session, Sess

(* Its fields are a session.                                               *)
LEMMA IsSession ==
  ASSUME NEW alive \in BOOLEAN, NEW tx \in {"idle", "open", "committing"},
         NEW tenant \in Tenant \cup {NoTenant}, NEW write \in Request \cup {NoCall}
  PROVE  Sess(alive, tx, tenant, write) \in Session
BY DEF Session, Sess

(* The fields of the session they make.                                    *)
LEMMA Fields ==
  ASSUME NEW a, NEW b, NEW c, NEW d
  PROVE  /\ Sess(a, b, c, d).alive = a /\ Sess(a, b, c, d).tx = b
         /\ Sess(a, b, c, d).tenant = c /\ Sess(a, b, c, d).write = d
BY DEF Sess

BeginTx(f, k, t)   == [f EXCEPT ![k].tx = "open", ![k].tenant = t]
PutWrite(f, k, w)  == [f EXCEPT ![k].write = w]
Lose(f, k, no)     == [f EXCEPT ![k].alive = no]
LoseCommit(f, k, no) == [f EXCEPT ![k].alive = no, ![k].tx = "committing"]

(* A transaction begins with a tenant (postgres.py 144).                   *)
LEMMA BeginTxFields ==
  ASSUME NEW f, NEW S, f = [j \in S |-> f[j]], NEW k \in S,
         NEW a, NEW b, NEW c, NEW d, f[k] = Sess(a, b, c, d), NEW t
  PROVE  BeginTx(f, k, t) = SetAt(f, k, Sess(a, "open", t, d))
<1> DEFINE g == [f EXCEPT ![k].tx = "open"]
           s == f[k]
<1>1. [s EXCEPT !.tx = "open"] = Sess(a, "open", c, d)
  <2>1. s = Sess(a, b, c, d)
    OBVIOUS
  <2> HIDE DEF s
  <2> QED
    BY <2>1 DEF Sess
<1>2. g = [f EXCEPT ![k] = Sess(a, "open", c, d)]
  BY <1>1
<1> HIDE DEF g, s
<1>3. g[k] = Sess(a, "open", c, d) /\ g = [j \in S |-> g[j]] /\ \A j \in S \ {k} : g[j] = f[j]
  BY <1>2
<1> DEFINE half == g[k]
<1>4. [half EXCEPT !.tenant = t] = Sess(a, "open", t, d)
  <2>1. half = Sess(a, "open", c, d)
    BY <1>3
  <2> HIDE DEF half
  <2> QED
    BY <2>1 DEF Sess
<1>5. [g EXCEPT ![k].tenant = t] = [g EXCEPT ![k] = Sess(a, "open", t, d)]
  BY <1>4
<1>6. [g EXCEPT ![k] = Sess(a, "open", t, d)] = [f EXCEPT ![k] = Sess(a, "open", t, d)]
  BY <1>2, <1>3
<1>7. [f EXCEPT ![k].tx = "open", ![k].tenant = t] = [g EXCEPT ![k].tenant = t]
  BY DEF g
<1> QED
  BY <1>5, <1>6, <1>7 DEF BeginTx, SetAt

(* A connection is lost with its COMMIT on the way (postgres.py 147).      *)
LEMMA LoseCommitFields ==
  ASSUME NEW f, NEW S, f = [j \in S |-> f[j]], NEW k \in S,
         NEW a, NEW b, NEW c, NEW d, f[k] = Sess(a, b, c, d), NEW no
  PROVE  LoseCommit(f, k, no) = SetAt(f, k, Sess(no, "committing", c, d))
<1> DEFINE g == [f EXCEPT ![k].alive = no]
           s == f[k]
<1>1. [s EXCEPT !.alive = no] = Sess(no, b, c, d)
  <2>1. s = Sess(a, b, c, d)
    OBVIOUS
  <2> HIDE DEF s
  <2> QED
    BY <2>1 DEF Sess
<1>2. g = [f EXCEPT ![k] = Sess(no, b, c, d)]
  BY <1>1
<1> HIDE DEF g, s
<1>3. g[k] = Sess(no, b, c, d) /\ g = [j \in S |-> g[j]] /\ \A j \in S \ {k} : g[j] = f[j]
  BY <1>2
<1> DEFINE half == g[k]
<1>4. [half EXCEPT !.tx = "committing"] = Sess(no, "committing", c, d)
  <2>1. half = Sess(no, b, c, d)
    BY <1>3
  <2> HIDE DEF half
  <2> QED
    BY <2>1 DEF Sess
<1>5. [g EXCEPT ![k].tx = "committing"] = [g EXCEPT ![k] = Sess(no, "committing", c, d)]
  BY <1>4
<1>6. [g EXCEPT ![k] = Sess(no, "committing", c, d)]
        = [f EXCEPT ![k] = Sess(no, "committing", c, d)]
  BY <1>2, <1>3
<1>7. [f EXCEPT ![k].alive = no, ![k].tx = "committing"] = [g EXCEPT ![k].tx = "committing"]
  BY DEF g
<1> QED
  BY <1>5, <1>6, <1>7 DEF LoseCommit, SetAt

(* A statement writes (postgres.py 159, 185).                              *)
LEMMA PutWriteFields ==
  ASSUME NEW f, NEW S, f = [j \in S |-> f[j]], NEW k \in S,
         NEW a, NEW b, NEW c, NEW d, f[k] = Sess(a, b, c, d), NEW w
  PROVE  PutWrite(f, k, w) = SetAt(f, k, Sess(a, b, c, w))
<1> DEFINE s == f[k]
<1>1. [s EXCEPT !.write = w] = Sess(a, b, c, w)
  <2>1. s = Sess(a, b, c, d)
    OBVIOUS
  <2> HIDE DEF s
  <2> QED
    BY <2>1 DEF Sess
<1> QED
  BY <1>1 DEF PutWrite, SetAt

(* A connection is lost.                                                   *)
LEMMA LoseFields ==
  ASSUME NEW f, NEW S, f = [j \in S |-> f[j]], NEW k \in S,
         NEW a, NEW b, NEW c, NEW d, f[k] = Sess(a, b, c, d), NEW no
  PROVE  Lose(f, k, no) = SetAt(f, k, Sess(no, b, c, d))
<1> DEFINE s == f[k]
<1>1. [s EXCEPT !.alive = no] = Sess(no, b, c, d)
  <2>1. s = Sess(a, b, c, d)
    OBVIOUS
  <2> HIDE DEF s
  <2> QED
    BY <2>1 DEF Sess
<1> QED
  BY <1>1 DEF Lose, SetAt

-----------------------------------------------------------------------------
(* queue.Queue.get takes the oldest connection out of the pool             *)
(* (postgres.py 84-85).                                                    *)
LEMMA TakesHead ==
  ASSUME NEW q \in Seq(Conn), q # <<>>, IsInjective(q)
  PROVE  /\ Head(q) \in Conn /\ Head(q) \in Range(q)
         /\ Tail(q) \in Seq(Conn) /\ IsInjective(Tail(q))
         /\ Range(Tail(q)) = Range(q) \ {Head(q)}
<1>1. /\ Len(q) \in Nat /\ Len(q) > 0 /\ DOMAIN q = 1..Len(q) /\ Head(q) = q[1]
      /\ \A n \in 1..Len(q) : q[n] \in Conn
  OBVIOUS
<1>2. /\ Tail(q) \in Seq(Conn) /\ Len(Tail(q)) = Len(q) - 1 /\ DOMAIN Tail(q) = 1..(Len(q) - 1)
      /\ \A n \in 1..(Len(q) - 1) : Tail(q)[n] = q[n + 1]
  BY <1>1
<1>3. IsInjective(Tail(q))
  <2> SUFFICES ASSUME NEW m \in 1..(Len(q) - 1), NEW n \in 1..(Len(q) - 1), Tail(q)[m] = Tail(q)[n]
               PROVE  m = n
    BY <1>2 DEF IsInjective
  <2>1. q[m + 1] = q[n + 1] /\ m + 1 \in DOMAIN q /\ n + 1 \in DOMAIN q
    BY <1>1, <1>2
  <2>2. m + 1 = n + 1
    BY <2>1 DEF IsInjective
  <2> QED
    BY <1>1, <2>2
<1>4. ASSUME NEW k \in Range(Tail(q)) PROVE k \in Range(q) /\ k # Head(q)
  <2>1. PICK n \in 1..(Len(q) - 1) : k = q[n + 1]
    BY <1>2, <1>4 DEF Range
  <2>2. n + 1 \in DOMAIN q /\ 1 \in DOMAIN q /\ n + 1 # 1
    BY <1>1
  <2> QED
    BY <1>1, <2>1, <2>2 DEF IsInjective, Range
<1>5. ASSUME NEW k \in Range(q), k # Head(q) PROVE k \in Range(Tail(q))
  <2>1. PICK m \in 1..Len(q) : k = q[m]
    BY <1>1 DEF Range
  <2>2. m # 1 /\ m - 1 \in 1..(Len(q) - 1) /\ (m - 1) + 1 = m
    BY <1>1, <1>5, <2>1
  <2>3. k = Tail(q)[m - 1] /\ m - 1 \in DOMAIN Tail(q)
    BY <1>2, <2>1, <2>2
  <2> QED
    BY <2>3 DEF Range
<1>6. Head(q) \in Range(q)
  BY <1>1 DEF Range
<1> QED
  BY <1>1, <1>2, <1>3, <1>4, <1>5, <1>6

(* queue.Queue.put gives it back (postgres.py 88-89).                      *)
LEMMA PutsLast ==
  ASSUME NEW q \in Seq(Conn), IsInjective(q), NEW k \in Conn, k \notin Range(q)
  PROVE  /\ Append(q, k) \in Seq(Conn) /\ IsInjective(Append(q, k))
         /\ Range(Append(q, k)) = Range(q) \cup {k}
<1> DEFINE r == Append(q, k)
           n == Len(q)
<1>1. /\ n \in Nat /\ DOMAIN q = 1..n /\ DOMAIN r = 1..(n + 1) /\ r \in Seq(Conn)
      /\ r[n + 1] = k /\ \A m \in 1..n : r[m] = q[m]
  OBVIOUS
<1> HIDE DEF r, n
<1>2. Range(r) = Range(q) \cup {k}
  <2>1. \A m \in 1..(n + 1) : m \in 1..n \/ m = n + 1
    BY <1>1
  <2>2. \A m \in 1..n : m \in 1..(n + 1)
    BY <1>1
  <2>3. n + 1 \in 1..(n + 1)
    BY <1>1
  <2> QED
    BY <1>1, <2>1, <2>2, <2>3 DEF Range
<1>3. IsInjective(r)
  <2> SUFFICES ASSUME NEW a \in 1..(n + 1), NEW b \in 1..(n + 1), r[a] = r[b]
               PROVE  a = b
    BY <1>1 DEF IsInjective
  <2>1. \A m \in 1..n : q[m] # k
    BY <1>1 DEF Range
  <2>2. CASE a \in 1..n /\ b \in 1..n
    BY <1>1, <2>2 DEF IsInjective
  <2>3. CASE a = n + 1 \/ b = n + 1
    BY <1>1, <2>1, <2>3
  <2> QED
    BY <1>1, <2>2, <2>3
<1> QED
  BY <1>1, <1>2, <1>3 DEF r

(* What a pool has no two of, it has once.                                 *)
LEMMA OnceInPool ==
  ASSUME NEW q, IsInjective(q), NEW k
  PROVE  LET places == {n \in DOMAIN q : q[n] = k}
         IN  /\ k \in Range(q) => Cardinality(places) = 1
             /\ k \notin Range(q) => places = {}
<1> DEFINE places == {n \in DOMAIN q : q[n] = k}
<1>1. ASSUME k \in Range(q) PROVE Cardinality(places) = 1
  <2>1. PICK n \in DOMAIN q : q[n] = k
    BY <1>1 DEF Range
  <2>2. places = {n}
    BY <2>1 DEF IsInjective
  <2> QED
    BY <2>2, FS_Singleton
<1>2. k \notin Range(q) => places = {}
  BY DEF Range
<1> QED
  BY <1>1, <1>2

(* As many places as connections: a pool is filled with each once          *)
(* (postgres.py 73-81).                                                    *)
LEMMA FilledPool ==
  ASSUME NEW p \in Process, NEW n \in Nat, NEW q \in [1..n -> Conn], IsPool(q, p)
  PROVE  /\ q \in Seq(Conn) /\ IsInjective(q)
         /\ Range(q) = {k \in Conn : ProcessOf[k] = p}
<1> DEFINE own == {k \in Conn : ProcessOf[k] = p}
<1>1. q \in Seq(Conn) /\ Len(q) = n /\ DOMAIN q = 1..n
  OBVIOUS
<1>2. {q[m] : m \in 1..n} = own /\ n = Cardinality(own)
  BY <1>1 DEF IsPool
<1>3. IsFiniteSet(1..n) /\ Cardinality(1..n) = n
  BY FS_Interval
<1>4. q \in Surjection(1..n, own)
  BY <1>1, <1>2 DEF Surjection
<1>5. q \in Injection(1..n, own)
  BY <1>2, <1>3, <1>4, FS_Surjection
<1> QED
  BY <1>1, <1>2, <1>5 DEF Injection, Range

-----------------------------------------------------------------------------
(* What a step of one thread leaves the others.                            *)
Same(d) ==
  /\ pc'[d] = pc[d] /\ req'[d] = req[d] /\ held'[d] = held[d]
  /\ answer'[d] = answer[d] /\ got'[d] = got[d] /\ found'[d] = found[d]

Early == {"lock", "take", "scope", "statement"}

Creating(c) == pc[c] \in Early /\ req[c].op = "create"

(* A connection is held by one thread: the one that has the lock           *)
(* (postgres.py 142).                                                      *)
LEMMA HoldersDiffer ==
  ASSUME IInv, NEW c \in Client, NEW d \in Client, held[c] = held[d], held[c] \in Conn
  PROVE  c = d
<1>1. /\ HeldIsSound(c) /\ HeldIsSound(d) /\ LockIsSound
  BY DEF IInv
<1>2. /\ pc[c] \in Inside /\ pc[d] \in Inside /\ ProcessOf[c] = ProcessOf[d]
  BY <1>1, NoConnIsNew DEF HeldIsSound, Inside
<1> QED
  BY <1>1, <1>2 DEF LockIsSound

(* What is known of a call stays true of it.                               *)
LEMMA CallKept ==
  ASSUME TypeOK, NEW d \in Client, CallIsSound(d), Same(d),
         \A i \in Id : rows[i] # Absent => rows'[i] # Absent,
         Creating(d) => Unshared(d)'
  PROVE  CallIsSound(d)'
<1> PICK r : r = req[d]
  OBVIOUS
<1>1. pc'[d] = pc[d] /\ req'[d] = r /\ answer'[d] = answer[d] /\ got'[d] = got[d] /\ found'[d] = found[d]
  BY DEF Same
<1>2. CASE pc[d] = "idle"
  BY <1>1, <1>2 DEF CallIsSound
<1>3. CASE pc[d] # "idle"
  <2>1. /\ r \in Request \cup ListRequest /\ r.client = d
        /\ pc[d] \in Early => answer[d] = "open"
        /\ pc[d] = "commit" /\ answer[d] = "open" => r.op \in Writes /\ got[d] = Written(r)
        /\ pc[d] \in {"rollback", "release", "count", "done"} => answer[d] # "open"
        /\ pc[d] = "count" => r.op \in Writes
        /\ r.op = "create" /\ answer[d] = "ok" => rows[r.id] # Absent
    BY <1>3 DEF CallIsSound, Early
  <2>2. r.op = "create" /\ answer[d] = "ok" => rows'[r.id] # Absent
    BY <2>1, CallType
  <2>3. pc[d] \in Early /\ r.op = "create" => Unshared(d)'
    BY DEF Creating
  <2> QED
    BY <1>1, <1>3, <2>1, <2>2, <2>3 DEF CallIsSound, Early
<1> QED
  BY <1>2, <1>3

(* Nobody else comes by an id that is not in the table yet.                *)
LEMMA UnsharedKept ==
  ASSUME NEW d \in Client, Unshared(d), req'[d] = req[d], rows'[req[d].id] = rows[req[d].id],
         \A e \in Client \ {d} : pc'[e] # "idle" => req'[e].id # req[d].id,
         \A k \in Conn : conn'[k].write # NoCall => conn'[k].write.id # req[d].id
  PROVE  Unshared(d)'
BY DEF Unshared

(* What is known of a thread's connection stays true while nobody but the  *)
(* network touches it.                                                     *)
LEMMA HeldKept ==
  ASSUME NEW d \in Client, HeldIsSound(d), Same(d),
         held[d] \in Conn => conn'[held[d]] = conn[held[d]] \/ ~ conn'[held[d]].alive
  PROVE  HeldIsSound(d)'
<1>1. pc'[d] = pc[d] /\ req'[d] = req[d] /\ held'[d] = held[d] /\ answer'[d] = answer[d]
  BY DEF Same
<1>2. CASE pc[d] \notin Holding
  BY <1>1, <1>2 DEF HeldIsSound
<1>3. CASE pc[d] \in Holding
  <2>1. held[d] \in Conn /\ ProcessOf[held[d]] = ProcessOf[d] /\ SessionIsSound(d)
    BY <1>3 DEF HeldIsSound
  <2>2. SessionIsSound(d)'
    <3>1. CASE ~ conn'[held[d]].alive
      BY <1>1, <3>1 DEF SessionIsSound
    <3>2. CASE conn'[held[d]] = conn[held[d]]
      <4> PICK s : s = conn[held[d]]
        OBVIOUS
      <4> QED
        BY <1>1, <2>1, <3>2 DEF SessionIsSound
    <3> QED
      BY <2>1, <3>1, <3>2
  <2> QED
    BY <1>1, <1>3, <2>1, <2>2 DEF HeldIsSound
<1> QED
  BY <1>2, <1>3

(* What is known of an uncommitted write stays true while its row lock, or *)
(* the newness of its id, keeps others from the record.                    *)
LEMMA WriteKept ==
  ASSUME NEW j \in Conn, WriteIsSound(j), conn'[j] = conn[j],
         conn[j].write # NoCall =>
           /\ rows'[conn[j].write.id] = rows[conn[j].write.id]
           /\ \A i \in Conn \ {j} : conn'[i].write # NoCall => conn'[i].write.id # conn[j].write.id
  PROVE  WriteIsSound(j)'
<1> PICK s : s = conn[j]
  OBVIOUS
<1> QED
  BY DEF WriteIsSound

(* A connection stays where it is.                                         *)
LEMMA ConnKept ==
  ASSUME NEW j \in Conn, ConnIsSound(j), UNCHANGED <<pool, held>>, conn'[j] = conn[j], WriteIsSound(j)'
  PROVE  ConnIsSound(j)'
<1> PICK s : s = conn[j]
  OBVIOUS
<1> QED
  BY DEF ConnIsSound

-----------------------------------------------------------------------------
(* A thread's own variables change, and nothing else: a call begins, ends, *)
(* raises, counts or reads (postgres.py 136-218).                          *)
LEMMA ThreadStep ==
  ASSUME IInv, NEW c \in Client, TypeOK', UNCHANGED <<rows, conn, pool, lock, held>>,
         \A d \in Client \ {c} : Same(d),
         pc'[c] \in Inside <=> pc[c] \in Inside,
         pc'[c] \in Holding <=> pc[c] \in Holding,
         pc'[c] \in Holding => SessionIsSound(c)',
         CallIsSound(c)',
         \A d \in Client \ {c} : Creating(d) /\ pc'[c] # "idle" => req'[c].id # req[d].id,
         \A i \in known' \cup found'[c] : rows[i] # Absent
  PROVE  IInv'
<1>1. /\ TypeOK /\ LockIsSound /\ KnownExist
      /\ \A d \in Client : HeldIsSound(d) /\ CallIsSound(d)
  BY DEF IInv
<1>2. \A d \in Client \ {c} : pc'[d] = pc[d] /\ req'[d] = req[d] /\ found'[d] = found[d]
  BY DEF Same
<1>3. LockIsSound'
  BY <1>1, <1>2 DEF LockIsSound
<1>4. \A p \in Process : PoolIsOwn(p)'
  BY DEF IInv, PoolIsOwn
<1>5. HeldIsSound(c)'
  BY <1>1 DEF HeldIsSound
<1>6. ASSUME NEW d \in Client \ {c} PROVE HeldIsSound(d)' /\ CallIsSound(d)'
  <2>1. HeldIsSound(d)'
    BY <1>1, HeldKept
  <2>2. ASSUME Creating(d) PROVE Unshared(d)'
    <3>1. Unshared(d) /\ pc[d] # "idle"
      BY <1>1, <2>2 DEF Creating, Early, CallIsSound
    <3>2. \A e \in Client \ {d} : pc'[e] # "idle" => req'[e].id # req[d].id
      BY <1>2, <2>2, <3>1 DEF Unshared
    <3>3. \A k \in Conn : conn'[k].write # NoCall => conn'[k].write.id # req[d].id
      BY <3>1 DEF Unshared
    <3> QED
      BY <1>2, <3>1, <3>2, <3>3, UnsharedKept
  <2>3. CallIsSound(d)'
    BY <1>1, <2>2, CallKept
  <2> QED
    BY <2>1, <2>3
<1>7. ASSUME NEW k \in Conn PROVE ConnIsSound(k)'
  <2>1. ConnIsSound(k)
    BY DEF IInv
  <2>2. WriteIsSound(k)'
    BY <2>1 DEF ConnIsSound, WriteIsSound
  <2> QED
    BY <2>1, <2>2, ConnKept
<1>8. KnownExist'
  BY <1>1, <1>2 DEF KnownExist
<1> QED
  BY <1>3, <1>4, <1>5, <1>6, <1>7, <1>8 DEF IInv

(* The session k becomes s, after committing what it had written, or not.  *)
SessionStep(k, s) ==
  /\ conn' = SetAt(conn, k, s)
  /\ \/ rows' = rows
     \/ /\ conn[k].write # NoCall /\ s.write = NoCall
        /\ rows' = [rows EXCEPT ![conn[k].write.id] = Written(conn[k].write)]

(* A commit changes the row of its own write only, and leaves it there.    *)
LEMMA CommitChanges ==
  ASSUME IInv, NEW k \in Conn, NEW s, SessionStep(k, s)
  PROVE  /\ rows' \in [Id -> Row]
         /\ \A i \in Id : rows[i] # Absent => rows'[i] # Absent
         /\ \A j \in Conn \ {k} :
              conn[j].write # NoCall => rows'[conn[j].write.id] = rows[conn[j].write.id]
         /\ \A d \in Client : Creating(d) => rows'[req[d].id] = rows[req[d].id]
<1>1. TypeOK /\ ConnIsSound(k) /\ \A d \in Client : CallIsSound(d)
  BY DEF IInv
<1>2. CASE rows' = rows
  BY <1>1, <1>2 DEF TypeOK
<1>3. ASSUME conn[k].write # NoCall,
             rows' = [rows EXCEPT ![conn[k].write.id] = Written(conn[k].write)]
      PROVE  /\ rows' \in [Id -> Row]
             /\ \A i \in Id : rows[i] # Absent => rows'[i] # Absent
             /\ \A j \in Conn \ {k} :
                  conn[j].write # NoCall => rows'[conn[j].write.id] = rows[conn[j].write.id]
             /\ \A d \in Client : Creating(d) => rows'[req[d].id] = rows[req[d].id]
  <2> PICK w : w = conn[k].write
    OBVIOUS
  <2>1. w \in Request /\ w.op \in Writes
    BY <1>1, <1>3, SessionType DEF TypeOK, ConnIsSound, WriteIsSound
  <2>2. w.id \in Id /\ Written(w) \in Row /\ Written(w) # Absent
    BY <2>1, RequestType, WrittenType
  <2>3. rows' \in [Id -> Row] /\ \A i \in Id \ {w.id} : rows'[i] = rows[i]
    BY <1>1, <1>3, <2>2 DEF TypeOK
  <2>4. rows'[w.id] # Absent
    BY <1>1, <1>3, <2>2 DEF TypeOK
  <2>5. ASSUME NEW j \in Conn \ {k}, conn[j].write # NoCall
        PROVE  conn[j].write.id \in Id \ {w.id}
    <3>1. conn[j].write \in Request
      BY <1>1, <2>5, SessionType DEF TypeOK
    <3>2. conn[j].write.id # w.id
      BY <1>1, <1>3, <2>5 DEF ConnIsSound, WriteIsSound
    <3> QED
      BY <3>1, <3>2, RequestType
  <2>6. ASSUME NEW d \in Client, Creating(d) PROVE req[d].id \in Id \ {w.id}
    <3>1. /\ req[d] \in Request \cup ListRequest /\ req[d].op = "create" /\ Unshared(d)
      BY <1>1, <2>6 DEF Creating, Early, CallIsSound
    <3> QED
      BY <1>3, <3>1, CallType DEF Unshared
  <2> QED
    BY <2>3, <2>4, <2>5, <2>6
<1> QED
  BY <1>2, <1>3 DEF SessionStep

(* The other connections do not notice.                                    *)
LEMMA OthersFollow ==
  ASSUME IInv, NEW k \in Conn, NEW s \in Session, SessionStep(k, s), UNCHANGED <<pool, held>>,
         NEW j \in Conn \ {k},
         s.write \notin {NoCall, conn[k].write} /\ conn[j].write # NoCall =>
           conn[j].write.id # s.write.id
  PROVE  ConnIsSound(j)'
<1>1. TypeOK /\ ConnIsSound(j) /\ \A i \in Conn : ConnIsSound(i)
  BY DEF IInv
<1>2. conn'[k] = s /\ \A i \in Conn \ {k} : conn'[i] = conn[i]
  BY <1>1 DEF SessionStep, SetAt, TypeOK
<1>3. conn[j].write # NoCall => rows'[conn[j].write.id] = rows[conn[j].write.id]
  BY CommitChanges
<1>4. ASSUME conn[j].write # NoCall, NEW i \in Conn \ {j}, conn'[i].write # NoCall
      PROVE  conn'[i].write.id # conn[j].write.id
  <2>1. conn[i].write # NoCall => conn[i].write.id # conn[j].write.id
    BY <1>1, <1>4 DEF ConnIsSound, WriteIsSound
  <2>2. CASE i # k
    BY <1>2, <1>4, <2>1, <2>2
  <2>3. CASE i = k
    BY <1>2, <1>4, <2>1, <2>3
  <2> QED
    BY <2>2, <2>3
<1>5. WriteIsSound(j)'
  BY <1>1, <1>2, <1>3, <1>4, WriteKept DEF ConnIsSound
<1> QED
  BY <1>1, <1>2, <1>5, ConnKept

(* Nor do the calls of other threads.                                      *)
LEMMA CallFollows ==
  ASSUME IInv, NEW k \in Conn, NEW s \in Session, SessionStep(k, s), req' = req,
         NEW d \in Client, Same(d), \A e \in Client : pc'[e] # "idle" => pc[e] # "idle",
         Creating(d) /\ s.write \notin {NoCall, conn[k].write} => s.write.id # req[d].id
  PROVE  CallIsSound(d)'
<1>1. TypeOK /\ CallIsSound(d)
  BY DEF IInv
<1>2. conn'[k] = s /\ \A i \in Conn \ {k} : conn'[i] = conn[i]
  BY <1>1 DEF SessionStep, SetAt, TypeOK
<1>3. ASSUME Creating(d) PROVE Unshared(d)'
  <2>1. Unshared(d) /\ rows'[req[d].id] = rows[req[d].id]
    BY <1>1, <1>3, CommitChanges DEF Creating, Early, CallIsSound
  <2>2. \A e \in Client \ {d} : pc'[e] # "idle" => req'[e].id # req[d].id
    BY <2>1 DEF Unshared
  <2>3. ASSUME NEW i \in Conn, conn'[i].write # NoCall PROVE conn'[i].write.id # req[d].id
    <3>1. conn[i].write # NoCall => conn[i].write.id # req[d].id
      BY <2>1 DEF Unshared
    <3>2. CASE i # k
      BY <1>2, <2>3, <3>1, <3>2
    <3>3. CASE i = k
      BY <1>2, <1>3, <2>3, <3>1, <3>3
    <3> QED
      BY <3>2, <3>3
  <2> QED
    BY <2>1, <2>2, <2>3, UnsharedKept
<1> QED
  BY <1>1, <1>3, CallKept, CommitChanges

(* A thread works on the connection it holds, and perhaps commits it.      *)
LEMMA HolderStep ==
  ASSUME IInv, NEW c \in Client, pc[c] \in Holding, pc'[c] \in Holding,
         NEW s \in Session, SessionStep(held[c], s), s.alive => s.tx # "committing",
         TypeOK', UNCHANGED <<pool, lock, held, req, known>>,
         \A d \in Client \ {c} : Same(d), found'[c] = found[c],
         SessionIsSound(c)', CallIsSound(c)', WriteIsSound(held[c])',
         s.write \notin {NoCall, conn[held[c]].write} =>
           /\ s.write = req[c]
           /\ \A j \in Conn \ {held[c]} : conn[j].write # NoCall => conn[j].write.id # req[c].id
  PROVE  IInv'
<1> PICK k : k = held[c]
  OBVIOUS
<1>1. /\ TypeOK /\ LockIsSound /\ KnownExist /\ held \in [Client -> Conn \cup {NoConn}]
      /\ \A d \in Client : HeldIsSound(d) /\ CallIsSound(d)
  BY DEF IInv, TypeOK
<1>2. k \in Conn /\ ConnIsSound(k) /\ held'[c] = k /\ ProcessOf[k] = ProcessOf[c]
  BY <1>1 DEF IInv, HeldIsSound
<1>3. conn'[k] = s /\ \A i \in Conn \ {k} : conn'[i] = conn[i]
  BY <1>1, <1>2 DEF SessionStep, SetAt, TypeOK
<1>4. \A d \in Client \ {c} : pc'[d] = pc[d] /\ req'[d] = req[d] /\ found'[d] = found[d]
  BY DEF Same
<1>5. LockIsSound' /\ \A p \in Process : PoolIsOwn(p)'
  <2>1. LockIsSound'
    BY <1>1, <1>4 DEF LockIsSound, Inside
  <2>2. \A p \in Process : PoolIsOwn(p)'
    BY DEF IInv, PoolIsOwn
  <2> QED
    BY <2>1, <2>2
<1>6. HeldIsSound(c)'
  BY <1>2 DEF HeldIsSound
<1>7. ASSUME NEW d \in Client \ {c} PROVE HeldIsSound(d)' /\ CallIsSound(d)'
  <2>1. held[d] # k
    BY <1>2, HoldersDiffer
  <2>2. HeldIsSound(d)'
    BY <1>1, <1>3, <2>1, HeldKept
  <2>3. Creating(d) => req[c].id # req[d].id
    BY <1>1 DEF Creating, Early, CallIsSound, Unshared, Holding
  <2>4. \A e \in Client : pc'[e] # "idle" => pc[e] # "idle"
    BY <1>4 DEF Holding
  <2>5. CallIsSound(d)'
    BY <1>2, <2>3, <2>4, CallFollows
  <2> QED
    BY <2>2, <2>5
<1>8. ASSUME NEW j \in Conn PROVE ConnIsSound(j)'
  <2>1. CASE j # k
    BY <1>2, <2>1, OthersFollow
  <2>2. CASE j = k
    <3>1. k \notin Range(pool[ProcessOf[k]])
      BY <1>2 DEF ConnIsSound
    <3> QED
      BY <1>2, <1>3, <2>2, <3>1 DEF ConnIsSound
  <2> QED
    BY <2>1, <2>2
<1>9. KnownExist'
  <2>1. \A i \in Id : rows[i] # Absent => rows'[i] # Absent
    BY <1>2, CommitChanges
  <2>2. known \subseteq Id /\ \A d \in Client : found[d] \subseteq Id
    BY <1>1 DEF TypeOK
  <2> QED
    BY <1>1, <1>4, <2>1, <2>2 DEF KnownExist
<1> QED
  BY <1>5, <1>6, <1>7, <1>8, <1>9 DEF IInv

(* The network or the server changes a connection nobody can use any more. *)
LEMMA LossStep ==
  ASSUME IInv, NEW k \in Conn, NEW s \in Session, SessionStep(k, s), ~ s.alive,
         s.write \in {NoCall, conn[k].write}, s.write # NoCall => s.tx # "idle",
         TypeOK', UNCHANGED <<pool, lock, held, pc, req, answer, got, found, known>>
  PROVE  IInv'
<1>1. /\ TypeOK /\ LockIsSound /\ KnownExist /\ ConnIsSound(k)
      /\ \A d \in Client : HeldIsSound(d) /\ CallIsSound(d)
  BY DEF IInv
<1>2. conn'[k] = s /\ \A i \in Conn \ {k} : conn'[i] = conn[i]
  BY <1>1 DEF SessionStep, SetAt, TypeOK
<1>3. LockIsSound' /\ \A p \in Process : PoolIsOwn(p)'
  BY <1>1 DEF IInv, LockIsSound, PoolIsOwn
<1>4. \A d \in Client : Same(d)
  BY DEF Same
<1>5. ASSUME NEW d \in Client PROVE HeldIsSound(d)' /\ CallIsSound(d)'
  <2>1. HeldIsSound(d)'
    BY <1>1, <1>2, <1>4, HeldKept
  <2>2. CallIsSound(d)'
    BY <1>4, CallFollows
  <2> QED
    BY <2>1, <2>2
<1>6. ASSUME NEW j \in Conn PROVE ConnIsSound(j)'
  <2>1. CASE j # k
    BY <2>1, OthersFollow
  <2>2. CASE j = k
    <3>1. ASSUME s.write # NoCall PROVE WriteIsSound(k)'
      <4>1. WriteIsSound(k) /\ conn[k].write = s.write /\ rows' = rows /\ s.tx # "idle"
        BY <1>1, <3>1 DEF ConnIsSound, SessionStep
      <4> QED
        BY <1>2, <3>1, <4>1 DEF WriteIsSound
    <3>2. WriteIsSound(k)'
      BY <1>2, <3>1 DEF WriteIsSound
    <3> QED
      BY <1>1, <1>2, <2>2, <3>2 DEF ConnIsSound
  <2> QED
    BY <2>1, <2>2
<1>7. KnownExist'
  <2>1. \A i \in Id : rows[i] # Absent => rows'[i] # Absent
    BY CommitChanges
  <2>2. known \subseteq Id /\ \A d \in Client : found[d] \subseteq Id
    BY <1>1 DEF TypeOK
  <2> QED
    BY <1>1, <2>1, <2>2 DEF KnownExist
<1> QED
  BY <1>3, <1>5, <1>6, <1>7 DEF IInv

-----------------------------------------------------------------------------
(* What a thread with a connection has (postgres.py 142-150).              *)
LEMMA AtHand ==
  ASSUME IInv, NEW c \in Client, pc[c] \in Holding
  PROVE  /\ TypeOK /\ held[c] \in Conn /\ conn[held[c]] \in Session
         /\ SessionIsSound(c) /\ CallIsSound(c) /\ ConnIsSound(held[c])
         /\ req[c] \in Request \cup ListRequest /\ req[c].client = c /\ req[c].tenant \in Tenant
         /\ conn = [j \in Conn |-> conn[j]]
<1>1. TypeOK /\ HeldIsSound(c) /\ CallIsSound(c)
  BY DEF IInv
<1>2. held[c] \in Conn /\ SessionIsSound(c)
  BY <1>1 DEF HeldIsSound
<1>3. ConnIsSound(held[c]) /\ conn \in [Conn -> Session]
  BY <1>1, <1>2 DEF IInv, TypeOK
<1>4. req[c] \in Request \cup ListRequest /\ req[c].client = c
  BY <1>1 DEF CallIsSound, Holding
<1> QED
  BY <1>1, <1>2, <1>3, <1>4, CallType

(* set_config begins the transaction (postgres.py 143-144).                *)
LEMMA SetTenantIInv ==
  ASSUME IInv, NEW c \in Client, SetTenant(c)
  PROVE  IInv'
<1> PICK k : k = held[c]
  OBVIOUS
<1> PICK a : a = conn[k].alive
  OBVIOUS
<1> DEFINE t == req[c].tenant
           s == Sess(a, "open", t, NoCall)
<1>1. pc[c] = "scope" /\ pc[c] \in Holding
  BY DEF SetTenant, Holding
<1>2. /\ TypeOK /\ k \in Conn /\ conn[k] \in Session /\ t \in Tenant
      /\ SessionIsSound(c) /\ CallIsSound(c) /\ conn = [j \in Conn |-> conn[j]]
  BY <1>1, AtHand
<1>3. conn[k] = Sess(a, "idle", NoTenant, NoCall) /\ a = TRUE
  BY <1>1, <1>2 DEF SetTenant, SessionIsSound, NewSession, Sess
<1>4. conn' = SetAt(conn, k, s)
  <2>1. conn' = BeginTx(conn, k, t)
    BY DEF SetTenant, BeginTx
  <2> QED
    BY <1>2, <1>3, <2>1, BeginTxFields
<1>5. s \in Session /\ s.alive = a /\ s.tx = "open" /\ s.write = NoCall
  <2>1. s \in Session
    BY <1>2, <1>3, IsSession
  <2>2. s.alive = a /\ s.tx = "open" /\ s.write = NoCall
    BY Fields
  <2> QED
    BY <2>1, <2>2
<1> HIDE DEF s
<1>6. conn'[k] = s /\ conn' \in [Conn -> Session]
  BY <1>2, <1>4, <1>5 DEF SetAt, TypeOK
<1>7. /\ pc' = [pc EXCEPT ![c] = "statement"]
      /\ UNCHANGED <<rows, pool, lock, gauge, req, held, answer, got, found, faults, known>>
  BY DEF SetTenant, Goto
<1>8. pc'[c] = "statement" /\ \A d \in Client \ {c} : Same(d)
  BY <1>2, <1>7 DEF TypeOK, Same
<1>9. TypeOK'
  <2>1. pc' \in [Client -> {"idle"} \cup Step]
    BY <1>2, <1>7 DEF TypeOK, Step
  <2> QED
    BY <1>2, <1>6, <1>7, <2>1 DEF TypeOK
<1>10. SessionIsSound(c)'
  BY <1>3, <1>6, <1>7, <1>8 DEF SessionIsSound, s, Sess
<1>11. CallIsSound(c)'
  <2>1. Creating(c) => Unshared(c)
    BY <1>2 DEF CallIsSound, Creating, Early
  <2>2. Creating(c) => Unshared(c)'
    <3> SUFFICES ASSUME Creating(c) PROVE Unshared(c)'
      OBVIOUS
    <3>1. \A e \in Client \ {c} : pc'[e] # "idle" => req'[e].id # req[c].id
      BY <1>7, <1>8, <2>1 DEF Unshared, Same
    <3>2. ASSUME NEW j \in Conn, conn'[j].write # NoCall PROVE conn'[j].write.id # req[c].id
      <4>1. j # k /\ conn'[j] = conn[j]
        BY <1>2, <1>4, <1>5, <1>6, <3>2 DEF SetAt
      <4> QED
        BY <2>1, <3>2, <4>1 DEF Unshared
    <3> QED
      BY <1>7, <2>1, <3>1, <3>2, UnsharedKept
  <2> QED
    BY <1>1, <1>2, <1>7, <1>8, <2>2 DEF CallIsSound, Creating, Early
<1>12. WriteIsSound(k)'
  BY <1>5, <1>6 DEF WriteIsSound
<1>13. SessionStep(k, s)
  BY <1>4, <1>7 DEF SessionStep
<1> QED
  BY <1>1, <1>2, <1>5, <1>7, <1>8, <1>9, <1>10, <1>11, <1>12, <1>13, HolderStep DEF Holding

Alive(k) == conn[k].alive

(* The transaction in which a statement runs (postgres.py 143-147).        *)
LEMMA InTransaction ==
  ASSUME IInv, NEW c \in Client, pc[c] = "statement", Alive(held[c])
  PROVE  /\ conn[held[c]] = Sess(conn[held[c]].alive, "open", req[c].tenant, NoCall)
         /\ conn[held[c]].alive = TRUE /\ answer[c] = "open"
         /\ req[c].op = "create" => Unshared(c)
<1> PICK s : s = conn[held[c]]
  OBVIOUS
<1>1. pc[c] \in Holding
  BY DEF Holding
<1>2. SessionIsSound(c) /\ CallIsSound(c)
  BY <1>1, AtHand
<1>3. s = [alive |-> TRUE, tx |-> "open", tenant |-> req[c].tenant, write |-> NoCall]
  BY <1>2 DEF SessionIsSound, Alive
<1>4. s = Sess(s.alive, "open", req[c].tenant, NoCall) /\ s.alive = TRUE
  BY <1>3 DEF Sess
<1>5. answer[c] = "open" /\ (req[c].op = "create" => Unshared(c))
  BY <1>2 DEF CallIsSound
<1> QED
  BY <1>4, <1>5

(* A statement that writes: nobody else has a write of that record, and    *)
(* the commit will find the row as the statement did (postgres.py 152-208).*)
LEMMA WritesIInv ==
  ASSUME IInv, NEW c \in Client, pc[c] = "statement", Alive(held[c]), Goto(c, "commit"),
         conn' = PutWrite(conn, held[c], req[c]), req[c].op \in Writes,
         Settle(c, "open", Written(req[c])),
         UNCHANGED <<rows, pool, lock, gauge, req, held, found, faults, known>>,
         req[c].op = "create" => rows[req[c].id] = Absent,
         req[c].op = "decide" =>
           rows[req[c].id].tenant = req[c].tenant /\ rows[req[c].id].status = "pending",
         \A j \in Conn \ {held[c]} : conn[j].write # NoCall => conn[j].write.id # req[c].id
  PROVE  IInv'
<1> PICK k : k = held[c]
  OBVIOUS
<1> PICK r : r = req[c]
  OBVIOUS
<1> PICK a : a = conn[k].alive
  OBVIOUS
<1> PICK t : t = r.tenant
  OBVIOUS
<1> DEFINE s == Sess(a, "open", t, r)
<1>1. /\ TypeOK /\ k \in Conn /\ conn[k] \in Session /\ t \in Tenant
      /\ CallIsSound(c) /\ conn = [j \in Conn |-> conn[j]]
      /\ r \in Request \cup ListRequest /\ r.client = c
  BY AtHand DEF Holding
<1>2. conn[k] = Sess(a, "open", t, NoCall) /\ a = TRUE
  BY InTransaction
<1>3. r \in Request /\ r # NoCall
  BY <1>1, CallType DEF Writes
<1>4. conn' = SetAt(conn, k, s)
  <2>1. conn' = PutWrite(conn, k, r)
    OBVIOUS
  <2>2. conn[k] = Sess(a, "open", t, NoCall)
    BY <1>2
  <2> QED
    BY <1>1, <2>1, <2>2, PutWriteFields
<1>5. s \in Session /\ s.alive = a /\ s.tx = "open" /\ s.write = r
  <2>1. s \in Session
    BY <1>1, <1>2, <1>3, IsSession
  <2>2. s.alive = a /\ s.tx = "open" /\ s.write = r
    BY Fields
  <2> QED
    BY <2>1, <2>2
<1> HIDE DEF s
<1>6. conn'[k] = s /\ conn' \in [Conn -> Session]
  BY <1>1, <1>4, <1>5 DEF SetAt, TypeOK
<1>7. pc' = [pc EXCEPT ![c] = "commit"]
  BY DEF Goto
<1>8. /\ answer' = [answer EXCEPT ![c] = "open"] /\ got' = [got EXCEPT ![c] = Written(r)]
      /\ Written(r) \in Row
  BY <1>3, WrittenType DEF Settle
<1>9. /\ pc'[c] = "commit" /\ answer'[c] = "open" /\ got'[c] = Written(r)
      /\ \A d \in Client \ {c} : Same(d)
  BY <1>1, <1>7, <1>8 DEF TypeOK, Same
<1>10. TypeOK'
  <2>1. pc' \in [Client -> {"idle"} \cup Step]
    BY <1>1, <1>7 DEF TypeOK, Step
  <2>2. answer' \in [Client -> Answer] /\ got' \in [Client -> Row]
    BY <1>1, <1>8 DEF TypeOK, Answer
  <2> QED
    BY <1>1, <1>6, <2>1, <2>2 DEF TypeOK
<1>11. SessionIsSound(c)'
  BY <1>2, <1>6, <1>9 DEF SessionIsSound, s, Sess
<1>12. CallIsSound(c)'
  BY <1>1, <1>9 DEF CallIsSound
<1>13. WriteIsSound(k)'
  <2>1. \A j \in Conn \ {k} : conn'[j] = conn[j]
    BY <1>1, <1>4 DEF SetAt
  <2> QED
    BY <1>5, <1>6, <2>1 DEF WriteIsSound
<1>14. SessionStep(k, s)
  BY <1>4 DEF SessionStep
<1> QED
  BY <1>1, <1>5, <1>9, <1>10, <1>11, <1>12, <1>13, <1>14, HolderStep DEF Holding

(* A statement that only reads, or matches no row.                         *)
LEMMA AnswersIInv ==
  ASSUME IInv, NEW c \in Client, pc[c] = "statement", Alive(held[c]), Goto(c, "commit"),
         NEW a \in {"ok", "none", "refused"}, NEW row \in Row, Settle(c, a, row),
         a = "ok" => req[c].op # "create",
         UNCHANGED <<rows, conn, pool, lock, gauge, req, held, faults, known>>,
         found' \in [Client -> SUBSET Id], \A d \in Client \ {c} : found'[d] = found[d],
         \A i \in found'[c] : rows[i] # Absent
  PROVE  IInv'
<1> PICK s : s = conn[held[c]]
  OBVIOUS
<1>1. /\ TypeOK /\ CallIsSound(c) /\ KnownExist
  BY AtHand DEF Holding, IInv
<1>2. s = Sess(s.alive, "open", req[c].tenant, NoCall) /\ s.alive = TRUE
  BY InTransaction
<1>3. /\ pc' = [pc EXCEPT ![c] = "commit"]
      /\ answer' = [answer EXCEPT ![c] = a] /\ got' = [got EXCEPT ![c] = row]
  BY DEF Goto, Settle
<1>4. /\ pc'[c] = "commit" /\ answer'[c] = a /\ a # "open"
      /\ \A d \in Client \ {c} : Same(d)
  BY <1>1, <1>3 DEF TypeOK, Same
<1>5. TypeOK'
  <2>1. pc' \in [Client -> {"idle"} \cup Step]
    BY <1>1, <1>3 DEF TypeOK, Step
  <2>2. answer' \in [Client -> Answer] /\ got' \in [Client -> Row]
    BY <1>1, <1>3 DEF TypeOK, Answer
  <2> QED
    BY <1>1, <2>1, <2>2 DEF TypeOK
<1>6. SessionIsSound(c)'
  BY <1>2, <1>4 DEF SessionIsSound, Sess
<1>7. CallIsSound(c)'
  BY <1>1, <1>4 DEF CallIsSound
<1>8. \A d \in Client \ {c} : Creating(d) => req[c].id # req[d].id
  <2> SUFFICES ASSUME NEW d \in Client \ {c}, Creating(d) PROVE req[c].id # req[d].id
    OBVIOUS
  <2>1. CallIsSound(d)
    BY DEF IInv
  <2>2. Unshared(d)
    BY <2>1 DEF CallIsSound, Creating, Early
  <2> QED
    BY <2>2 DEF Unshared
<1>9. \A i \in known' \cup found'[c] : rows[i] # Absent
  BY <1>1 DEF KnownExist
<1>10. (pc'[c] \in Inside <=> pc[c] \in Inside) /\ (pc'[c] \in Holding <=> pc[c] \in Holding)
  BY <1>4 DEF Inside, Holding
<1> QED
  BY <1>4, <1>5, <1>6, <1>7, <1>8, <1>9, <1>10, ThreadStep

(* One statement (postgres.py 152-208).                                    *)
LEMMA StatementIInv ==
  ASSUME IInv, NEW c \in Client, Statement(c)
  PROVE  IInv'
<1> PICK k : k = held[c]
  OBVIOUS
<1> PICK r : r = req[c]
  OBVIOUS
<1>1. /\ pc[c] = "statement" /\ Alive(k) /\ Goto(c, "commit")
      /\ UNCHANGED <<rows, pool, lock, gauge, req, held, faults, known>>
  BY DEF Statement, Alive
<1>2. /\ TypeOK /\ k \in Conn /\ conn[k].tenant = r.tenant /\ r.tenant \in Tenant
      /\ (r.op = "create" => Unshared(c)) /\ r \in Request \cup ListRequest
      /\ \A i \in found[c] : rows[i] # Absent
  <2>1. TypeOK /\ k \in Conn /\ r.tenant \in Tenant /\ r \in Request \cup ListRequest
    BY <1>1, AtHand DEF Holding
  <2>2. conn[k].tenant = r.tenant
    <3> PICK s : s = conn[k]
      OBVIOUS
    <3>1. s = Sess(s.alive, "open", r.tenant, NoCall)
      BY <1>1, InTransaction
    <3> QED
      BY <3>1 DEF Sess
  <2>3. r.op = "create" => Unshared(c)
    BY <1>1, InTransaction
  <2> QED
    BY <2>1, <2>2, <2>3 DEF IInv, KnownExist
<1>3. /\ \A d \in Client : found[d] \subseteq Id /\ rows \in [Id -> Row]
      /\ found \in [Client -> SUBSET Id]
  BY <1>2 DEF TypeOK
<1>4. CASE Insert(c)
  <2>1. /\ r.op = "create" /\ conn' = PutWrite(conn, k, r) /\ Settle(c, "open", Written(r))
        /\ found' = found
    BY <1>4 DEF Insert, PutWrite, Written
  <2>2. /\ rows[r.id] = Absent
        /\ \A j \in Conn \ {k} : conn[j].write # NoCall => conn[j].write.id # r.id
    BY <1>2, <2>1 DEF Unshared
  <2> QED
    BY <1>1, <2>1, <2>2, WritesIInv DEF Writes
<1>5. CASE Update(c) /\ Matches(k, r.id) /\ ~ LockedFor(k, r.id) /\ conn' = PutWrite(conn, k, r)
           /\ Settle(c, "open", Decided(r))
  <2>1. r.op = "decide" /\ Settle(c, "open", Written(r)) /\ found' = found
    BY <1>5 DEF Update, Written
  <2>2. /\ rows[r.id].tenant = r.tenant /\ rows[r.id].status = "pending"
        /\ \A j \in Conn \ {k} : conn[j].write # NoCall => conn[j].write.id # r.id
    BY <1>2, <1>5 DEF Matches, VisibleTo, LockedFor
  <2> QED
    BY <1>1, <1>5, <2>1, <2>2, WritesIInv DEF Writes
<1>6. CASE Update(c) /\ Settle(c, "refused", Absent) /\ conn' = conn
  <2>1. found' = found /\ Absent \in Row
    BY <1>6 DEF Update, Absent, Row
  <2> QED
    BY <1>1, <1>2, <1>3, <1>6, <2>1, AnswersIInv
<1>7. CASE Select(c)
  <2>1. found' = found /\ Absent \in Row /\ conn' = conn /\ r.op = "get" /\ r.id \in Id
    BY <1>2, <1>7, CallType DEF Select, Absent, Row
  <2>2. Settle(c, "ok", rows[r.id]) \/ Settle(c, "none", Absent)
    BY <1>7 DEF Select
  <2> QED
    BY <1>1, <1>2, <1>3, <2>1, <2>2, AnswersIInv
<1>8. CASE SelectPending(c)
  <2>1. /\ found' = [found EXCEPT ![c] = PendingOf(r.tenant)] /\ Absent \in Row /\ conn' = conn
        /\ r.op = "list" /\ Settle(c, "ok", Absent)
    BY <1>2, <1>8 DEF SelectPending, Absent, Row
  <2>2. /\ PendingOf(r.tenant) \subseteq Id
        /\ \A i \in PendingOf(r.tenant) : rows[i] # Absent
    BY <1>3, RowType DEF PendingOf, Absent
  <2>3. /\ found' \in [Client -> SUBSET Id] /\ found'[c] = PendingOf(r.tenant)
        /\ \A d \in Client \ {c} : found'[d] = found[d]
    BY <1>3, <2>1, <2>2
  <2> QED
    BY <1>1, <2>1, <2>2, <2>3, AnswersIInv
<1>9. Insert(c) \/ Update(c) \/ Select(c) \/ SelectPending(c)
  BY DEF Statement
<1>10. ASSUME Update(c)
       PROVE  \/ /\ Matches(k, r.id) /\ ~ LockedFor(k, r.id) /\ conn' = PutWrite(conn, k, r)
                 /\ Settle(c, "open", Decided(r))
              \/ Settle(c, "refused", Absent) /\ conn' = conn
  BY <1>10 DEF Update, PutWrite
<1> QED
  BY <1>4, <1>5, <1>6, <1>7, <1>8, <1>9, <1>10

EndOf(s, x, y, z) == [s EXCEPT !.tx = x, !.tenant = y, !.write = z]

(* Field by field, what the end of a transaction leaves (postgres.py 143). *)
LEMMA EndedFields ==
  ASSUME NEW s, NEW a, NEW b, NEW c, NEW d, s = Sess(a, b, c, d), NEW x, NEW y, NEW z
  PROVE  EndOf(s, x, y, z) = Sess(a, x, y, z)
<1> DEFINE s1 == [s EXCEPT !.tx = x]
           s2 == [s1 EXCEPT !.tenant = y]
           s3 == [s2 EXCEPT !.write = z]
<1>1. s1 = Sess(a, x, c, d)
  BY DEF Sess
<1>2. s2 = Sess(a, x, y, d)
  <2> HIDE DEF s1
  <2> QED
    BY <1>1 DEF Sess
<1>3. s3 = Sess(a, x, y, z)
  <2> HIDE DEF s2
  <2> QED
    BY <1>2 DEF Sess
<1>4. [s EXCEPT !.tx = x, !.tenant = y, !.write = z] = s3
  OBVIOUS
<1> QED
  BY <1>3, <1>4 DEF EndOf

(* A transaction that ended left the session as new, dead or alive         *)
(* (postgres.py 146-150).                                                  *)
LEMMA EndedIsNew ==
  ASSUME NEW k \in Conn, conn[k] \in Session
  PROVE  /\ Ended(k) = Sess(conn[k].alive, "idle", NoTenant, NoCall) /\ Ended(k) \in Session
         /\ Ended(k).alive = conn[k].alive /\ Ended(k).tx = "idle" /\ Ended(k).write = NoCall
         /\ Ended(k).alive => Ended(k) = NewSession
<1> PICK s : s = conn[k]
  OBVIOUS
<1> PICK a : a = s.alive
  OBVIOUS
<1>1. a \in BOOLEAN /\ \E b, t, w : s = Sess(a, b, t, w)
  BY SessionType
<1>2. PICK b, t, w : s = Sess(a, b, t, w)
  BY <1>1
<1> DEFINE e == Sess(a, "idle", NoTenant, NoCall)
<1>3. EndOf(s, "idle", NoTenant, NoCall) = e
  BY <1>2, EndedFields
<1>4. Ended(k) = e
  BY <1>3 DEF Ended, EndOf
<1>5. e \in Session
  BY <1>1, IsSession
<1>6. e.alive = a /\ e.tx = "idle" /\ e.write = NoCall
  BY Fields
<1>7. a => e = NewSession
  BY <1>1 DEF Sess, NewSession
<1>8. Ended(k) = Sess(conn[k].alive, "idle", NoTenant, NoCall)
  BY <1>4
<1> HIDE DEF e
<1>9. Ended(k).alive = conn[k].alive
  BY <1>4, <1>6
<1> QED
  BY <1>4, <1>5, <1>6, <1>7, <1>8, <1>9

(* The transaction of a thread ends, committed or not, and the call has    *)
(* its answer (postgres.py 146-150).                                       *)
LEMMA EndsIInv ==
  ASSUME IInv, NEW c \in Client, pc[c] \in {"commit", "rollback"}, Goto(c, "release"),
         SessionStep(held[c], Ended(held[c])),
         NEW a \in Answer \ {"open"}, answer' = [answer EXCEPT ![c] = a],
         UNCHANGED <<pool, lock, gauge, req, held, got, found, faults, known>>,
         req[c].op = "create" /\ a = "ok" => rows'[req[c].id] # Absent
  PROVE  IInv'
<1> PICK k : k = held[c]
  OBVIOUS
<1> PICK s : s = Ended(k)
  OBVIOUS
<1>1. /\ TypeOK /\ k \in Conn /\ conn[k] \in Session /\ CallIsSound(c)
      /\ req[c] \in Request \cup ListRequest /\ req[c].client = c
  BY AtHand DEF Holding
<1>2. s \in Session /\ s.tx = "idle" /\ s.write = NoCall /\ (s.alive => s = NewSession)
  BY <1>1, EndedIsNew
<1>3. conn'[k] = s /\ conn' \in [Conn -> Session]
  BY <1>1, <1>2 DEF SessionStep, SetAt, TypeOK
<1>4. pc' = [pc EXCEPT ![c] = "release"]
  BY DEF Goto
<1>5. pc'[c] = "release" /\ answer'[c] = a /\ \A d \in Client \ {c} : Same(d)
  BY <1>1, <1>4 DEF TypeOK, Same
<1>6. TypeOK'
  <2>1. pc' \in [Client -> {"idle"} \cup Step] /\ answer' \in [Client -> Answer]
    BY <1>1, <1>4 DEF TypeOK, Step
  <2>2. rows' \in [Id -> Row]
    BY <1>1, CommitChanges
  <2> QED
    BY <1>1, <1>3, <2>1, <2>2 DEF TypeOK
<1>7. SessionIsSound(c)'
  BY <1>2, <1>3, <1>5 DEF SessionIsSound
<1>8. CallIsSound(c)'
  BY <1>1, <1>5 DEF CallIsSound
<1>9. WriteIsSound(k)'
  BY <1>2, <1>3 DEF WriteIsSound
<1> QED
  BY <1>1, <1>2, <1>5, <1>6, <1>7, <1>8, <1>9, HolderStep DEF Holding

(* COMMIT (postgres.py 147).                                               *)
LEMMA CommitIInv ==
  ASSUME IInv, NEW c \in Client, Commit(c)
  PROVE  IInv'
<1> PICK k : k = held[c]
  OBVIOUS
<1> PICK r : r = req[c]
  OBVIOUS
<1> DEFINE a == IF answer[c] = "open" THEN "ok" ELSE answer[c]
<1>1. /\ pc[c] = "commit" /\ conn[k].alive /\ CommitWrite(k) /\ conn' = SetAt(conn, k, Ended(k))
      /\ answer' = [answer EXCEPT ![c] = a] /\ Goto(c, "release")
      /\ UNCHANGED <<pool, lock, gauge, req, held, got, found, faults, known>>
  BY DEF Commit, SetAt
<1>2. /\ TypeOK /\ k \in Conn /\ conn[k] \in Session /\ CallIsSound(c) /\ SessionIsSound(c)
      /\ r \in Request \cup ListRequest
  BY <1>1, AtHand DEF Holding
<1>3. a \in Answer \ {"open"}
  BY <1>2 DEF TypeOK, Answer
<1>4. conn[k].write = IF answer[c] = "open" THEN r ELSE NoCall
  BY <1>1, <1>2 DEF SessionIsSound
<1>5. Ended(k).write = NoCall
  BY <1>2, EndedIsNew
<1>6. SessionStep(k, Ended(k))
  BY <1>1, <1>5 DEF SessionStep, CommitWrite
<1>7. ASSUME r.op = "create", a = "ok" PROVE rows'[r.id] # Absent
  <2>1. r \in Request /\ r # NoCall /\ r.id \in Id
    BY <1>2, <1>7, CallType
  <2>2. CASE answer[c] = "open"
    <3>1. rows' = [rows EXCEPT ![r.id] = Written(r)] /\ Written(r) # Absent
      BY <1>1, <1>4, <1>7, <2>1, <2>2, WrittenType DEF CommitWrite, Writes
    <3> QED
      BY <1>2, <2>1, <3>1 DEF TypeOK
  <2>3. CASE answer[c] # "open"
    <3>1. rows[r.id] # Absent
      BY <1>1, <1>2, <1>7, <2>3 DEF CallIsSound
    <3> QED
      BY <1>2, <1>6, <2>1, <3>1, CommitChanges
  <2> QED
    BY <2>2, <2>3
<1> HIDE DEF a
<1> QED
  BY <1>1, <1>3, <1>6, <1>7, EndsIInv

(* ROLLBACK (postgres.py 149).                                             *)
LEMMA RollbackIInv ==
  ASSUME IInv, NEW c \in Client, Rollback(c)
  PROVE  IInv'
<1> PICK k : k = held[c]
  OBVIOUS
<1> PICK a : a = answer[c]
  OBVIOUS
<1>1. /\ pc[c] = "rollback" /\ conn' = SetAt(conn, k, Ended(k)) /\ Goto(c, "release")
      /\ UNCHANGED <<rows, pool, lock, gauge, req, held, answer, got, found, faults, known>>
  BY DEF Rollback, SetAt
<1>2. TypeOK /\ CallIsSound(c)
  BY <1>1, AtHand DEF Holding
<1>3. a \in Answer \ {"open"} /\ answer' = [answer EXCEPT ![c] = a]
  BY <1>1, <1>2 DEF TypeOK, CallIsSound
<1>4. SessionStep(k, Ended(k))
  BY <1>1 DEF SessionStep
<1>5. req[c].op = "create" /\ a = "ok" => rows'[req[c].id] # Absent
  BY <1>1, <1>2 DEF CallIsSound
<1> QED
  BY <1>1, <1>3, <1>4, <1>5, EndsIInv

(* Nobody asks for the id of a record that is being created.               *)
LEMMA IdsDiffer ==
  ASSUME IInv, NEW c \in Client, pc[c] # "idle", NEW d \in Client \ {c}, Creating(d)
  PROVE  req[c].id # req[d].id
<1>1. CallIsSound(d)
  BY DEF IInv
<1>2. Unshared(d)
  BY <1>1 DEF CallIsSound, Creating, Early
<1> QED
  BY <1>2 DEF Unshared

(* A call raises, whatever it was doing (postgres.py 142-150).             *)
LEMMA RaisesIInv ==
  ASSUME IInv, NEW c \in Client, pc[c] \in Holding,
         NEW next \in {"rollback", "release"}, Goto(c, next),
         next = "release" => ~ conn[held[c]].alive,
         Settle(c, "error", Absent), found' \in [Client -> SUBSET Id], faults' \in 0..MaxFaults,
         \A d \in Client \ {c} : found'[d] = found[d], found'[c] \subseteq found[c],
         UNCHANGED <<rows, conn, pool, lock, gauge, req, held, known>>
  PROVE  IInv'
<1>1. /\ TypeOK /\ CallIsSound(c) /\ KnownExist
  BY AtHand DEF IInv
<1>2. /\ pc' = [pc EXCEPT ![c] = next]
      /\ answer' = [answer EXCEPT ![c] = "error"] /\ got' = [got EXCEPT ![c] = Absent]
  BY DEF Goto, Settle
<1>3. pc'[c] = next /\ answer'[c] = "error" /\ \A d \in Client \ {c} : Same(d)
  BY <1>1, <1>2 DEF TypeOK, Same
<1>4. TypeOK'
  <2>1. pc' \in [Client -> {"idle"} \cup Step]
    BY <1>1, <1>2 DEF TypeOK, Step
  <2>2. answer' \in [Client -> Answer] /\ got' \in [Client -> Row]
    BY <1>1, <1>2 DEF TypeOK, Answer, Absent, Row
  <2> QED
    BY <1>1, <2>1, <2>2 DEF TypeOK
<1>5. SessionIsSound(c)'
  BY <1>3 DEF SessionIsSound
<1>6. CallIsSound(c)'
  BY <1>1, <1>3 DEF CallIsSound, Holding
<1>7. \A d \in Client \ {c} : Creating(d) => req[c].id # req[d].id
  BY IdsDiffer DEF Holding
<1>8. \A i \in known' \cup found'[c] : rows[i] # Absent
  BY <1>1 DEF KnownExist
<1>9. (pc'[c] \in Inside <=> pc[c] \in Inside) /\ (pc'[c] \in Holding <=> pc[c] \in Holding)
  BY <1>3 DEF Inside, Holding
<1> QED
  BY <1>3, <1>4, <1>5, <1>6, <1>7, <1>8, <1>9, ThreadStep

(* On a lost connection each step raises (postgres.py 142-150).            *)
LEMMA RaiseOnLostIInv ==
  ASSUME IInv, NEW c \in Client, RaiseOnLost(c)
  PROVE  IInv'
<1> PICK next : next = AfterRaise(pc[c])
  OBVIOUS
<1>1. /\ pc[c] \in {"scope", "statement", "commit", "rollback"} /\ ~ conn[held[c]].alive
      /\ Goto(c, next) /\ Settle(c, "error", Absent) /\ found' = [found EXCEPT ![c] = {}]
      /\ UNCHANGED <<rows, conn, pool, lock, gauge, req, held, faults, known>>
  BY DEF RaiseOnLost
<1>2. pc[c] \in Holding /\ next \in {"rollback", "release"}
  BY <1>1 DEF AfterRaise, Holding
<1>3. TypeOK
  BY DEF IInv
<1>4. /\ found' \in [Client -> SUBSET Id] /\ found'[c] \subseteq found[c]
      /\ \A d \in Client \ {c} : found'[d] = found[d]
      /\ faults' \in 0..MaxFaults
  BY <1>1, <1>3 DEF TypeOK
<1> QED
  BY <1>1, <1>2, <1>4, RaisesIInv

(* The server rejects the statement (postgres.py 145-150).                 *)
LEMMA StatementFailsIInv ==
  ASSUME IInv, NEW c \in Client, StatementFails(c)
  PROVE  IInv'
<1>1. /\ pc[c] = "statement" /\ faults < MaxFaults /\ faults' = faults + 1
      /\ Goto(c, "rollback") /\ Settle(c, "error", Absent)
      /\ UNCHANGED <<rows, conn, pool, lock, gauge, req, held, found, known>>
  BY DEF StatementFails, Fault
<1>2. TypeOK /\ pc[c] \in Holding
  BY <1>1 DEF IInv, Holding
<1>3. faults' \in 0..MaxFaults
  BY <1>1, <1>2, FaultsAreBounded DEF TypeOK
<1>4. found' \in [Client -> SUBSET Id] /\ \A d \in Client : found'[d] = found[d]
  BY <1>1, <1>2 DEF TypeOK
<1> QED
  BY <1>1, <1>2, <1>3, <1>4, RaisesIInv

(* The gauge moves after the lock was given back (postgres.py 172, 196).   *)
LEMMA CountPendingIInv ==
  ASSUME IInv, NEW c \in Client, CountPending(c)
  PROVE  IInv'
<1> PICK p : p = ProcessOf[c]
  OBVIOUS
<1> PICK t : t = req[c].tenant
  OBVIOUS
<1>1. /\ pc[c] = "count" /\ pc' = [pc EXCEPT ![c] = "done"]
      /\ UNCHANGED <<rows, conn, pool, lock, req, held, answer, got, found, faults, known>>
  BY DEF CountPending, Goto
<1>2. /\ TypeOK /\ CallIsSound(c) /\ KnownExist /\ p \in Process
  BY ProcessesOwn DEF IInv
<1>3. pc'[c] = "done" /\ \A d \in Client \ {c} : Same(d)
  BY <1>1, <1>2 DEF TypeOK, Same
<1>4. TypeOK'
  <2>1. pc' \in [Client -> {"idle"} \cup Step]
    BY <1>1, <1>2 DEF TypeOK, Step
  <2>2. gauge' \in [Process -> [Tenant -> Int]]
    <3> PICK m : m = gauge[p][t]
      OBVIOUS
    <3> DEFINE n == IF req[c].op = "create" THEN m + 1 ELSE m - 1
               g == [gauge[p] EXCEPT ![t] = n]
    <3>1. gauge' = [gauge EXCEPT ![p] = g]
      BY DEF CountPending
    <3>2. t \in Tenant
      BY <1>1, <1>2, CallType DEF CallIsSound
    <3>3. m \in Int /\ gauge[p] \in [Tenant -> Int] /\ n \in Int
      BY <1>2, <3>2 DEF TypeOK
    <3> HIDE DEF n
    <3>4. g \in [Tenant -> Int]
      BY <3>2, <3>3
    <3> HIDE DEF g
    <3> QED
      BY <1>2, <3>1, <3>4 DEF TypeOK
  <2> QED
    BY <1>1, <1>2, <2>1, <2>2 DEF TypeOK
<1>5. CallIsSound(c)'
  BY <1>1, <1>2, <1>3 DEF CallIsSound
<1>6. \A d \in Client \ {c} : Creating(d) => req'[c].id # req[d].id
  BY <1>1, IdsDiffer
<1>7. \A i \in known' \cup found'[c] : rows[i] # Absent
  BY <1>1, <1>2 DEF KnownExist
<1>8. pc'[c] \notin Inside /\ pc[c] \notin Inside /\ pc'[c] \notin Holding /\ pc[c] \notin Holding
  BY <1>1, <1>3 DEF Inside, Holding
<1> QED
  BY <1>1, <1>3, <1>4, <1>5, <1>6, <1>7, <1>8, ThreadStep

(* The call returns, with the ids it was asked for or made                 *)
(* (postgres.py 152-218).                                                  *)
LEMMA ReturnIInv ==
  ASSUME IInv, NEW c \in Client, Return(c)
  PROVE  IInv'
<1>1. /\ pc[c] = "done" /\ pc' = [pc EXCEPT ![c] = "idle"] /\ req' = [req EXCEPT ![c] = NoCall]
      /\ answer' = [answer EXCEPT ![c] = "open"] /\ got' = [got EXCEPT ![c] = Absent]
      /\ found' = [found EXCEPT ![c] = {}]
      /\ UNCHANGED <<rows, conn, pool, lock, gauge, held, faults>>
  BY DEF Return, Goto, Settle
<1>2. /\ TypeOK /\ CallIsSound(c) /\ KnownExist
  BY DEF IInv
<1>3. /\ pc'[c] = "idle" /\ req'[c] = NoCall /\ answer'[c] = "open" /\ got'[c] = Absent
      /\ found'[c] = {} /\ \A d \in Client \ {c} : Same(d)
  BY <1>1, <1>2 DEF TypeOK, Same
<1>4. ASSUME NEW i \in known' PROVE i \in Id /\ rows[i] # Absent
  <2>1. i \in known \cup found[c]
          \/ (req[c].op = "create" /\ answer[c] = "ok" /\ i = req[c].id)
    BY <1>4 DEF Return
  <2>2. CASE i \in known \cup found[c]
    BY <1>2, <2>2 DEF TypeOK, KnownExist
  <2>3. CASE req[c].op = "create" /\ answer[c] = "ok" /\ i = req[c].id
    BY <1>1, <1>2, <2>3, CallType DEF CallIsSound
  <2> QED
    BY <2>1, <2>2, <2>3
<1>5. TypeOK'
  <2>1. pc' \in [Client -> {"idle"} \cup Step] /\ found' \in [Client -> SUBSET Id]
    BY <1>1, <1>2 DEF TypeOK, Step
  <2>2. answer' \in [Client -> Answer] /\ got' \in [Client -> Row]
    BY <1>1, <1>2 DEF TypeOK, Answer, Absent, Row
  <2>3. req' \in [Client -> Request \cup ListRequest \cup {NoCall}] /\ known' \subseteq Id
    BY <1>1, <1>2, <1>4 DEF TypeOK
  <2> QED
    BY <1>1, <1>2, <2>1, <2>2, <2>3 DEF TypeOK
<1>6. CallIsSound(c)'
  BY <1>3 DEF CallIsSound
<1>7. \A i \in known' \cup found'[c] : rows[i] # Absent
  BY <1>3, <1>4
<1>8. pc'[c] \notin Inside /\ pc[c] \notin Inside /\ pc'[c] \notin Holding /\ pc[c] \notin Holding
  BY <1>1, <1>3 DEF Inside, Holding
<1> QED
  BY <1>1, <1>3, <1>5, <1>6, <1>7, <1>8, ThreadStep

(* A call begins: a new id is nobody else's, an asked one is in the table  *)
(* (postgres.py 152-218; uuid4).                                           *)
LEMMA BeginIInv ==
  ASSUME IInv, NEW c \in Client, NEW op, NEW i, NEW t, NEW v, Begin(c, op, i, t, v),
         [op |-> op, id |-> i, tenant |-> t, verdict |-> v, client |-> c] \in Request \cup ListRequest,
         i \in Id => Askable(i), op = "create" => i \in Id /\ Fresh(i)
  PROVE  IInv'
<1> DEFINE r == [op |-> op, id |-> i, tenant |-> t, verdict |-> v, client |-> c]
<1>1. /\ pc[c] = "idle" /\ pc' = [pc EXCEPT ![c] = "lock"] /\ req' = [req EXCEPT ![c] = r]
      /\ UNCHANGED <<rows, conn, pool, lock, gauge, held, answer, got, found, faults, known>>
  BY DEF Begin, Goto
<1>2. r.id = i /\ r.op = op /\ r.client = c /\ r \in Request \cup ListRequest
  OBVIOUS
<1> HIDE DEF r
<1>3. /\ TypeOK /\ CallIsSound(c) /\ KnownExist
  BY DEF IInv
<1>4. pc'[c] = "lock" /\ req'[c] = r /\ \A d \in Client \ {c} : Same(d)
  BY <1>1, <1>3 DEF TypeOK, Same
<1>5. TypeOK'
  <2>1. pc' \in [Client -> {"idle"} \cup Step]
    BY <1>1, <1>3 DEF TypeOK, Step
  <2>2. req' \in [Client -> Request \cup ListRequest \cup {NoCall}]
    BY <1>1, <1>2, <1>3 DEF TypeOK
  <2> QED
    BY <1>1, <1>3, <2>1, <2>2 DEF TypeOK
<1>6. CallIsSound(c)'
  <2>1. answer'[c] = "open"
    BY <1>1, <1>3 DEF CallIsSound
  <2>2. ASSUME op = "create" PROVE Unshared(c)'
    <3>1. Fresh(i)
      BY <2>2
    <3>2. \A d \in Client \ {c} : pc'[d] = pc[d] /\ req'[d] = req[d]
      BY <1>4 DEF Same
    <3> QED
      BY <1>1, <1>2, <1>4, <3>1, <3>2 DEF Fresh, Unshared
  <2> QED
    BY <1>2, <1>4, <2>1, <2>2 DEF CallIsSound
<1>7. ASSUME NEW d \in Client \ {c}, Creating(d) PROVE i # req[d].id
  <2>1. CallIsSound(d)
    BY DEF IInv
  <2>2. req[d] \in Request \cup ListRequest /\ Unshared(d) /\ pc[d] # "idle" /\ req[d].op = "create"
    BY <1>7, <2>1 DEF CallIsSound, Creating, Early
  <2>3. req[d].id \in Id
    BY <2>2, CallType
  <2>4. ASSUME i = req[d].id PROVE FALSE
    <3>1. i \in known
      BY <2>2, <2>3, <2>4 DEF Askable, Fresh
    <3>2. rows[i] = Absent
      BY <2>2, <2>4 DEF Unshared
    <3> QED
      BY <1>3, <3>1, <3>2 DEF KnownExist
  <2> QED
    BY <2>4
<1>8. \A j \in known' \cup found'[c] : rows[j] # Absent
  BY <1>1, <1>3 DEF KnownExist
<1>9. pc'[c] \notin Inside /\ pc[c] \notin Inside /\ pc'[c] \notin Holding /\ pc[c] \notin Holding
  BY <1>1, <1>4 DEF Inside, Holding
<1> QED
  BY <1>1, <1>2, <1>4, <1>5, <1>6, <1>7, <1>8, <1>9, ThreadStep

(* The calls of the store (postgres.py 152-218).                           *)
LEMMA CallIInv ==
  ASSUME IInv, NEW c \in Client, Call(c)
  PROVE  IInv'
<1> PICK t \in Tenant :
      \/ \E i \in Id :
           create_pending(c, i, t) \/ get(c, i, t) \/ \E v \in Verdict : decide(c, i, t, v)
      \/ list_pending(c, t)
  BY DEF Call
<1>1. ASSUME NEW i \in Id, NEW op \in {"create", "get"}, Begin(c, op, i, t, "none"), Askable(i),
             op = "create" => Fresh(i)
      PROVE  IInv'
  <2>1. [op |-> op, id |-> i, tenant |-> t, verdict |-> "none", client |-> c] \in Request
    BY DEF Request
  <2> QED
    BY <1>1, <2>1, BeginIInv
<1>2. ASSUME NEW i \in Id, NEW v \in Verdict, decide(c, i, t, v)
      PROVE  IInv'
  <2>1. [op |-> "decide", id |-> i, tenant |-> t, verdict |-> v, client |-> c] \in Request
    BY DEF Request
  <2> QED
    BY <1>2, <2>1, BeginIInv DEF decide
<1>3. ASSUME list_pending(c, t) PROVE IInv'
  <2>1. [op |-> "list", id |-> NoId, tenant |-> t, verdict |-> "none", client |-> c] \in ListRequest
    BY DEF ListRequest
  <2> QED
    BY <1>3, <2>1, NullsAreNew, BeginIInv DEF list_pending
<1>4. ASSUME NEW i \in Id, create_pending(c, i, t) PROVE IInv'
  BY <1>1, <1>4 DEF create_pending, Askable
<1>5. ASSUME NEW i \in Id, get(c, i, t) PROVE IInv'
  BY <1>1, <1>5 DEF get
<1> QED
  BY <1>2, <1>3, <1>4, <1>5

(* A thread waits for, or gives back, the lock or a connection: the calls  *)
(* and the database do not notice (postgres.py 83-89, 142).                *)
LEMMA QuietStep ==
  ASSUME IInv, NEW c \in Client, pc[c] # "idle",
         UNCHANGED <<rows, conn, req, answer, got, found, known>>, \A d \in Client \ {c} : Same(d)
  PROVE  /\ \A d \in Client \ {c} : HeldIsSound(d)' /\ CallIsSound(d)'
         /\ Unshared(c) => Unshared(c)'
         /\ \A k \in Conn : WriteIsSound(k)'
         /\ KnownExist'
<1>1. /\ TypeOK /\ KnownExist /\ \A d \in Client : HeldIsSound(d) /\ CallIsSound(d)
      /\ \A k \in Conn : WriteIsSound(k)
  BY DEF IInv, ConnIsSound
<1>2. \A d \in Client \ {c} : pc'[d] = pc[d]
  BY DEF Same
<1>3. ASSUME NEW d \in Client, Unshared(d) PROVE Unshared(d)'
  <2>1. \A e \in Client \ {d} : pc'[e] # "idle" => req'[e].id # req[d].id
    BY <1>2, <1>3 DEF Unshared
  <2>2. \A k \in Conn : conn'[k].write # NoCall => conn'[k].write.id # req[d].id
    BY <1>3 DEF Unshared
  <2> QED
    BY <1>3, <2>1, <2>2, UnsharedKept
<1>4. ASSUME NEW d \in Client \ {c} PROVE HeldIsSound(d)' /\ CallIsSound(d)'
  <2>1. HeldIsSound(d)'
    BY <1>1, HeldKept
  <2>2. Creating(d) => Unshared(d)
    BY <1>1 DEF CallIsSound, Creating, Early
  <2>3. CallIsSound(d)'
    BY <1>1, <1>3, <2>2, CallKept
  <2> QED
    BY <2>1, <2>3
<1>5. \A k \in Conn : WriteIsSound(k)'
  BY <1>1, WriteKept DEF WriteIsSound
<1>6. KnownExist'
  BY <1>1 DEF KnownExist
<1> QED
  BY <1>3, <1>4, <1>5, <1>6

(* The lock of the store (postgres.py 142).                                *)
LEMMA LockIInv ==
  ASSUME IInv, NEW c \in Client, Lock(c)
  PROVE  IInv'
<1> PICK p : p = ProcessOf[c]
  OBVIOUS
<1>1. /\ pc[c] = "lock" /\ lock[p] = NoClient /\ lock' = [lock EXCEPT ![p] = c]
      /\ pc' = [pc EXCEPT ![c] = "take"]
      /\ UNCHANGED <<rows, conn, pool, gauge, req, held, answer, got, found, faults, known>>
  BY DEF Lock, LockIsFree, Goto
<1>2. /\ TypeOK /\ LockIsSound /\ HeldIsSound(c) /\ CallIsSound(c) /\ p \in Process
      /\ lock \in [Process -> Client \cup {NoClient}] /\ pc \in [Client -> {"idle"} \cup Step]
  BY ProcessesOwn DEF IInv, TypeOK
<1>3. /\ pc'[c] = "take" /\ lock'[p] = c /\ \A q \in Process \ {p} : lock'[q] = lock[q]
      /\ \A d \in Client \ {c} : pc'[d] = pc[d]
  BY <1>1, <1>2
<1>4. \A d \in Client \ {c} : Same(d)
  BY <1>1, <1>3 DEF Same
<1>5. /\ \A d \in Client \ {c} : HeldIsSound(d)' /\ CallIsSound(d)'
      /\ \A k \in Conn : WriteIsSound(k)'
      /\ Unshared(c) => Unshared(c)'
      /\ KnownExist'
  BY <1>1, <1>4, QuietStep
<1>6. TypeOK'
  <2>1. lock' \in [Process -> Client \cup {NoClient}] /\ pc' \in [Client -> {"idle"} \cup Step]
    BY <1>1, <1>2 DEF Step
  <2> QED
    BY <1>1, <1>2, <2>1 DEF TypeOK
<1>7. LockIsSound'
  <2>1. ASSUME NEW d \in Client \ {c}
        PROVE  pc'[d] \in Inside <=> lock'[ProcessOf[d]] = d
    <3>1. ProcessOf[d] \in Process /\ (pc[d] \in Inside <=> lock[ProcessOf[d]] = d)
      BY <1>2, ProcessesOwn DEF LockIsSound
    <3>2. d # NoClient
      BY NullsAreNew
    <3> QED
      BY <1>1, <1>3, <3>1, <3>2
  <2>2. pc'[c] \in Inside
    BY <1>3 DEF Inside
  <2> QED
    BY <1>2, <1>3, <2>1, <2>2 DEF LockIsSound
<1>8. \A q \in Process : PoolIsOwn(q)'
  BY <1>1 DEF IInv, PoolIsOwn
<1>9. HeldIsSound(c)'
  BY <1>1, <1>2, <1>3 DEF HeldIsSound, Holding
<1>10. CallIsSound(c)'
  BY <1>1, <1>2, <1>3, <1>5 DEF CallIsSound
<1>11. \A k \in Conn : ConnIsSound(k)'
  BY <1>1, <1>5 DEF IInv, ConnIsSound
<1> QED
  BY <1>5, <1>6, <1>7, <1>8, <1>9, <1>10, <1>11 DEF IInv

(* The oldest connection of the pool (postgres.py 84-85).                  *)
LEMMA TakeConnectionIInv ==
  ASSUME IInv, NEW c \in Client, TakeConnection(c)
  PROVE  IInv'
<1> PICK p : p = ProcessOf[c]
  OBVIOUS
<1> PICK q : q = pool[p]
  OBVIOUS
<1> PICK k : k = Head(q)
  OBVIOUS
<1>1. /\ pc[c] = "take" /\ q # <<>> /\ held' = [held EXCEPT ![c] = k]
      /\ pool' = [pool EXCEPT ![p] = Tail(q)] /\ pc' = [pc EXCEPT ![c] = "scope"]
      /\ UNCHANGED <<rows, conn, lock, gauge, req, answer, got, found, faults, known>>
  BY DEF TakeConnection, Goto
<1>2. /\ TypeOK /\ LockIsSound /\ HeldIsSound(c) /\ CallIsSound(c) /\ p \in Process
      /\ pool \in [Process -> Seq(Conn)] /\ held \in [Client -> Conn \cup {NoConn}]
      /\ pc \in [Client -> {"idle"} \cup Step] /\ PoolIsOwn(p)
  BY ProcessesOwn DEF IInv, TypeOK
<1>3. /\ k \in Conn /\ k \in Range(q) /\ Tail(q) \in Seq(Conn) /\ IsInjective(Tail(q))
      /\ Range(Tail(q)) = Range(q) \ {k}
  BY <1>1, <1>2, TakesHead DEF PoolIsOwn
<1>4. ProcessOf[k] = p /\ ConnIsSound(k)
  BY <1>2, <1>3 DEF PoolIsOwn, IInv
<1>5. /\ \A d \in Client : held[d] # k /\ (conn[k].alive => conn[k] = NewSession)
  BY <1>3, <1>4 DEF ConnIsSound
<1>6. /\ pc'[c] = "scope" /\ held'[c] = k /\ pool'[p] = Tail(q)
      /\ \A r \in Process \ {p} : pool'[r] = pool[r]
      /\ \A d \in Client \ {c} : pc'[d] = pc[d] /\ held'[d] = held[d]
  BY <1>1, <1>2
<1>7. \A d \in Client \ {c} : Same(d)
  BY <1>1, <1>6 DEF Same
<1>8. /\ \A d \in Client \ {c} : HeldIsSound(d)' /\ CallIsSound(d)'
      /\ \A j \in Conn : WriteIsSound(j)'
      /\ Unshared(c) => Unshared(c)'
      /\ KnownExist'
  BY <1>1, <1>7, QuietStep
<1>9. TypeOK'
  <2>1. /\ pool' \in [Process -> Seq(Conn)] /\ held' \in [Client -> Conn \cup {NoConn}]
        /\ pc' \in [Client -> {"idle"} \cup Step]
    BY <1>1, <1>2, <1>3 DEF Step
  <2> QED
    BY <1>1, <1>2, <2>1 DEF TypeOK
<1>10. LockIsSound'
  BY <1>1, <1>2, <1>6 DEF LockIsSound, Inside, Holding
<1>11. ASSUME NEW r \in Process PROVE PoolIsOwn(r)'
  <2>1. PoolIsOwn(r)
    BY DEF IInv
  <2>2. CASE r = p
    BY <1>2, <1>3, <1>6, <2>2 DEF PoolIsOwn
  <2>3. CASE r # p
    BY <1>6, <2>1, <2>3 DEF PoolIsOwn
  <2> QED
    BY <2>2, <2>3
<1>12. HeldIsSound(c)'
  <2>1. SessionIsSound(c)'
    <3> PICK s : s = conn[k]
      OBVIOUS
    <3>1. conn'[held'[c]] = s /\ (s.alive => s = NewSession)
      BY <1>1, <1>5, <1>6
    <3> QED
      BY <1>6, <3>1 DEF SessionIsSound
  <2> QED
    BY <1>3, <1>4, <1>6, <2>1 DEF HeldIsSound, Holding
<1>13. CallIsSound(c)'
  BY <1>1, <1>2, <1>6, <1>8 DEF CallIsSound
<1>14. ASSUME NEW j \in Conn PROVE ConnIsSound(j)'
  <2>1. ConnIsSound(j) /\ ProcessOf[j] \in Process
    BY ProcessesOwn DEF IInv
  <2>2. held[c] # j
    BY <1>1, <1>2, NoConnIsNew DEF HeldIsSound, Holding
  <2>3. CASE j = k
    BY <1>1, <1>3, <1>4, <1>6, <1>8, <2>1, <2>3 DEF ConnIsSound
  <2>4. CASE j # k
    <3>1. j \in Range(pool'[ProcessOf[j]]) <=> j \in Range(pool[ProcessOf[j]])
      BY <1>3, <1>6, <2>1, <2>4
    <3>2. (\A d \in Client : held'[d] # j) <=> (\A d \in Client : held[d] # j)
      BY <1>6, <2>2, <2>4
    <3> QED
      BY <1>1, <1>8, <2>1, <3>1, <3>2 DEF ConnIsSound
  <2> QED
    BY <2>3, <2>4
<1> QED
  BY <1>8, <1>9, <1>10, <1>11, <1>12, <1>13, <1>14 DEF IInv

(* The connection goes last into the pool, as new or dead, and the lock is *)
(* given back (postgres.py 86-89, 142).                                    *)
LEMMA ReleaseIInv ==
  ASSUME IInv, NEW c \in Client, Release(c)
  PROVE  IInv'
<1> PICK p : p = ProcessOf[c]
  OBVIOUS
<1> PICK q : q = pool[p]
  OBVIOUS
<1> PICK k : k = held[c]
  OBVIOUS
<1> PICK next : next = IF answer[c] = "ok" /\ req[c].op \in {"create", "decide"}
                       THEN "count" ELSE "done"
  OBVIOUS
<1>1. /\ pc[c] = "release" /\ held' = [held EXCEPT ![c] = NoConn]
      /\ pool' = [pool EXCEPT ![p] = Append(q, k)] /\ pc' = [pc EXCEPT ![c] = next]
      /\ lock' = [lock EXCEPT ![p] = NoClient]
      /\ UNCHANGED <<rows, conn, gauge, req, answer, got, found, faults, known>>
  BY DEF Release, Goto
<1>2. /\ TypeOK /\ LockIsSound /\ HeldIsSound(c) /\ CallIsSound(c) /\ p \in Process
      /\ pool \in [Process -> Seq(Conn)] /\ held \in [Client -> Conn \cup {NoConn}]
      /\ lock \in [Process -> Client \cup {NoClient}]
      /\ pc \in [Client -> {"idle"} \cup Step] /\ PoolIsOwn(p)
  BY ProcessesOwn DEF IInv, TypeOK
<1>3. k \in Conn /\ ProcessOf[k] = p /\ SessionIsSound(c) /\ ConnIsSound(k)
  BY <1>1, <1>2 DEF HeldIsSound, Holding, IInv
<1>4. k \notin Range(q) /\ (conn[k].alive => conn[k] = NewSession)
  BY <1>1, <1>3 DEF ConnIsSound, SessionIsSound
<1>5. /\ Append(q, k) \in Seq(Conn) /\ IsInjective(Append(q, k))
      /\ Range(Append(q, k)) = Range(q) \cup {k}
  BY <1>2, <1>3, <1>4, PutsLast DEF PoolIsOwn
<1>6. /\ pc'[c] = next /\ held'[c] = NoConn /\ pool'[p] = Append(q, k) /\ lock'[p] = NoClient
      /\ \A r \in Process \ {p} : pool'[r] = pool[r] /\ lock'[r] = lock[r]
      /\ \A d \in Client \ {c} : pc'[d] = pc[d] /\ held'[d] = held[d]
  BY <1>1, <1>2
<1>7. \A d \in Client \ {c} : Same(d)
  BY <1>1, <1>6 DEF Same
<1>8. /\ \A d \in Client \ {c} : HeldIsSound(d)' /\ CallIsSound(d)'
      /\ \A j \in Conn : WriteIsSound(j)'
      /\ KnownExist'
  BY <1>1, <1>7, QuietStep
<1>9. next \in {"count", "done"} /\ (next = "count" => req[c].op \in Writes)
  BY DEF Writes
<1>10. TypeOK'
  <2>1. /\ pool' \in [Process -> Seq(Conn)] /\ held' \in [Client -> Conn \cup {NoConn}]
        /\ pc' \in [Client -> {"idle"} \cup Step] /\ lock' \in [Process -> Client \cup {NoClient}]
    BY <1>1, <1>2, <1>5, <1>9 DEF Step
  <2> QED
    BY <1>1, <1>2, <2>1 DEF TypeOK
<1>11. LockIsSound'
  <2>1. pc[c] \in Inside /\ pc'[c] \notin Inside
    BY <1>1, <1>6, <1>9 DEF Inside, Holding
  <2>2. ASSUME NEW d \in Client \ {c}
        PROVE  pc'[d] \in Inside <=> lock'[ProcessOf[d]] = d
    <3>1. ProcessOf[d] \in Process /\ (pc[d] \in Inside <=> lock[ProcessOf[d]] = d)
      BY <1>2, ProcessesOwn DEF LockIsSound
    <3>2. d # NoClient /\ lock[p] = c
      BY <1>2, <2>1, NullsAreNew DEF LockIsSound
    <3> QED
      BY <1>6, <3>1, <3>2
  <2>3. c # NoClient
    BY NullsAreNew
  <2>4. \A d \in Client : pc'[d] \in Inside <=> lock'[ProcessOf[d]] = d
    BY <1>6, <2>1, <2>2, <2>3
  <2>5. \A r \in Process : lock'[r] # NoClient => lock'[r] = lock[r]
    BY <1>6
  <2>6. \A r \in Process : lock'[r] # NoClient => ProcessOf[lock'[r]] = r
    BY <1>2, <2>5 DEF LockIsSound
  <2> QED
    BY <2>4, <2>6 DEF LockIsSound
<1>12. ASSUME NEW r \in Process PROVE PoolIsOwn(r)'
  <2>1. PoolIsOwn(r)
    BY DEF IInv
  <2>2. CASE r = p
    <3> PICK new : new = Append(q, k)
      OBVIOUS
    <3>1. \A j \in Range(q) \cup {k} : ProcessOf[j] = p
      BY <1>2, <1>3 DEF PoolIsOwn
    <3>2. pool'[p] = new /\ IsInjective(new) /\ Range(new) = Range(q) \cup {k}
      BY <1>5, <1>6
    <3> QED
      BY <2>2, <3>1, <3>2 DEF PoolIsOwn
  <2>3. CASE r # p
    BY <1>6, <2>1, <2>3 DEF PoolIsOwn
  <2> QED
    BY <2>2, <2>3
<1>13. HeldIsSound(c)'
  BY <1>6, <1>9 DEF HeldIsSound, Holding
<1>14. CallIsSound(c)'
  BY <1>1, <1>2, <1>6, <1>9 DEF CallIsSound
<1>15. ASSUME NEW j \in Conn PROVE ConnIsSound(j)'
  <2>1. ConnIsSound(j) /\ ProcessOf[j] \in Process /\ j # NoConn
    BY ProcessesOwn, NoConnIsNew DEF IInv
  <2>2. CASE j = k
    <3>1. \A d \in Client : held'[d] # k
      BY <1>3, <1>6, <2>1, <2>2, HoldersDiffer
    <3>2. k \in Range(pool'[p])
      BY <1>5, <1>6
    <3> PICK s : s = conn[k]
      OBVIOUS
    <3>3. /\ conn'[k] = s /\ (s.alive => s = NewSession) /\ WriteIsSound(k)'
          /\ s.tx = "committing" => ~ s.alive
      BY <1>1, <1>3, <1>4, <1>8 DEF ConnIsSound
    <3>4. ProcessOf[k] = p
      BY <1>3
    <3>5. ConnIsSound(k)'
      BY <3>1, <3>2, <3>3, <3>4 DEF ConnIsSound
    <3> QED
      BY <2>2, <3>5
  <2>3. CASE j # k
    <3>1. j \in Range(pool'[ProcessOf[j]]) <=> j \in Range(pool[ProcessOf[j]])
      <4>1. CASE ProcessOf[j] = p
        <5>1. j \in Range(Append(q, k)) <=> j \in Range(q)
          BY <1>5, <2>3
        <5> QED
          BY <1>6, <4>1, <5>1
      <4>2. CASE ProcessOf[j] # p
        BY <1>6, <2>1, <4>2
      <4> QED
        BY <4>1, <4>2
    <3>2. (\A d \in Client : held'[d] # j) <=> (\A d \in Client : held[d] # j)
      BY <1>6, <2>1, <2>3
    <3>3. conn'[j] = conn[j] /\ WriteIsSound(j)'
      BY <1>1, <1>8
    <3> QED
      BY <2>1, <3>1, <3>2, <3>3 DEF ConnIsSound
  <2> QED
    BY <2>2, <2>3
<1> QED
  BY <1>8, <1>10, <1>11, <1>12, <1>13, <1>14, <1>15 DEF IInv

(* A lost connection: dead, and its COMMIT sent or not.                    *)
LEMMA Loses ==
  ASSUME IInv, NEW k \in Conn, LoseConnection(k)
  PROVE  \E s \in Session :
           /\ conn' = SetAt(conn, k, s) /\ ~ s.alive /\ s.write = conn[k].write
           /\ \/ s.tx = conn[k].tx
              \/ s.tx = "committing" /\ \E d \in Client : held[d] = k /\ pc[d] = "commit"
<1> PICK no : no = FALSE
  OBVIOUS
<1> PICK x : x = conn[k]
  OBVIOUS
<1>1. /\ TypeOK /\ x \in Session /\ conn = [j \in Conn |-> conn[j]]
  BY DEF IInv, TypeOK
<1>2. \E a, b, t, w : x = Sess(a, b, t, w)
  BY <1>1, SessionType
<1>3. PICK a, b, t, w : x = Sess(a, b, t, w)
  BY <1>2
<1>4. b = x.tx /\ t = x.tenant /\ w = x.write
  BY <1>3, Fields
<1>5. b \in {"idle", "open", "committing"} /\ t \in Tenant \cup {NoTenant} /\ w \in Request \cup {NoCall}
  BY <1>1, <1>4, SessionType
<1>6. \/ conn' = Lose(conn, k, no)
      \/ conn' = LoseCommit(conn, k, no) /\ \E d \in Client : held[d] = k /\ pc[d] = "commit"
  BY DEF LoseConnection, Lose, LoseCommit
<1>7. CASE conn' = Lose(conn, k, no)
  <2> DEFINE s == Sess(no, b, t, w)
  <2>1. conn' = SetAt(conn, k, s)
    BY <1>1, <1>3, <1>7, LoseFields
  <2>2. s \in Session
    BY <1>5, IsSession
  <2>3. s.alive = no /\ s.tx = b /\ s.write = w
    BY Fields
  <2> HIDE DEF s
  <2> QED
    BY <1>4, <2>1, <2>2, <2>3
<1>8. CASE conn' = LoseCommit(conn, k, no) /\ \E d \in Client : held[d] = k /\ pc[d] = "commit"
  <2> DEFINE s == Sess(no, "committing", t, w)
  <2>1. conn' = SetAt(conn, k, s)
    BY <1>1, <1>3, <1>8, LoseCommitFields
  <2>2. s \in Session
    BY <1>5, IsSession
  <2>3. s.alive = no /\ s.tx = "committing" /\ s.write = w
    BY Fields
  <2> HIDE DEF s
  <2> QED
    BY <1>4, <1>8, <2>1, <2>2, <2>3
<1> QED
  BY <1>6, <1>7, <1>8

(* The network loses a connection (external).                              *)
LEMMA LoseConnectionIInv ==
  ASSUME IInv, NEW k \in Conn, LoseConnection(k)
  PROVE  IInv'
<1>1. PICK s \in Session :
           /\ conn' = SetAt(conn, k, s) /\ ~ s.alive /\ s.write = conn[k].write
           /\ s.tx = conn[k].tx \/ s.tx = "committing"
  BY Loses
<1>2. /\ faults < MaxFaults /\ faults' = faults + 1
      /\ UNCHANGED <<rows, pool, lock, gauge, pc, req, held, answer, got, found, known>>
  BY DEF LoseConnection, Fault
<1>3. TypeOK /\ WriteIsSound(k)
  BY DEF IInv, ConnIsSound
<1>4. s.write # NoCall => s.tx # "idle"
  BY <1>1, <1>3 DEF WriteIsSound
<1>5. TypeOK'
  <2>1. conn' \in [Conn -> Session]
    BY <1>1, <1>3 DEF TypeOK, SetAt
  <2>2. faults' \in 0..MaxFaults
    BY <1>2, <1>3, FaultsAreBounded DEF TypeOK
  <2> QED
    BY <1>2, <1>3, <2>1, <2>2 DEF TypeOK
<1>6. SessionStep(k, s)
  BY <1>1, <1>2 DEF SessionStep
<1> QED
  BY <1>1, <1>2, <1>4, <1>5, <1>6, LossStep

(* The server ends the transaction of a lost connection (external).        *)
LEMMA ServerEndsIInv ==
  ASSUME IInv, NEW k \in Conn, ServerEnds(k)
  PROVE  IInv'
<1> PICK s : s = Ended(k)
  OBVIOUS
<1>1. /\ ~ conn[k].alive /\ (CommitWrite(k) \/ rows' = rows) /\ conn' = SetAt(conn, k, s)
      /\ UNCHANGED <<pool, lock, gauge, pc, req, held, answer, got, found, faults, known>>
  BY DEF ServerEnds, SetAt
<1>2. TypeOK /\ conn[k] \in Session
  BY DEF IInv, TypeOK
<1>3. s \in Session /\ ~ s.alive /\ s.write = NoCall
  BY <1>1, <1>2, EndedIsNew
<1>4. SessionStep(k, s)
  BY <1>1, <1>3 DEF SessionStep, CommitWrite
<1>5. TypeOK'
  <2>1. conn' \in [Conn -> Session]
    BY <1>1, <1>2, <1>3 DEF TypeOK, SetAt
  <2>2. rows' \in [Id -> Row]
    BY <1>4, CommitChanges
  <2> QED
    BY <1>1, <1>2, <2>1, <2>2 DEF TypeOK
<1> QED
  BY <1>1, <1>3, <1>4, <1>5, LossStep

-----------------------------------------------------------------------------
(* The store was opened, and its pools filled (postgres.py 73-81).         *)
LEMMA InitIInv == Init => IInv
<1> SUFFICES ASSUME Init PROVE IInv
  OBVIOUS
<1>1. /\ rows = [i \in Id |-> Absent] /\ conn = [k \in Conn |-> NewSession]
      /\ lock = [p \in Process |-> NoClient] /\ gauge = [p \in Process |-> [t \in Tenant |-> 0]]
      /\ pc = [c \in Client |-> "idle"] /\ req = [c \in Client |-> NoCall]
      /\ held = [c \in Client |-> NoConn] /\ answer = [c \in Client |-> "open"]
      /\ got = [c \in Client |-> Absent] /\ found = [c \in Client |-> {}]
      /\ faults = 0 /\ known = {}
  BY DEF Init
<1>2. /\ pool \in [Process -> UNION {[1..n -> Conn] : n \in 0..Cardinality(Conn)}]
      /\ \A p \in Process : IsPool(pool[p], p)
  BY DEF Init
<1>3. ASSUME NEW p \in Process
      PROVE  /\ pool[p] \in Seq(Conn) /\ IsInjective(pool[p])
             /\ Range(pool[p]) = {k \in Conn : ProcessOf[k] = p}
  <2>1. pool[p] \in UNION {[1..n -> Conn] : n \in 0..Cardinality(Conn)}
    BY <1>2
  <2>2. Cardinality(Conn) \in Nat
    BY PoolsAreFinite, FS_CardinalityType
  <2>3. PICK n \in 0..Cardinality(Conn) : pool[p] \in [1..n -> Conn]
    BY <2>1
  <2>4. n \in Nat
    BY <2>2, <2>3
  <2> QED
    BY <1>2, <2>3, <2>4, FilledPool
<1>4. NewSession \in Session /\ NewSession.alive /\ NewSession.tx = "idle" /\ NewSession.write = NoCall
  BY DEF NewSession, Session
<1>5. TypeOK
  <2>1. Absent \in Row
    BY DEF Absent, Row
  <2>2. pool \in [Process -> Seq(Conn)]
    BY <1>2, <1>3
  <2>3. conn \in [Conn -> Session]
    BY <1>1, <1>4
  <2> QED
    BY <1>1, <2>1, <2>2, <2>3, FaultsAreBounded DEF TypeOK, Answer, Step
<1>6. LockIsSound
  BY <1>1, ProcessesOwn, NullsAreNew DEF LockIsSound, Inside, Holding
<1>7. \A p \in Process : PoolIsOwn(p)
  BY <1>3 DEF PoolIsOwn
<1>8. \A c \in Client : HeldIsSound(c) /\ CallIsSound(c)
  BY <1>1 DEF HeldIsSound, CallIsSound, Holding
<1>9. ASSUME NEW k \in Conn PROVE ConnIsSound(k)
  <2>1. k \in Range(pool[ProcessOf[k]]) /\ \A c \in Client : held[c] # k
    BY <1>1, <1>3, ProcessesOwn, NoConnIsNew
  <2>2. conn[k] = NewSession /\ WriteIsSound(k)
    BY <1>1, <1>4 DEF WriteIsSound
  <2> QED
    BY <1>4, <2>1, <2>2 DEF ConnIsSound
<1>10. KnownExist
  BY <1>1 DEF KnownExist
<1> QED
  BY <1>5, <1>6, <1>7, <1>8, <1>9, <1>10 DEF IInv

(* Every step keeps the invariant, one lemma for each action.              *)
LEMMA NextIInv == IInv /\ [Next]_vars => IInv'
<1> SUFFICES ASSUME IInv, [Next]_vars PROVE IInv'
  OBVIOUS
<1>1. CASE UNCHANGED vars
  BY <1>1 DEF vars, IInv, TypeOK, LockIsSound, PoolIsOwn, HeldIsSound, SessionIsSound, CallIsSound,
              Unshared, ConnIsSound, WriteIsSound, KnownExist
<1>2. ASSUME NEW c \in Client, Call(c) \/ Lock(c) \/ Work(c) \/ StatementFails(c) PROVE IInv'
  <2>1. ASSUME Work(c) PROVE IInv'
    BY <2>1, TakeConnectionIInv, SetTenantIInv, StatementIInv, CommitIInv, RollbackIInv,
       RaiseOnLostIInv, ReleaseIInv, CountPendingIInv, ReturnIInv DEF Work
  <2> QED
    BY <1>2, <2>1, CallIInv, LockIInv, StatementFailsIInv
<1>3. ASSUME NEW k \in Conn, LoseConnection(k) \/ ServerEnds(k) PROVE IInv'
  BY <1>3, LoseConnectionIInv, ServerEndsIInv
<1> QED
  BY <1>1, <1>2, <1>3 DEF Next

(* The invariant holds in every state the store reaches.                   *)
THEOREM Invariance == Spec => []IInv
BY InitIInv, NextIInv, PTL DEF Spec

(* Every variable of the store has its type (postgres.py 60-218).          *)
THEOREM TypeCorrect == Spec => []TypeOK
<1>1. IInv => TypeOK
  BY DEF IInv
<1> QED
  BY <1>1, Invariance, PTL

(* A pooled connection carries nothing of an earlier tenant, and none      *)
(* leaks or is shared (postgres.py 4-6, 83-89, 142).                       *)
THEOREM PoolsAreSound == Spec => []PoolIsSound
<1>1. ASSUME IInv PROVE PoolIsSound
  <2> SUFFICES ASSUME NEW k \in Conn
               PROVE  LET p == ProcessOf[k]
                          places == {n \in DOMAIN pool[p] : pool[p][n] = k}
                          holders == {c \in Client : held[c] = k}
                      IN /\ Cardinality(places) + Cardinality(holders) = 1
                         /\ holders \subseteq {lock[p]}
                         /\ places # {} /\ conn[k].alive => conn[k] = NewSession
    BY DEF PoolIsSound
  <2> DEFINE p == ProcessOf[k]
             places == {n \in DOMAIN pool[p] : pool[p][n] = k}
             holders == {c \in Client : held[c] = k}
  <2>1. p \in Process /\ ConnIsSound(k) /\ PoolIsOwn(p) /\ LockIsSound
    BY <1>1, ProcessesOwn DEF IInv
  <2>2. /\ k \in Range(pool[p]) => Cardinality(places) = 1
        /\ k \notin Range(pool[p]) => places = {}
    BY <2>1, OnceInPool DEF PoolIsOwn
  <2>3. ASSUME NEW c \in holders PROVE c = lock[p]
    <3>1. c \in Client /\ held[c] = k /\ HeldIsSound(c) /\ held[c] # NoConn
      BY <1>1, <2>3, NoConnIsNew DEF IInv
    <3>2. pc[c] \in Inside /\ ProcessOf[c] = p
      BY <3>1 DEF HeldIsSound, Inside
    <3> QED
      BY <2>1, <3>1, <3>2 DEF LockIsSound
  <2>4. CASE k \in Range(pool[p])
    <3>1. holders = {} /\ Cardinality(places) = 1
      BY <2>1, <2>2, <2>4 DEF ConnIsSound
    <3>2. Cardinality(holders) = 0
      BY <3>1, FS_EmptySet
    <3>3. conn[k].alive => conn[k] = NewSession
      BY <2>1, <2>4 DEF ConnIsSound
    <3> QED
      BY <2>3, <3>1, <3>2, <3>3
  <2>5. CASE k \notin Range(pool[p])
    <3>1. PICK c \in Client : held[c] = k
      BY <2>1, <2>5 DEF ConnIsSound
    <3>2. holders = {c}
      BY <1>1, <3>1, HoldersDiffer
    <3>3. Cardinality(holders) = 1 /\ places = {} /\ Cardinality(places) = 0
      BY <2>2, <2>5, <3>2, FS_Singleton, FS_EmptySet
    <3> QED
      BY <2>3, <3>3
  <2> QED
    BY <2>4, <2>5
<1> QED
  BY <1>1, Invariance, PTL

-----------------------------------------------------------------------------
(***************************************************************************)
(* The gauges.  ContractProofs has what sums obey.                         *)
(***************************************************************************)
ContractProofs == INSTANCE ApprovalStoreProofs WITH
  approvals <- rows, limbo <- Limbo, call <- AbstractCalls

(* Sums and finite sets are the same there as here.                        *)
LEMMA SameSums ==
  /\ \A S : ContractProofs!IsFiniteSet(S) <=> IsFiniteSet(S)
  /\ \A f, S : ContractProofs!SumFunctionOnSet(f, S) = SumFunctionOnSet(f, S)
<1>1. ASSUME NEW S PROVE ContractProofs!IsFiniteSet(S) <=> IsFiniteSet(S)
  BY DEF IsFiniteSet, ContractProofs!IsFiniteSet
<1>2. ASSUME NEW f, NEW S PROVE ContractProofs!SumFunctionOnSet(f, S) = SumFunctionOnSet(f, S)
  BY DEF SumFunctionOnSet, FoldFunctionOnSet, MapThenFoldSet,
         ContractProofs!SumFunctionOnSet, ContractProofs!FoldFunctionOnSet,
         ContractProofs!MapThenFoldSet
<1> QED
  BY <1>1, <1>2

(* How sums over the processes and over the threads change (metrics.py 78).*)
LEMMA SumsOver ==
  ASSUME NEW S, IsFiniteSet(S)
  PROVE
  /\ \A f : (\A x \in S : f[x] = 0) => SumFunctionOnSet(f, S) = 0
  /\ \A f : (\A x \in S : f[x] \in Int) => SumFunctionOnSet(f, S) \in Int
  /\ \A f, h : (\A x \in S : f[x] = h[x]) => SumFunctionOnSet(f, S) = SumFunctionOnSet(h, S)
  /\ \A f, h : \A x \in S :
       (\A y \in S : f[y] \in Int /\ h[y] \in Int) /\ (\A y \in S \ {x} : h[y] = f[y])
         => SumFunctionOnSet(h, S) = SumFunctionOnSet(f, S) + h[x] - f[x]
<1> USE SameSums, NullsAreNew DEF ContractProofs!NullsAreNew
<1>1. ASSUME NEW f, \A x \in S : f[x] = 0 PROVE SumFunctionOnSet(f, S) = 0
  BY <1>1, ContractProofs!SumOfZeros
<1>2. ASSUME NEW f, \A x \in S : f[x] \in Int PROVE SumFunctionOnSet(f, S) \in Int
  BY <1>2, ContractProofs!SumRemove
<1>3. ASSUME NEW f, NEW h, \A x \in S : f[x] = h[x]
      PROVE  SumFunctionOnSet(f, S) = SumFunctionOnSet(h, S)
  BY <1>3, ContractProofs!SumOfSame
<1>4. ASSUME NEW f, NEW h, NEW x \in S, \A y \in S : f[y] \in Int /\ h[y] \in Int,
             \A y \in S \ {x} : h[y] = f[y]
      PROVE  SumFunctionOnSet(h, S) = SumFunctionOnSet(f, S) + h[x] - f[x]
  BY <1>4, ContractProofs!SumChanges
<1> QED
  BY <1>1, <1>2, <1>3, <1>4

(* What a thread has committed and not counted yet.                        *)
Due(c, t) ==
  IF /\ pc[c] \in {"release", "count"} /\ answer[c] = "ok"
     /\ req[c].op \in Writes /\ req[c].tenant = t
    THEN IF req[c].op = "create" THEN 1 ELSE -1
    ELSE 0

Counted(t) == [p \in Process |-> gauge[p][t]]
Dues(t)    == [c \in Client |-> Due(c, t)]

AddsUp(t) ==
  /\ IsFiniteSet(PendingOf(t))
  /\ SumFunctionOnSet(Counted(t), Process) + SumFunctionOnSet(Dues(t), Client)
       = Cardinality(PendingOf(t))

(* Nothing failed: no connection is dead and no transaction rolled back; a *)
(* write is answered by its COMMIT, and counted when that was "ok".        *)
Fares(c) ==
  /\ pc[c] # "rollback"
  /\ pc[c] = "commit" /\ answer[c] = "ok" => req[c].op \notin Writes
  /\ pc[c] = "count" => answer[c] = "ok"

Unfailed == (\A k \in Conn : conn[k].alive) /\ \A c \in Client : Fares(c)

GaugesAreDue == faults = 0 => Unfailed /\ \A t \in Tenant : AddsUp(t)

(* Gauges and dues are integers, and so are their sums (metrics.py 78).    *)
LEMMA CountsType ==
  ASSUME TypeOK, NEW t \in Tenant
  PROVE  /\ \A p \in Process : Counted(t)[p] \in Int
         /\ \A c \in Client : Dues(t)[c] \in Int
         /\ SumFunctionOnSet(Counted(t), Process) \in Int
         /\ SumFunctionOnSet(Dues(t), Client) \in Int
<1>1. \A p \in Process : Counted(t)[p] \in Int
  BY DEF Counted, TypeOK
<1>2. \A c \in Client : Dues(t)[c] \in Int
  BY DEF Dues, Due
<1> QED
  BY <1>1, <1>2, SumsOver, ThreadsAreFinite

(* Nothing is pending that was not, and nothing is counted.                *)
LEMMA CountsStay ==
  ASSUME IInv, NEW t \in Tenant, AddsUp(t), UNCHANGED <<rows, gauge>>,
         \A c \in Client : Due(c, t)' = Due(c, t)
  PROVE  AddsUp(t)'
<1>1. PendingOf(t)' = PendingOf(t) /\ Counted(t)' = Counted(t) /\ Dues(t)' = Dues(t)
  BY DEF PendingOf, Counted, Dues
<1> QED
  BY <1>1 DEF AddsUp

(* COMMIT makes a row pending, or no longer, and leaves it to be counted.  *)
LEMMA CommitCounts ==
  ASSUME IInv, IInv', NEW t \in Tenant, AddsUp(t), gauge' = gauge,
         NEW c \in Client, NEW i \in Id, NEW n \in {1, -1}, Due(c, t) = 0, Due(c, t)' = n,
         \A d \in Client \ {c} : Due(d, t)' = Due(d, t),
         \/ n = 1 /\ i \notin PendingOf(t) /\ PendingOf(t)' = PendingOf(t) \cup {i}
         \/ n = -1 /\ i \in PendingOf(t) /\ PendingOf(t)' = PendingOf(t) \ {i}
  PROVE  AddsUp(t)'
<1> PICK f, h, g : f = Dues(t) /\ h = Dues(t)' /\ g = Counted(t)
  OBVIOUS
<1>1. /\ \A d \in Client : f[d] \in Int /\ h[d] \in Int
      /\ SumFunctionOnSet(f, Client) \in Int /\ SumFunctionOnSet(g, Process) \in Int
  <2>1. TypeOK /\ TypeOK'
    BY DEF IInv
  <2>2. \A d \in Client : Dues(t)'[d] \in Int
    BY DEF Dues, Due
  <2> QED
    BY <2>1, <2>2, CountsType
<1>2. h[c] = n /\ f[c] = 0 /\ \A d \in Client \ {c} : h[d] = f[d]
  BY DEF Dues
<1>3. SumFunctionOnSet(h, Client) = SumFunctionOnSet(f, Client) + n
  <2>1. SumFunctionOnSet(h, Client) = SumFunctionOnSet(f, Client) + h[c] - f[c]
    BY <1>1, <1>2, SumsOver, ThreadsAreFinite
  <2> QED
    BY <1>1, <1>2, <2>1
<1>4. /\ IsFiniteSet(PendingOf(t)') /\ Cardinality(PendingOf(t)) \in Nat
      /\ Cardinality(PendingOf(t)') = Cardinality(PendingOf(t)) + n
  <2>1. IsFiniteSet(PendingOf(t)) /\ Cardinality(PendingOf(t)) \in Nat
    BY FS_CardinalityType DEF AddsUp
  <2>2. CASE n = 1
    BY <2>1, <2>2, FS_AddElement
  <2>3. CASE n = -1
    BY <2>1, <2>3, FS_RemoveElement, FS_CardinalityType
  <2> QED
    BY <2>1, <2>2, <2>3
<1>5. SumFunctionOnSet(g, Process) + SumFunctionOnSet(f, Client) = Cardinality(PendingOf(t))
  BY DEF AddsUp
<1>6. Counted(t)' = g
  BY DEF Counted
<1>7. SumFunctionOnSet(g, Process) + SumFunctionOnSet(h, Client) = Cardinality(PendingOf(t)')
  BY <1>1, <1>3, <1>4, <1>5
<1> QED
  BY <1>4, <1>6, <1>7 DEF AddsUp

(* The gauge of the thread's process counts what was due.                  *)
LEMMA GaugeCounts ==
  ASSUME IInv, IInv', NEW t \in Tenant, AddsUp(t), rows' = rows,
         NEW c \in Client, NEW p \in Process,
         gauge'[p][t] = gauge[p][t] + Due(c, t), Due(c, t)' = 0,
         \A q \in Process \ {p} : gauge'[q][t] = gauge[q][t],
         \A d \in Client \ {c} : Due(d, t)' = Due(d, t)
  PROVE  AddsUp(t)'
<1> PICK f, h, g, e, n : /\ f = Dues(t) /\ h = Dues(t)' /\ g = Counted(t) /\ e = Counted(t)'
                         /\ n = Due(c, t)
  OBVIOUS
<1>1. /\ \A d \in Client : f[d] \in Int /\ h[d] \in Int
      /\ \A q \in Process : g[q] \in Int /\ e[q] \in Int
      /\ SumFunctionOnSet(f, Client) \in Int /\ SumFunctionOnSet(g, Process) \in Int
      /\ n \in Int
  <2>1. TypeOK /\ TypeOK'
    BY DEF IInv
  <2>2. \A d \in Client : Dues(t)'[d] \in Int
    BY DEF Dues, Due
  <2>3. \A q \in Process : Counted(t)'[q] \in Int
    BY <2>1 DEF Counted, TypeOK
  <2>4. n \in Int
    BY DEF Due
  <2> QED
    BY <2>1, <2>2, <2>3, <2>4, CountsType
<1>2. h[c] = 0 /\ f[c] = n /\ \A d \in Client \ {c} : h[d] = f[d]
  BY DEF Dues
<1>3. e[p] = g[p] + n /\ \A q \in Process \ {p} : e[q] = g[q]
  BY DEF Counted
<1>4. SumFunctionOnSet(h, Client) = SumFunctionOnSet(f, Client) - n
  <2>1. SumFunctionOnSet(h, Client) = SumFunctionOnSet(f, Client) + h[c] - f[c]
    BY <1>1, <1>2, SumsOver, ThreadsAreFinite
  <2> QED
    BY <1>1, <1>2, <2>1
<1>5. SumFunctionOnSet(e, Process) = SumFunctionOnSet(g, Process) + n
  <2>1. SumFunctionOnSet(e, Process) = SumFunctionOnSet(g, Process) + e[p] - g[p]
    BY <1>1, <1>3, SumsOver, ThreadsAreFinite
  <2> QED
    BY <1>1, <1>3, <2>1
<1>6. PendingOf(t)' = PendingOf(t)
  BY DEF PendingOf
<1>7. SumFunctionOnSet(g, Process) + SumFunctionOnSet(f, Client) = Cardinality(PendingOf(t))
      /\ IsFiniteSet(PendingOf(t))
  BY DEF AddsUp
<1>8. SumFunctionOnSet(e, Process) + SumFunctionOnSet(h, Client)
        = SumFunctionOnSet(g, Process) + SumFunctionOnSet(f, Client)
  BY <1>1, <1>4, <1>5
<1> QED
  BY <1>6, <1>7, <1>8 DEF AddsUp

(* What a thread is due changes only with its own step.                    *)
LEMMA OthersDue ==
  ASSUME NEW d \in Client, Same(d), NEW t \in Tenant
  PROVE  Due(d, t)' = Due(d, t)
BY DEF Same, Due

(* A step of one thread that nothing failed in, nothing is written by and  *)
(* nothing is counted with.                                                *)
LEMMA QuietGauges ==
  ASSUME IInv, GaugesAreDue, faults = 0, UNCHANGED <<rows, gauge>>,
         \A k \in Conn : conn'[k].alive,
         NEW c \in Client, \A d \in Client \ {c} : Same(d),
         \A t \in Tenant : Due(c, t)' = Due(c, t),
         Fares(c)'
  PROVE  GaugesAreDue'
<1>1. Unfailed /\ \A t \in Tenant : AddsUp(t)
  BY DEF GaugesAreDue
<1>2. Unfailed'
  BY <1>1 DEF Unfailed, Fares, Same
<1>3. ASSUME NEW t \in Tenant PROVE AddsUp(t)'
  BY <1>1, <1>3, OthersDue, CountsStay
<1> QED
  BY <1>2, <1>3 DEF GaugesAreDue

(* Before its statement a call has nothing to count, and its transaction   *)
(* is on a connection that stays alive (postgres.py 136-146).              *)
LEMMA EarlyGauges ==
  ASSUME IInv, GaugesAreDue, faults = 0, NEW c \in Client,
         Call(c) \/ Lock(c) \/ TakeConnection(c) \/ SetTenant(c)
  PROVE  GaugesAreDue'
<1>1. TypeOK /\ Unfailed
  BY DEF IInv, GaugesAreDue
<1>2. /\ UNCHANGED <<rows, gauge, answer, got, found>> /\ pc[c] \in Early \cup {"idle"}
      /\ \E next \in Early : pc' = [pc EXCEPT ![c] = next]
      /\ req' = req \/ \E r : req' = [req EXCEPT ![c] = r]
      /\ held' = held \/ \E k : held' = [held EXCEPT ![c] = k]
  <2>1. CASE Call(c)
    <3>1. PICK op, i, t, v : Begin(c, op, i, t, v)
      BY <2>1 DEF Call, create_pending, decide, get, list_pending
    <3> QED
      BY <3>1 DEF Begin, Goto, Early
  <2> QED
    BY <2>1 DEF Lock, TakeConnection, SetTenant, Goto, Early
<1>3. pc'[c] \in Early /\ \A d \in Client \ {c} : Same(d)
  BY <1>1, <1>2 DEF Same, TypeOK
<1>4. \A t \in Tenant : Due(c, t)' = Due(c, t)
  BY <1>2, <1>3 DEF Due, Early
<1>5. \A k \in Conn : conn'[k].alive
  <2>1. CASE SetTenant(c)
    <3> PICK k, t : k = held[c] /\ t = req[c].tenant
      OBVIOUS
    <3>1. pc[c] = "scope" /\ conn' = BeginTx(conn, k, t)
      BY <2>1 DEF SetTenant, BeginTx
    <3>2. k \in Conn /\ conn[k] \in Session /\ conn = [j \in Conn |-> conn[j]]
      BY <3>1, AtHand DEF Holding
    <3> PICK a, x, y, w : conn[k] = Sess(a, x, y, w)
      BY <3>2, SessionType
    <3>3. conn' = SetAt(conn, k, Sess(a, "open", t, w))
      BY <3>1, <3>2, BeginTxFields
    <3>4. Sess(a, "open", t, w).alive = conn[k].alive
      BY Fields
    <3> QED
      BY <1>1, <3>2, <3>3, <3>4 DEF SetAt, Unfailed
  <2>2. CASE ~ SetTenant(c)
    <3>1. conn' = conn
      BY <2>2 DEF Call, create_pending, decide, get, list_pending, Begin, Lock, TakeConnection
    <3> QED
      BY <1>1, <3>1 DEF Unfailed
  <2> QED
    BY <2>1, <2>2
<1> QED
  BY <1>2, <1>3, <1>4, <1>5, QuietGauges DEF Early, Fares

(* The statement of a write leaves the answer to COMMIT, or refuses        *)
(* (postgres.py 152-208).                                                  *)
LEMMA StatementGauges ==
  ASSUME IInv, GaugesAreDue, faults = 0, NEW c \in Client, Statement(c)
  PROVE  GaugesAreDue'
<1> PICK k, r : k = held[c] /\ r = req[c]
  OBVIOUS
<1>1. /\ TypeOK /\ Unfailed /\ pc[c] = "statement" /\ k \in Conn /\ conn[k] \in Session
      /\ conn = [j \in Conn |-> conn[j]]
  BY AtHand DEF Holding, IInv, GaugesAreDue, Statement
<1>2. /\ pc' = [pc EXCEPT ![c] = "commit"] /\ UNCHANGED <<rows, gauge, req, held>>
      /\ Insert(c) \/ Update(c) \/ Select(c) \/ SelectPending(c)
  BY DEF Statement, Goto
<1>3. PICK a, row, ids : /\ answer' = [answer EXCEPT ![c] = a] /\ got' = [got EXCEPT ![c] = row]
                         /\ found' = found \/ found' = [found EXCEPT ![c] = ids]
                         /\ a = "ok" => r.op \notin Writes
  BY <1>2 DEF Insert, Update, Select, SelectPending, Settle, Writes
<1>4. conn' = conn \/ \E w : conn' = PutWrite(conn, k, w)
  BY <1>2 DEF Insert, Update, Select, SelectPending, PutWrite
<1>5. /\ pc'[c] = "commit" /\ answer'[c] = a /\ req'[c] = r
      /\ \A d \in Client \ {c} : Same(d)
  BY <1>1, <1>2, <1>3 DEF TypeOK, Same
<1>6. \A t \in Tenant : Due(c, t)' = Due(c, t)
  BY <1>1, <1>5 DEF Due
<1>7. \A j \in Conn : conn'[j].alive
  <2>1. ASSUME NEW w, conn' = PutWrite(conn, k, w) PROVE \A j \in Conn : conn'[j].alive
    <3> PICK b, x, y, z : conn[k] = Sess(b, x, y, z)
      BY <1>1, SessionType
    <3>1. conn' = SetAt(conn, k, Sess(b, x, y, w))
      BY <1>1, <2>1, PutWriteFields
    <3>2. Sess(b, x, y, w).alive = conn[k].alive
      BY Fields
    <3> QED
      BY <1>1, <3>1, <3>2 DEF SetAt, Unfailed
  <2> QED
    BY <1>1, <1>4, <2>1 DEF Unfailed
<1> QED
  BY <1>2, <1>3, <1>5, <1>6, <1>7, QuietGauges DEF Fares

(* COMMIT is when a write shows, and when it is to be counted (postgres.py *)
(* 146-147).                                                               *)
LEMMA CommitGauges ==
  ASSUME IInv, GaugesAreDue, faults = 0, NEW c \in Client, Commit(c)
  PROVE  GaugesAreDue'
<1> PICK k, r : k = held[c] /\ r = req[c]
  OBVIOUS
<1>0. IInv'
  BY CommitIInv
<1>1. /\ TypeOK /\ Unfailed /\ pc[c] = "commit" /\ k \in Conn /\ conn[k] \in Session
      /\ SessionIsSound(c) /\ CallIsSound(c) /\ ConnIsSound(k) /\ r \in Request \cup ListRequest
      /\ \A t \in Tenant : AddsUp(t)
  BY AtHand DEF Holding, IInv, GaugesAreDue, Commit
<1>2. /\ CommitWrite(k) /\ conn' = [conn EXCEPT ![k] = Ended(k)]
      /\ answer' = [answer EXCEPT ![c] = IF @ = "open" THEN "ok" ELSE @]
      /\ pc' = [pc EXCEPT ![c] = "release"] /\ UNCHANGED <<gauge, req, held, got, found, faults>>
  BY DEF Commit, Goto
<1>3. conn[k].write = IF answer[c] = "open" THEN r ELSE NoCall
  <2>1. conn[k].alive
    BY <1>1 DEF Unfailed
  <2> QED
    BY <1>1, <2>1 DEF SessionIsSound
<1>4. /\ pc'[c] = "release" /\ req'[c] = r
      /\ answer'[c] = IF answer[c] = "open" THEN "ok" ELSE answer[c]
      /\ \A d \in Client \ {c} : Same(d)
  BY <1>1, <1>2 DEF TypeOK, Same
<1>5. \A j \in Conn : conn'[j].alive
  <2>1. Ended(k).alive = conn[k].alive
    BY <1>1, EndedIsNew
  <2> QED
    BY <1>1, <1>2, <2>1 DEF Unfailed, TypeOK
<1>6. \A t \in Tenant : Due(c, t) = 0
  BY <1>1 DEF Due
<1>7. CASE answer[c] # "open"
  <2>1. rows' = rows
    BY <1>2, <1>3, <1>7 DEF CommitWrite
  <2>2. \A t \in Tenant : Due(c, t)' = 0
    BY <1>1, <1>4, <1>7 DEF Due, Unfailed, Fares
  <2> QED
    BY <1>2, <1>4, <1>5, <1>6, <2>1, <2>2, QuietGauges DEF Fares
<1>8. CASE answer[c] = "open"
  <2>1. /\ r \in Request /\ r.op \in Writes /\ r.id \in Id /\ r.tenant \in Tenant /\ r # NoCall
    BY <1>1, <1>8, CallType DEF CallIsSound, Writes
  <2>2. rows' = [rows EXCEPT ![r.id] = Written(r)]
    BY <1>2, <1>3, <1>8, <2>1 DEF CommitWrite
  <2>3. rows'[r.id] = Written(r) /\ \A i \in Id \ {r.id} : rows'[i] = rows[i]
    BY <1>1, <2>1, <2>2 DEF TypeOK
  <2>4. /\ r.op = "create" => rows[r.id] = Absent
        /\ r.op = "decide" => rows[r.id].tenant = r.tenant /\ rows[r.id].status = "pending"
    BY <1>1, <1>3, <1>8, <2>1 DEF ConnIsSound, WriteIsSound
  <2>5. /\ Written(r).tenant = r.tenant
        /\ r.op = "create" => Written(r).status = "pending"
        /\ r.op = "decide" => Written(r).status # "pending"
    BY <2>1, RequestType, NullsAreNew DEF Written, Pending, Decided, Writes
  <2>6. Unfailed'
    BY <1>1, <1>4, <1>5 DEF Unfailed, Fares, Same
  <2>7. ASSUME NEW t \in Tenant PROVE AddsUp(t)'
    <3>1. CASE t = r.tenant
      <4> DEFINE n == IF r.op = "create" THEN 1 ELSE -1
      <4>1. Due(c, t)' = n /\ n \in {1, -1}
        BY <1>4, <1>8, <2>1, <3>1 DEF Due
      <4>2. \/ n = 1 /\ r.id \notin PendingOf(t) /\ PendingOf(t)' = PendingOf(t) \cup {r.id}
            \/ n = -1 /\ r.id \in PendingOf(t) /\ PendingOf(t)' = PendingOf(t) \ {r.id}
        <5>1. CASE r.op = "create"
          <6>1. r.id \notin PendingOf(t)
            BY <2>4, <5>1, NullsAreNew DEF PendingOf, Absent
          <6> QED
            BY <2>1, <2>3, <2>5, <3>1, <5>1, <6>1 DEF PendingOf
        <5>2. CASE r.op = "decide"
          BY <2>1, <2>3, <2>4, <2>5, <3>1, <5>2 DEF PendingOf
        <5> QED
          BY <2>1, <5>1, <5>2 DEF Writes
      <4> HIDE DEF n
      <4>3. \A d \in Client \ {c} : Due(d, t)' = Due(d, t)
        BY <1>4, OthersDue
      <4> QED
        BY <1>0, <1>1, <1>2, <1>6, <2>1, <4>1, <4>2, <4>3, CommitCounts
    <3>2. CASE t # r.tenant
      <4>1. PendingOf(t)' = PendingOf(t)
        <5>1. r.id \notin PendingOf(t) /\ r.id \notin PendingOf(t)'
          BY <2>1, <2>3, <2>4, <2>5, <3>2, NullsAreNew DEF PendingOf, Absent, Writes
        <5> QED
          BY <2>3, <5>1 DEF PendingOf
      <4>2. Due(c, t)' = 0
        BY <1>4, <3>2 DEF Due
      <4>3. Dues(t)' = Dues(t) /\ Counted(t)' = Counted(t)
        BY <1>2, <1>4, <1>6, <4>2, OthersDue DEF Dues, Counted
      <4> QED
        BY <1>1, <4>1, <4>3 DEF AddsUp
    <3> QED
      BY <3>1, <3>2
  <2> QED
    BY <2>6, <2>7 DEF GaugesAreDue
<1> QED
  BY <1>7, <1>8

(* The connection is given back before the write is counted (postgres.py   *)
(* 150, 172, 196).                                                         *)
LEMMA ReleaseGauges ==
  ASSUME IInv, GaugesAreDue, faults = 0, NEW c \in Client, Release(c) \/ Return(c)
  PROVE  GaugesAreDue'
<1>1. TypeOK /\ Unfailed /\ CallIsSound(c)
  BY DEF IInv, GaugesAreDue
<1>2. UNCHANGED <<rows, conn, gauge>>
  BY DEF Release, Return
<1>3. CASE Release(c)
  <2> PICK next : next = IF answer[c] = "ok" /\ req[c].op \in {"create", "decide"} THEN "count" ELSE "done"
    OBVIOUS
  <2>1. /\ pc[c] = "release" /\ pc' = [pc EXCEPT ![c] = next] /\ held' = [held EXCEPT ![c] = NoConn]
        /\ UNCHANGED <<req, answer, got, found>>
    BY <1>3 DEF Release, Goto
  <2>2. pc'[c] = next /\ \A d \in Client \ {c} : Same(d)
    BY <1>1, <2>1 DEF TypeOK, Same
  <2>3. \A t \in Tenant : Due(c, t)' = Due(c, t)
    BY <2>1, <2>2 DEF Due, Writes
  <2> QED
    BY <1>1, <1>2, <2>1, <2>2, <2>3, QuietGauges DEF Unfailed, Fares
<1>4. CASE Return(c)
  <2>1. /\ pc[c] = "done" /\ pc' = [pc EXCEPT ![c] = "idle"] /\ req' = [req EXCEPT ![c] = NoCall]
        /\ answer' = [answer EXCEPT ![c] = "open"] /\ got' = [got EXCEPT ![c] = Absent]
        /\ found' = [found EXCEPT ![c] = {}] /\ held' = held
    BY <1>4 DEF Return, Goto, Settle
  <2>2. pc'[c] = "idle" /\ \A d \in Client \ {c} : Same(d)
    BY <1>1, <2>1 DEF TypeOK, Same
  <2>3. \A t \in Tenant : Due(c, t)' = Due(c, t)
    BY <2>1, <2>2 DEF Due
  <2> QED
    BY <1>1, <1>2, <2>1, <2>2, <2>3, QuietGauges DEF Unfailed, Fares
<1> QED
  BY <1>3, <1>4

(* The gauge of the process counts it (postgres.py 172, 196).              *)
LEMMA CountGauges ==
  ASSUME IInv, GaugesAreDue, faults = 0, NEW c \in Client, CountPending(c)
  PROVE  GaugesAreDue'
<1> PICK p, r : p = ProcessOf[c] /\ r = req[c]
  OBVIOUS
<1>0. IInv'
  BY CountPendingIInv
<1>1. /\ TypeOK /\ Unfailed /\ CallIsSound(c) /\ p \in Process
      /\ \A t \in Tenant : AddsUp(t)
  BY ProcessesOwn DEF IInv, GaugesAreDue
<1> DEFINE n == IF r.op = "create" THEN 1 ELSE -1
<1>2. /\ pc[c] = "count" /\ pc' = [pc EXCEPT ![c] = "done"]
      /\ UNCHANGED <<rows, conn, req, held, answer, got, found, faults>>
  BY DEF CountPending, Goto
<1>3. gauge' = [gauge EXCEPT ![p][r.tenant] = IF r.op = "create" THEN @ + 1 ELSE @ - 1]
  BY DEF CountPending
<1>4. r \in Request \cup ListRequest /\ r.tenant \in Tenant /\ r.op \in Writes
  BY <1>1, <1>2, CallType DEF CallIsSound
<1>5. pc'[c] = "done" /\ \A d \in Client \ {c} : Same(d)
  BY <1>1, <1>2 DEF TypeOK, Same
<1>6. answer[c] = "ok"
  BY <1>1, <1>2 DEF Unfailed, Fares
<1>7. Unfailed'
  BY <1>1, <1>2, <1>5 DEF Unfailed, Fares, Same
<1>8. ASSUME NEW t \in Tenant PROVE AddsUp(t)'
  <2>1. Due(c, t) = (IF t = r.tenant THEN n ELSE 0) /\ Due(c, t)' = 0
    BY <1>2, <1>4, <1>5, <1>6 DEF Due
  <2>2. gauge[p][t] \in Int /\ gauge[p][r.tenant] \in Int
    BY <1>1, <1>4 DEF TypeOK
  <2>3. gauge'[p][t] = gauge[p][t] + Due(c, t)
    <3>1. CASE t = r.tenant
      <4>1. gauge'[p][t] = gauge[p][t] + n
        BY <1>1, <1>3, <1>4, <2>2, <3>1 DEF TypeOK
      <4> QED
        BY <2>1, <3>1, <4>1
    <3>2. CASE t # r.tenant
      <4>1. gauge'[p][t] = gauge[p][t]
        BY <1>1, <1>3, <1>4, <3>2 DEF TypeOK
      <4> QED
        BY <2>1, <2>2, <3>2, <4>1
    <3> QED
      BY <3>1, <3>2
  <2>4. \A q \in Process \ {p} : gauge'[q][t] = gauge[q][t]
    BY <1>1, <1>3 DEF TypeOK
  <2>5. \A d \in Client \ {c} : Due(d, t)' = Due(d, t)
    BY <1>5, OthersDue
  <2> QED
    BY <1>0, <1>1, <1>2, <2>1, <2>3, <2>4, <2>5, GaugeCounts
<1> QED
  BY <1>7, <1>8 DEF GaugesAreDue

(* Until something fails the gauges are behind by exactly what is          *)
(* committed and about to be counted.                                      *)
LEMMA NextGauges ==
  ASSUME IInv, GaugesAreDue, [Next]_vars
  PROVE  GaugesAreDue'
<1>0. TypeOK /\ faults \in Nat
  BY FaultsAreBounded DEF IInv, TypeOK
<1>1. CASE UNCHANGED vars
  <2>1. UNCHANGED <<rows, conn, gauge, pc, req, answer, faults>>
    BY <1>1 DEF vars
  <2>2. \A t \in Tenant : PendingOf(t)' = PendingOf(t) /\ Counted(t)' = Counted(t) /\ Dues(t)' = Dues(t)
    BY <2>1 DEF PendingOf, Counted, Dues, Due
  <2>3. Unfailed' <=> Unfailed
    BY <2>1 DEF Unfailed, Fares
  <2> QED
    BY <2>1, <2>2, <2>3 DEF GaugesAreDue, AddsUp
<1>2. CASE faults # 0
  <2>1. faults' = faults \/ faults' = faults + 1
    <3>1. ASSUME NEW c \in Client, Call(c) PROVE faults' = faults
      BY <3>1 DEF Call, create_pending, decide, get, list_pending, Begin
    <3>2. ASSUME NEW c \in Client, Work(c) PROVE faults' = faults
      BY <3>2 DEF Work, TakeConnection, SetTenant, Statement, Commit, Rollback, RaiseOnLost,
                  Release, CountPending, Return
    <3>3. ASSUME NEW c \in Client, Lock(c) \/ StatementFails(c)
          PROVE  faults' = faults \/ faults' = faults + 1
      BY <3>3 DEF Lock, StatementFails, Fault
    <3>4. ASSUME NEW k \in Conn, LoseConnection(k) \/ ServerEnds(k)
          PROVE  faults' = faults \/ faults' = faults + 1
      BY <3>4 DEF LoseConnection, ServerEnds, Fault
    <3> QED
      BY <3>1, <3>2, <3>3, <3>4 DEF Next, vars
  <2> QED
    BY <1>0, <1>2, <2>1 DEF GaugesAreDue
<1>3. ASSUME Fault PROVE GaugesAreDue'
  BY <1>0, <1>3 DEF Fault, GaugesAreDue
<1>4. ASSUME faults = 0, NEW c \in Client, RaiseOnLost(c) \/ Rollback(c) PROVE FALSE
  <2>1. pc[c] \in Holding /\ (~ conn[held[c]].alive \/ pc[c] = "rollback")
    BY <1>4 DEF RaiseOnLost, Rollback, Holding
  <2>2. held[c] \in Conn
    BY <2>1, AtHand
  <2> QED
    BY <1>4, <2>1, <2>2 DEF GaugesAreDue, Unfailed, Fares
<1>5. ASSUME faults = 0, NEW k \in Conn, ServerEnds(k) PROVE FALSE
  BY <1>5 DEF GaugesAreDue, Unfailed, ServerEnds
<1>6. ASSUME faults = 0, NEW c \in Client, Call(c) \/ Lock(c) \/ Work(c) \/ StatementFails(c)
      PROVE  GaugesAreDue'
  <2>1. CASE StatementFails(c)
    BY <1>3, <2>1 DEF StatementFails
  <2> QED
    BY <1>4, <1>6, <2>1, EarlyGauges, StatementGauges, CommitGauges, ReleaseGauges, CountGauges
       DEF Work
<1>7. ASSUME NEW k \in Conn, LoseConnection(k) PROVE GaugesAreDue'
  BY <1>3, <1>7 DEF LoseConnection
<1> QED
  BY <1>1, <1>2, <1>5, <1>6, <1>7 DEF Next

(* At the start no gauge has counted anything and nothing is pending.      *)
LEMMA InitGauges == Init => GaugesAreDue
<1> SUFFICES ASSUME Init PROVE Unfailed /\ \A t \in Tenant : AddsUp(t)
  BY DEF GaugesAreDue
<1>1. Unfailed
  BY DEF Init, Unfailed, Fares, NewSession
<1>2. ASSUME NEW t \in Tenant PROVE AddsUp(t)
  <2>1. (\A p \in Process : Counted(t)[p] = 0) /\ \A c \in Client : Dues(t)[c] = 0
    BY DEF Init, Counted, Dues, Due
  <2>2. SumFunctionOnSet(Counted(t), Process) = 0 /\ SumFunctionOnSet(Dues(t), Client) = 0
    BY <2>1, SumsOver, ThreadsAreFinite
  <2>3. PendingOf(t) = {}
    BY DEF Init, PendingOf, Absent
  <2> QED
    BY <2>2, <2>3, FS_EmptySet DEF AddsUp
<1> QED
  BY <1>1, <1>2

(* For any processes and threads and as long as nothing fails, the gauges  *)
(* of the processes add up to the pending rows whenever no call is in      *)
(* progress, whichever process creates and whichever decides (postgres.py  *)
(* 172, 196).                                                              *)
THEOREM GaugesAgree == Spec => []GaugesAddUp
<1>1. IInv /\ GaugesAreDue => GaugesAddUp
  <2> SUFFICES ASSUME IInv, GaugesAreDue, faults = 0, \A c \in Client : pc[c] = "idle",
                      NEW t \in Tenant
               PROVE  SumFunction([p \in Process |-> gauge[p][t]]) = Cardinality(PendingOf(t))
    BY DEF GaugesAddUp
  <2>1. \A c \in Client : Dues(t)[c] = 0
    BY DEF Dues, Due
  <2>2. SumFunctionOnSet(Dues(t), Client) = 0
    BY <2>1, SumsOver, ThreadsAreFinite
  <2>3. SumFunction(Counted(t)) = SumFunctionOnSet(Counted(t), Process)
    BY DEF SumFunction, Counted
  <2>4. SumFunctionOnSet(Counted(t), Process) \in Int
    BY CountsType DEF IInv
  <2>5. SumFunctionOnSet(Counted(t), Process) + SumFunctionOnSet(Dues(t), Client)
          = Cardinality(PendingOf(t))
    BY DEF GaugesAreDue, AddsUp
  <2>6. SumFunction(Counted(t)) = Cardinality(PendingOf(t))
    BY <2>2, <2>3, <2>4, <2>5
  <2> QED
    BY <2>6 DEF Counted
<1>2. IInv /\ GaugesAreDue /\ [Next]_vars => GaugesAreDue'
  BY NextGauges
<1>3. Init => GaugesAreDue
  BY InitGauges
<1> QED
  BY <1>1, <1>2, <1>3, Invariance, PTL DEF Spec

-----------------------------------------------------------------------------
(* The call of ApprovalStore that a thread's stands for: its row is shown  *)
(* once it is answered, and list_pending stands for none.                  *)
At(r, a, row) == [op |-> "call", request |-> r, answer |-> a, row |-> row]

Shown(p, r, a, row) ==
  IF p = "idle" \/ r.op = "list" THEN NoCall ELSE At(r, a, IF a = "ok" THEN row ELSE Absent)

(* AbstractCalls by thread, before and after a step.                       *)
LEMMA CallsAreShown ==
  /\ AbstractCalls = [c \in Client |-> Shown(pc[c], req[c], answer[c], got[c])]
  /\ AbstractCalls' = [c \in Client |-> Shown(pc'[c], req'[c], answer'[c], got'[c])]
BY DEF AbstractCalls, Shown, At

(* A step of a thread is one of its call.                                  *)
LEMMA CallsChange ==
  ASSUME NEW c \in Client, \A d \in Client \ {c} : Same(d)
  PROVE  /\ AbstractCalls[c] = Shown(pc[c], req[c], answer[c], got[c])
         /\ AbstractCalls' = SetAt(AbstractCalls, c, Shown(pc'[c], req'[c], answer'[c], got'[c]))
BY CallsAreShown DEF SetAt, Same

(* A call that shows the same as before is no step of the contract.        *)
LEMMA CallsStay ==
  ASSUME NEW c \in Client, AbstractCalls' = SetAt(AbstractCalls, c, AbstractCalls[c])
  PROVE  AbstractCalls' = AbstractCalls
<1>1. AbstractCalls = [d \in Client |-> AbstractCalls[d]]
  BY DEF AbstractCalls
<1> QED
  BY <1>1 DEF SetAt

SetAnswer(f, c, v, w) == [f EXCEPT ![c].answer = v, ![c].row = w]

(* Answers of ApprovalStore replaces the call.                             *)
LEMMA Answering ==
  ASSUME NEW c \in Client, NEW r, NEW a, NEW row, AbstractCalls[c] = At(r, a, row), NEW v, NEW w,
         AbstractCalls' = SetAt(AbstractCalls, c, At(r, v, w))
  PROVE  AbstractCalls' = SetAnswer(AbstractCalls, c, v, w)
<1> USE DEF SetAnswer, SetAt
<1> DEFINE old == AbstractCalls[c]
           half == [AbstractCalls EXCEPT ![c].answer = v]
<1>1. AbstractCalls = [d \in Client |-> AbstractCalls[d]]
  BY DEF AbstractCalls
<1>2. [old EXCEPT !.answer = v] = At(r, v, row)
  <2>1. old = At(r, a, row)
    OBVIOUS
  <2> HIDE DEF old
  <2> QED
    BY <2>1 DEF At
<1>3. half = [AbstractCalls EXCEPT ![c] = At(r, v, row)]
  BY <1>2
<1> HIDE DEF half, old
<1>4. half[c] = At(r, v, row) /\ half = [d \in Client |-> half[d]]
      /\ \A d \in Client \ {c} : half[d] = AbstractCalls[d]
  BY <1>1, <1>3
<1> DEFINE mid == half[c]
<1>5. [mid EXCEPT !.row = w] = At(r, v, w)
  <2>1. mid = At(r, v, row)
    BY <1>4
  <2> HIDE DEF mid
  <2> QED
    BY <2>1 DEF At
<1>6. [half EXCEPT ![c].row = w] = [half EXCEPT ![c] = At(r, v, w)]
  BY <1>5
<1>7. [half EXCEPT ![c] = At(r, v, w)] = [AbstractCalls EXCEPT ![c] = At(r, v, w)]
  BY <1>1, <1>4
<1> QED
  BY <1>6, <1>7 DEF half

(* What ApprovalStore sees of such a call.                                 *)
LEMMA IsOpen ==
  ASSUME NEW c \in Client, NEW r, NEW a, NEW row, AbstractCalls[c] = At(r, a, row)
  PROVE  /\ AbstractCalls[c].request = r /\ AbstractCalls[c].answer = a
         /\ AbstractCalls[c] # Contract!NoCall
         /\ Contract!Open(c) <=> a = "open"
<1>1. AbstractCalls[c].request = r /\ AbstractCalls[c].answer = a /\ AbstractCalls[c] # Contract!NoCall
  BY DEF At, Contract!NoCall
<1> QED
  BY <1>1 DEF Contract!Open

-----------------------------------------------------------------------------
(* A write that the table can take, as WriteIsSound says of a session's.   *)
Fits(r) ==
  \/ r.op = "create" /\ rows[r.id] = Absent
  \/ r.op = "decide" /\ rows[r.id].tenant = r.tenant /\ rows[r.id].status = "pending"

(* A method is called (state/store.py 30-60).                              *)
LEMMA Invokes ==
  ASSUME NEW c \in Client, NEW r \in Request, AbstractCalls[c] = NoCall, r.client = c,
         AbstractCalls' = SetAt(AbstractCalls, c, At(r, "open", Absent)),
         rows' = rows, Limbo' = Limbo
  PROVE  Contract!Next
<1>1. Contract!Invoke(c, r)
  BY DEF Contract!Invoke, At, SetAt, Contract!NoCall, NoCall, Contract!Absent, Absent
<1> QED
  BY <1>1 DEF Contract!Next, Contract!Request, Request

(* COMMIT of an INSERT or UPDATE is Succeed (postgres.py 147).             *)
LEMMA Succeeds ==
  ASSUME NEW c \in Client, NEW r \in Request, AbstractCalls[c] = At(r, "open", Absent), Fits(r),
         AbstractCalls' = SetAt(AbstractCalls, c, At(r, "ok", Written(r))),
         rows' = SetAt(rows, r.id, Written(r)), Limbo' = Limbo
  PROVE  Contract!Next
<1>1. Contract!Written(r) = Written(r)
  BY DEF Contract!Written, Contract!Pending, Contract!Decided, Written, Pending, Decided
<1>2. AbstractCalls[c].request = r /\ Contract!Open(c)
  BY IsOpen
<1>3. Contract!CanApply(r) /\ Contract!Apply(r)
  BY <1>1 DEF Contract!CanApply, Contract!Apply, Contract!Decidable, Contract!Visible,
              Contract!Absent, Absent, Fits, SetAt
<1>4. Contract!Answers(c, "ok", Contract!Written(r))
  <2>1. AbstractCalls' = SetAnswer(AbstractCalls, c, "ok", Contract!Written(r))
    BY <1>1, Answering
  <2> QED
    BY <2>1 DEF Contract!Answers, SetAnswer
<1>5. Contract!Succeed(c)
  BY <1>2, <1>3, <1>4
     DEF Contract!Succeed, Contract!CanApply, Contract!Apply, Contract!Answers
<1> QED
  BY <1>5 DEF Contract!Next

(* An UPDATE of no row is Refuse (postgres.py 186-194).                    *)
LEMMA Refuses ==
  ASSUME NEW c \in Client, NEW r \in Request, AbstractCalls[c] = At(r, "open", Absent),
         r.op = "decide", ~ Fits(r),
         AbstractCalls' = SetAt(AbstractCalls, c, At(r, "refused", Absent)),
         rows' = rows, Limbo' = Limbo
  PROVE  Contract!Next
<1>1. AbstractCalls[c].request = r /\ Contract!Open(c)
  BY IsOpen
<1>2. ~ Contract!Decidable(r.id, r.tenant)
  BY DEF Contract!Decidable, Contract!Visible, Fits
<1>3. Contract!Answers(c, "refused", Contract!Absent)
  <2>1. AbstractCalls' = SetAnswer(AbstractCalls, c, "refused", Contract!Absent)
    BY Answering DEF Contract!Absent, Absent
  <2> QED
    BY <2>1 DEF Contract!Answers, SetAnswer
<1>4. Contract!Refuse(c)
  BY <1>1, <1>2, <1>3 DEF Contract!Refuse
<1> QED
  BY <1>4 DEF Contract!Next

(* A SELECT under the policy is Read (postgres.py 198-208).                *)
LEMMA Reads ==
  ASSUME NEW c \in Client, NEW r \in Request, AbstractCalls[c] = At(r, "open", Absent), r.op = "get",
         \/ /\ rows[r.id].tenant = r.tenant
            /\ AbstractCalls' = SetAt(AbstractCalls, c, At(r, "ok", rows[r.id]))
         \/ /\ rows[r.id].tenant # r.tenant
            /\ AbstractCalls' = SetAt(AbstractCalls, c, At(r, "none", Absent)),
         rows' = rows, Limbo' = Limbo
  PROVE  Contract!Next
<1>1. AbstractCalls[c].request = r /\ Contract!Open(c)
  BY IsOpen
<1>2. Contract!Visible(r.id, r.tenant) <=> rows[r.id].tenant = r.tenant
  BY DEF Contract!Visible
<1>3. CASE /\ rows[r.id].tenant = r.tenant
           /\ AbstractCalls' = SetAt(AbstractCalls, c, At(r, "ok", rows[r.id]))
  <2>1. AbstractCalls' = SetAnswer(AbstractCalls, c, "ok", rows[r.id])
    BY <1>3, Answering
  <2>2. Contract!Answers(c, "ok", rows[r.id])
    BY <2>1 DEF Contract!Answers, SetAnswer
  <2>3. Contract!Read(c)
    BY <1>1, <1>2, <1>3, <2>2 DEF Contract!Read, Contract!Answers
  <2> QED
    BY <2>3 DEF Contract!Next
<1>4. CASE /\ rows[r.id].tenant # r.tenant
           /\ AbstractCalls' = SetAt(AbstractCalls, c, At(r, "none", Absent))
  <2>1. AbstractCalls' = SetAnswer(AbstractCalls, c, "none", Contract!Absent)
    BY <1>4, Answering DEF Contract!Absent, Absent
  <2>2. Contract!Answers(c, "none", Contract!Absent)
    BY <2>1 DEF Contract!Answers, SetAnswer
  <2>3. Contract!Read(c)
    BY <1>1, <1>2, <1>4, <2>2 DEF Contract!Read, Contract!Answers
  <2> QED
    BY <2>3 DEF Contract!Next
<1> QED
  BY <1>3, <1>4

(* A lost connection or a rejected statement is Raise, and a COMMIT whose  *)
(* reply was lost leaves its request in limbo (postgres.py 142-150).       *)
LEMMA Raises ==
  ASSUME NEW c \in Client, NEW r \in Request, NEW a, NEW row, AbstractCalls[c] = At(r, a, row),
         \/ AbstractCalls' = AbstractCalls
         \/ AbstractCalls' = SetAt(AbstractCalls, c, At(r, "error", Absent)),
         rows' = rows,
         Limbo' = Limbo \/ (r.op # "get" /\ Limbo' = Limbo \cup {r})
  PROVE  Contract!Next
<1>1. AbstractCalls[c].request = r /\ AbstractCalls[c] # Contract!NoCall
  BY IsOpen
<1>2. AbstractCalls' = AbstractCalls \/ AbstractCalls' = SetAnswer(AbstractCalls, c, "error", Contract!Absent)
  BY Answering DEF Contract!Absent, Absent
<1>3. Contract!Raise(c)
  BY <1>1, <1>2 DEF Contract!Raise, SetAnswer
<1> QED
  BY <1>3 DEF Contract!Next

(* An answered call returns.                                               *)
LEMMA Returns ==
  ASSUME NEW c \in Client, NEW r \in Request, NEW a, NEW row, AbstractCalls[c] = At(r, a, row),
         a # "open", AbstractCalls' = SetAt(AbstractCalls, c, NoCall),
         rows' = rows, Limbo' = Limbo
  PROVE  Contract!Next
<1>1. AbstractCalls[c] # Contract!NoCall /\ ~ Contract!Open(c)
  BY IsOpen
<1>2. Contract!Return(c)
  BY <1>1 DEF Contract!Return, Contract!NoCall, NoCall, SetAt
<1> QED
  BY <1>2 DEF Contract!Next

(* A lost COMMIT takes effect late, or never (external).                   *)
LEMMA TakesEffectLate ==
  ASSUME NEW r \in Request, r \in Limbo, Limbo' = Limbo \ {r}, AbstractCalls' = AbstractCalls,
         rows' = rows \/ (Fits(r) /\ rows' = SetAt(rows, r.id, Written(r)))
  PROVE  Contract!Next
<1>1. Contract!Written(r) = Written(r)
  BY DEF Contract!Written, Contract!Pending, Contract!Decided, Written, Pending, Decided
<1>2. rows' = rows \/ (Contract!CanApply(r) /\ Contract!Apply(r))
  BY <1>1 DEF Contract!CanApply, Contract!Apply, Contract!Decidable, Contract!Visible,
              Contract!Absent, Absent, Fits, SetAt
<1>3. Contract!Late(r)
  BY <1>2 DEF Contract!Late
<1> QED
  BY <1>3 DEF Contract!Next

(* The lock, the pool, the gauge and open transactions are nothing to the  *)
(* contract.                                                               *)
LEMMA Stutters ==
  ASSUME AbstractCalls' = AbstractCalls, rows' = rows, Limbo' = Limbo
  PROVE  UNCHANGED Contract!vars
BY DEF Contract!vars

-----------------------------------------------------------------------------
(* Who is in limbo: the writes of the sessions that are committing.        *)
LEMMA LimboIs ==
  /\ \A w : w \in Limbo <=> w # NoCall /\ \E k \in Conn : conn[k].tx = "committing" /\ conn[k].write = w
  /\ \A w : w \in Limbo' <=> w # NoCall /\ \E k \in Conn : conn'[k].tx = "committing" /\ conn'[k].write = w
BY DEF Limbo

(* A transaction whose COMMIT was not lost is not in limbo.                *)
LEMMA LimboKept ==
  ASSUME TypeOK, NEW k \in Conn, NEW s, conn' = SetAt(conn, k, s),
         conn[k].tx # "committing", s.tx # "committing"
  PROVE  Limbo' = Limbo
<1>1. conn'[k] = s /\ \A j \in Conn \ {k} : conn'[j] = conn[j]
  BY DEF SetAt, TypeOK
<1>2. ASSUME NEW w PROVE w \in Limbo' <=> w \in Limbo
  BY <1>1, LimboIs
<1> QED
  BY <1>2

(* A lost COMMIT puts its write in limbo (postgres.py 147).                *)
LEMMA LimboGrows ==
  ASSUME TypeOK, NEW k \in Conn, NEW s, conn' = SetAt(conn, k, s),
         conn[k].tx # "committing", s.tx = "committing"
  PROVE  Limbo' = Limbo \cup ({s.write} \ {NoCall})
<1>1. conn'[k] = s /\ \A j \in Conn \ {k} : conn'[j] = conn[j]
  BY DEF SetAt, TypeOK
<1>2. ASSUME NEW w PROVE w \in Limbo' <=> w \in Limbo \/ (w = s.write /\ w # NoCall)
  BY <1>1, LimboIs
<1> QED
  BY <1>2

(* The server ends it, and nobody else had the same write (external).      *)
LEMMA LimboShrinks ==
  ASSUME IInv, NEW k \in Conn, NEW s, conn' = SetAt(conn, k, s),
         conn[k].tx = "committing", s.tx # "committing"
  PROVE  Limbo' = Limbo \ {conn[k].write}
<1>1. TypeOK /\ WriteIsSound(k)
  BY DEF IInv, ConnIsSound
<1>2. conn'[k] = s /\ \A j \in Conn \ {k} : conn'[j] = conn[j]
  BY <1>1 DEF SetAt, TypeOK
<1>3. \A j \in Conn \ {k} : conn[k].write # NoCall => conn[j].write # conn[k].write
  BY <1>1 DEF WriteIsSound
<1>4. ASSUME NEW w PROVE w \in Limbo' <=> w \in Limbo /\ w # conn[k].write
  BY <1>2, <1>3, LimboIs
<1> QED
  BY <1>4

-----------------------------------------------------------------------------
(* A step that neither answers nor writes: the lock, the pool, set_config, *)
(* ROLLBACK and the gauge (postgres.py 83-89, 142-150, 172).               *)
LEMMA WaitsImplements ==
  ASSUME NEW c \in Client, UNCHANGED <<rows, req, answer, got>>, Limbo' = Limbo,
         \A d \in Client \ {c} : Same(d), pc[c] # "idle", pc'[c] # "idle"
  PROVE  UNCHANGED Contract!vars
<1>1. AbstractCalls' = SetAt(AbstractCalls, c, AbstractCalls[c])
  BY CallsChange DEF Shown
<1> QED
  BY <1>1, CallsStay, Stutters

(* What such a step leaves others.                                         *)
LEMMA OneGoes ==
  ASSUME TypeOK, NEW c \in Client, NEW next, Goto(c, next),
         req' = req, answer' = answer, got' = got, found' = found,
         \A d \in Client \ {c} : held'[d] = held[d]
  PROVE  pc'[c] = next /\ \A d \in Client \ {c} : Same(d)
BY DEF TypeOK, Goto, Same

(* The way in and out of _tenant_scoped_cursor shows nothing               *)
(* (postgres.py 142-150).                                                  *)
LEMMA ScopeImplements ==
  ASSUME IInv, NEW c \in Client,
         Lock(c) \/ TakeConnection(c) \/ SetTenant(c) \/ Rollback(c) \/ Release(c) \/ CountPending(c)
  PROVE  UNCHANGED Contract!vars
<1>1. TypeOK /\ \A k \in Conn : ConnIsSound(k)
  BY DEF IInv
<1>2. CASE Lock(c) \/ TakeConnection(c) \/ Release(c) \/ CountPending(c)
  <2>1. /\ pc[c] # "idle" /\ UNCHANGED <<rows, conn, req, answer, got, found>>
        /\ \A d \in Client \ {c} : held'[d] = held[d]
    BY <1>1, <1>2 DEF Lock, TakeConnection, Release, CountPending, TypeOK
  <2>2. \E next : next # "idle" /\ Goto(c, next)
    BY <1>2 DEF Lock, TakeConnection, Release, CountPending
  <2>3. Limbo' = Limbo
    BY <2>1 DEF Limbo
  <2>4. pc'[c] # "idle" /\ \A d \in Client \ {c} : Same(d)
    BY <1>1, <2>1, <2>2, OneGoes
  <2> QED
    BY <2>1, <2>3, <2>4, WaitsImplements
<1>3. CASE SetTenant(c) \/ Rollback(c)
  <2> PICK k : k = held[c]
    OBVIOUS
  <2>1. /\ pc[c] # "idle" /\ pc[c] \in Holding /\ Alive(k)
        /\ UNCHANGED <<rows, req, answer, got, found, held>>
    BY <1>3 DEF SetTenant, Rollback, Holding, Alive
  <2>2. \E next : next # "idle" /\ Goto(c, next)
    BY <1>3 DEF SetTenant, Rollback
  <2>3. k \in Conn /\ conn[k] \in Session /\ conn = [j \in Conn |-> conn[j]]
    BY <2>1, AtHand
  <2>4. conn[k].tx # "committing"
    BY <1>1, <2>1, <2>3 DEF ConnIsSound, Alive
  <2>5. \E s : conn' = SetAt(conn, k, s) /\ s.tx # "committing"
    <3>1. CASE SetTenant(c)
      <4>1. PICK a, b, t, w : conn[k] = Sess(a, b, t, w)
        BY <2>3, SessionType
      <4> PICK new : new = req[c].tenant
        OBVIOUS
      <4> DEFINE s == Sess(a, "open", new, w)
      <4>2. conn' = BeginTx(conn, k, new)
        BY <3>1 DEF SetTenant, BeginTx
      <4>3. conn' = SetAt(conn, k, s)
        BY <2>3, <4>1, <4>2, BeginTxFields
      <4>4. s.tx = "open"
        BY Fields
      <4> HIDE DEF s
      <4> QED
        BY <4>3, <4>4
    <3>2. CASE Rollback(c)
      <4>1. conn' = SetAt(conn, k, Ended(k))
        BY <3>2 DEF Rollback, SetAt
      <4>2. Ended(k).tx = "idle"
        BY <2>3, EndedIsNew
      <4> QED
        BY <4>1, <4>2
    <3> QED
      BY <1>3, <3>1, <3>2
  <2>6. Limbo' = Limbo
    BY <1>1, <2>3, <2>4, <2>5, LimboKept
  <2>7. pc'[c] # "idle" /\ \A d \in Client \ {c} : Same(d)
    BY <1>1, <2>1, <2>2, OneGoes
  <2> QED
    BY <2>1, <2>6, <2>7, WaitsImplements
<1> QED
  BY <1>2, <1>3

(* create_pending, decide and get begin a call of the contract;            *)
(* list_pending does not (postgres.py 152-218).                            *)
LEMMA CallImplements ==
  ASSUME IInv, NEW c \in Client, Call(c)
  PROVE  Contract!Next \/ UNCHANGED Contract!vars
<1>0. TypeOK /\ CallIsSound(c)
  BY DEF IInv
<1>1. ASSUME NEW i, NEW t, NEW op, NEW v,
             [op |-> op, id |-> i, tenant |-> t, verdict |-> v, client |-> c] \in Request \cup ListRequest,
             Begin(c, op, i, t, v)
      PROVE  Contract!Next \/ UNCHANGED Contract!vars
  <2> DEFINE r == [op |-> op, id |-> i, tenant |-> t, verdict |-> v, client |-> c]
  <2>1. r \in Request \cup ListRequest /\ r.client = c
    BY <1>1
  <2>2. /\ pc[c] = "idle" /\ req' = [req EXCEPT ![c] = r] /\ pc' = [pc EXCEPT ![c] = "lock"]
        /\ UNCHANGED <<rows, conn, held, answer, got, found>>
    BY <1>1 DEF Begin, Goto
  <2> HIDE DEF r
  <2>3. /\ pc'[c] = "lock" /\ req'[c] = r /\ answer'[c] = "open"
        /\ \A d \in Client \ {c} : Same(d)
    BY <1>0, <2>2 DEF TypeOK, CallIsSound, Same
  <2>4. AbstractCalls[c] = NoCall /\ AbstractCalls' = SetAt(AbstractCalls, c, Shown("lock", r, "open", got'[c]))
    BY <2>2, <2>3, CallsChange DEF Shown
  <2>5. Limbo' = Limbo /\ rows' = rows
    BY <2>2 DEF Limbo
  <2>6. CASE r.op = "list"
    <3>1. AbstractCalls' = SetAt(AbstractCalls, c, AbstractCalls[c])
      BY <2>4, <2>6 DEF Shown
    <3> QED
      BY <2>5, <3>1, CallsStay, Stutters
  <2>7. CASE r.op # "list"
    <3>1. r \in Request
      BY <2>1, <2>7, CallType
    <3>2. AbstractCalls' = SetAt(AbstractCalls, c, At(r, "open", Absent))
      BY <2>4, <2>7 DEF Shown
    <3> QED
      BY <2>1, <2>4, <2>5, <3>1, <3>2, Invokes
  <2> QED
    BY <2>6, <2>7
<1> PICK t \in Tenant :
      \/ \E i \in Id :
           create_pending(c, i, t) \/ get(c, i, t) \/ \E v \in Verdict : decide(c, i, t, v)
      \/ list_pending(c, t)
  BY DEF Call
<1>2. ASSUME NEW i \in Id, NEW op \in {"create", "get"}, Begin(c, op, i, t, "none")
      PROVE  Contract!Next \/ UNCHANGED Contract!vars
  <2>1. [op |-> op, id |-> i, tenant |-> t, verdict |-> "none", client |-> c]
          \in Request \cup ListRequest
    BY DEF Request
  <2> QED
    BY <1>1, <1>2, <2>1
<1>3. ASSUME NEW i \in Id, NEW v \in Verdict, decide(c, i, t, v)
      PROVE  Contract!Next \/ UNCHANGED Contract!vars
  <2>1. [op |-> "decide", id |-> i, tenant |-> t, verdict |-> v, client |-> c]
          \in Request \cup ListRequest
    BY DEF Request
  <2> QED
    BY <1>1, <1>3, <2>1 DEF decide
<1>4. ASSUME list_pending(c, t)
      PROVE  Contract!Next \/ UNCHANGED Contract!vars
  <2>1. [op |-> "list", id |-> NoId, tenant |-> t, verdict |-> "none", client |-> c]
          \in Request \cup ListRequest
    BY DEF ListRequest
  <2> QED
    BY <1>1, <1>4, <2>1 DEF list_pending
<1> QED
  BY <1>2, <1>3, <1>4 DEF create_pending, get

(* What an answering step shows.                                           *)
LEMMA StepShows ==
  ASSUME IInv, NEW c \in Client, pc[c] # "idle", NEW next, Goto(c, next), next # "idle",
         NEW a, NEW row, Settle(c, a, row), req' = req,
         \A d \in Client \ {c} : held'[d] = held[d] /\ found'[d] = found[d]
  PROVE  /\ req[c] \in Request \cup ListRequest
         /\ AbstractCalls[c] = Shown("lock", req[c], answer[c], got[c])
         /\ AbstractCalls' = SetAt(AbstractCalls, c, Shown("lock", req[c], a, row))
<1>1. TypeOK /\ CallIsSound(c)
  BY DEF IInv
<1>2. /\ pc'[c] = next /\ answer'[c] = a /\ got'[c] = row
      /\ \A d \in Client \ {c} : Same(d)
  BY <1>1 DEF TypeOK, Goto, Settle, Same
<1>3. /\ AbstractCalls[c] = Shown(pc[c], req[c], answer[c], got[c])
      /\ AbstractCalls' = SetAt(AbstractCalls, c, Shown(next, req[c], a, row))
  BY <1>2, CallsChange
<1>4. req[c] \in Request \cup ListRequest
  BY <1>1 DEF CallIsSound
<1> QED
  BY <1>3, <1>4 DEF Shown

(* A SELECT or a refused UPDATE is where its call takes effect; an INSERT, *)
(* an UPDATE that found its row and a list show nothing yet                *)
(* (postgres.py 152-218).                                                  *)
LEMMA StatementImplements ==
  ASSUME IInv, NEW c \in Client, Statement(c)
  PROVE  Contract!Next \/ UNCHANGED Contract!vars
<1> DEFINE Goal == Contract!Next \/ UNCHANGED Contract!vars
<1> SUFFICES Goal
  OBVIOUS
<1> PICK k : k = held[c]
  OBVIOUS
<1> PICK r : r = req[c]
  OBVIOUS
<1>1. /\ pc[c] = "statement" /\ Alive(k) /\ Goto(c, "commit")
      /\ UNCHANGED <<rows, req, held>>
  BY DEF Statement, Alive
<1>2. /\ TypeOK /\ k \in Conn /\ conn[k] \in Session /\ ConnIsSound(k)
      /\ r \in Request \cup ListRequest /\ conn = [j \in Conn |-> conn[j]]
  BY <1>1, AtHand DEF Holding
<1>3. answer[c] = "open" /\ conn[k].tenant = r.tenant
  <2> PICK s : s = conn[k]
    OBVIOUS
  <2>1. s = Sess(s.alive, "open", r.tenant, NoCall) /\ answer[c] = "open"
    BY <1>1, InTransaction
  <2> QED
    BY <2>1 DEF Sess
<1>4. conn' = conn => Limbo' = Limbo
  BY DEF Limbo
<1>5. AbstractCalls[c] = Shown("lock", r, "open", got[c])
  BY <1>1, <1>3, CallsAreShown DEF Shown
<1>6. ASSUME NEW a, NEW row, Settle(c, a, row), \A d \in Client \ {c} : found'[d] = found[d]
      PROVE  AbstractCalls' = SetAt(AbstractCalls, c, Shown("lock", r, a, row))
  BY <1>1, <1>6, StepShows
<1>7. CASE /\ conn' = PutWrite(conn, k, r) /\ found' = found
           /\ \E row : Settle(c, "open", row)
  <2>1. PICK row : Settle(c, "open", row)
    BY <1>7
  <2>2. AbstractCalls' = SetAt(AbstractCalls, c, AbstractCalls[c])
    BY <1>5, <1>6, <1>7, <2>1 DEF Shown
  <2>3. PICK a, b, t, w : conn[k] = Sess(a, b, t, w)
    BY <1>2, SessionType
  <2> DEFINE s == Sess(a, b, t, r)
  <2>4. conn' = SetAt(conn, k, s)
    BY <1>2, <1>7, <2>3, PutWriteFields
  <2>5. s.tx = b /\ b = conn[k].tx
    BY <2>3, Fields
  <2> HIDE DEF s
  <2>6. b # "committing"
    BY <1>1, <1>2, <2>5 DEF ConnIsSound, Alive
  <2>7. Limbo' = Limbo
    BY <1>2, <2>4, <2>5, <2>6, LimboKept
  <2> QED
    BY <1>1, <2>2, <2>7, CallsStay, Stutters
<1>8. CASE /\ r.op = "decide" /\ ~ Matches(k, r.id) /\ Settle(c, "refused", Absent)
           /\ UNCHANGED <<conn, found>>
  <2>1. r \in Request
    BY <1>2, <1>8, CallType
  <2>2. ~ Fits(r)
    BY <1>3, <1>8 DEF Fits, Matches, VisibleTo
  <2>3. /\ AbstractCalls[c] = At(r, "open", Absent)
        /\ AbstractCalls' = SetAt(AbstractCalls, c, At(r, "refused", Absent))
    BY <1>5, <1>6, <1>8 DEF Shown
  <2> QED
    BY <1>1, <1>4, <1>8, <2>1, <2>2, <2>3, Refuses
<1>9. CASE Select(c)
  <2>1. r.op = "get" /\ UNCHANGED <<conn, found>> /\ r \in Request
    BY <1>2, <1>9, CallType DEF Select
  <2>2. AbstractCalls[c] = At(r, "open", Absent)
    BY <1>5, <2>1 DEF Shown
  <2>3. CASE rows[r.id].tenant = r.tenant /\ Settle(c, "ok", rows[r.id])
    <3>1. AbstractCalls' = SetAt(AbstractCalls, c, At(r, "ok", rows[r.id]))
      BY <1>6, <2>1, <2>3 DEF Shown
    <3> QED
      BY <1>1, <1>4, <2>1, <2>2, <2>3, <3>1, Reads
  <2>4. CASE rows[r.id].tenant # r.tenant /\ Settle(c, "none", Absent)
    <3>1. AbstractCalls' = SetAt(AbstractCalls, c, At(r, "none", Absent))
      BY <1>6, <2>1, <2>4 DEF Shown
    <3> QED
      BY <1>1, <1>4, <2>1, <2>2, <2>4, <3>1, Reads
  <2> QED
    BY <1>3, <1>9, <2>3, <2>4 DEF Select, VisibleTo
<1>10. CASE SelectPending(c)
  <2>1. /\ r.op = "list" /\ conn' = conn /\ Settle(c, "ok", Absent)
        /\ \A d \in Client \ {c} : found'[d] = found[d]
    BY <1>2, <1>10 DEF SelectPending, TypeOK
  <2>2. AbstractCalls' = SetAt(AbstractCalls, c, AbstractCalls[c])
    BY <1>5, <1>6, <2>1 DEF Shown
  <2> QED
    BY <1>1, <1>4, <2>1, <2>2, CallsStay, Stutters
<1>11. Insert(c) \/ Update(c) \/ Select(c) \/ SelectPending(c)
  BY DEF Statement
<1>12. CASE Insert(c)
  BY <1>7, <1>12 DEF Insert, PutWrite
<1>13. CASE Update(c)
  BY <1>7, <1>8, <1>13 DEF Update, PutWrite
<1> QED
  BY <1>9, <1>10, <1>11, <1>12, <1>13

(* COMMIT is where a create or a decision takes effect; of a read or a     *)
(* refusal it shows nothing (postgres.py 147).                             *)
LEMMA CommitImplements ==
  ASSUME IInv, NEW c \in Client, Commit(c)
  PROVE  Contract!Next \/ UNCHANGED Contract!vars
<1> PICK k : k = held[c]
  OBVIOUS
<1> PICK r : r = req[c]
  OBVIOUS
<1> PICK a : a = IF answer[c] = "open" THEN "ok" ELSE answer[c]
  OBVIOUS
<1>1. /\ pc[c] = "commit" /\ conn[k].alive /\ CommitWrite(k) /\ conn' = SetAt(conn, k, Ended(k))
      /\ answer' = [answer EXCEPT ![c] = a] /\ Goto(c, "release")
      /\ UNCHANGED <<req, held, got, found>>
  BY DEF Commit, SetAt
<1>2. /\ TypeOK /\ k \in Conn /\ conn[k] \in Session /\ CallIsSound(c) /\ SessionIsSound(c)
      /\ ConnIsSound(k) /\ r \in Request \cup ListRequest
  BY <1>1, AtHand DEF Holding
<1>3. conn[k].write = IF answer[c] = "open" THEN r ELSE NoCall
  BY <1>1, <1>2 DEF SessionIsSound
<1>4. Limbo' = Limbo
  <2>1. conn[k].tx # "committing" /\ Ended(k).tx # "committing"
    BY <1>1, <1>2, EndedIsNew DEF ConnIsSound
  <2> QED
    BY <1>1, <1>2, <2>1, LimboKept
<1>5. Settle(c, a, got[c])
  BY <1>1, <1>2 DEF Settle, TypeOK
<1>6. /\ AbstractCalls[c] = Shown("lock", r, answer[c], got[c])
      /\ AbstractCalls' = SetAt(AbstractCalls, c, Shown("lock", r, a, got[c]))
  BY <1>1, <1>5, StepShows
<1>7. CASE answer[c] = "open"
  <2>1. r.op \in Writes /\ got[c] = Written(r)
    BY <1>1, <1>2, <1>7 DEF CallIsSound
  <2>2. r \in Request /\ r # NoCall
    BY <1>2, <2>1, CallType DEF Writes
  <2>3. Fits(r) /\ rows' = SetAt(rows, r.id, Written(r))
    BY <1>1, <1>2, <1>3, <1>7, <2>1, <2>2
       DEF ConnIsSound, WriteIsSound, Writes, Fits, CommitWrite, SetAt
  <2>4. /\ AbstractCalls[c] = At(r, "open", Absent)
        /\ AbstractCalls' = SetAt(AbstractCalls, c, At(r, "ok", Written(r)))
    BY <1>6, <1>7, <2>1 DEF Shown, Writes
  <2> QED
    BY <1>4, <2>2, <2>3, <2>4, Succeeds
<1>8. CASE answer[c] # "open"
  <2>1. AbstractCalls' = SetAt(AbstractCalls, c, AbstractCalls[c])
    BY <1>6, <1>8
  <2>2. rows' = rows
    BY <1>1, <1>3, <1>8 DEF CommitWrite
  <2> QED
    BY <1>4, <2>1, <2>2, CallsStay, Stutters
<1> QED
  BY <1>7, <1>8

(* A step that raises is Raise of its call (postgres.py 142-150).          *)
LEMMA RaiseImplements ==
  ASSUME IInv, NEW c \in Client, RaiseOnLost(c) \/ StatementFails(c)
  PROVE  Contract!Next \/ UNCHANGED Contract!vars
<1> PICK r : r = req[c]
  OBVIOUS
<1>1. /\ pc[c] # "idle" /\ Settle(c, "error", Absent) /\ UNCHANGED <<rows, conn, req, held>>
      /\ \E next : next # "idle" /\ Goto(c, next)
  BY DEF RaiseOnLost, StatementFails, AfterRaise
<1>2. \A d \in Client \ {c} : held'[d] = held[d] /\ found'[d] = found[d]
  BY DEF IInv, TypeOK, RaiseOnLost, StatementFails
<1>3. /\ r \in Request \cup ListRequest
      /\ AbstractCalls[c] = Shown("lock", r, answer[c], got[c])
      /\ AbstractCalls' = SetAt(AbstractCalls, c, Shown("lock", r, "error", Absent))
  BY <1>1, <1>2, StepShows
<1>4. Limbo' = Limbo /\ rows' = rows
  BY <1>1 DEF Limbo
<1>5. CASE r.op = "list"
  <2>1. AbstractCalls' = SetAt(AbstractCalls, c, AbstractCalls[c])
    BY <1>3, <1>5 DEF Shown
  <2> QED
    BY <1>4, <2>1, CallsStay, Stutters
<1>6. CASE r.op # "list"
  <2>1. r \in Request
    BY <1>3, <1>6, CallType
  <2>2. \E a, row : AbstractCalls[c] = At(r, a, row)
    BY <1>3, <1>6 DEF Shown
  <2>3. AbstractCalls' = SetAt(AbstractCalls, c, At(r, "error", Absent))
    BY <1>3, <1>6 DEF Shown
  <2> QED
    BY <1>4, <2>1, <2>2, <2>3, Raises
<1> QED
  BY <1>5, <1>6

(* An answered call returns (postgres.py 152-218).                         *)
LEMMA ReturnImplements ==
  ASSUME IInv, NEW c \in Client, Return(c)
  PROVE  Contract!Next \/ UNCHANGED Contract!vars
<1> PICK r : r = req[c]
  OBVIOUS
<1>1. /\ pc[c] = "done" /\ Goto(c, "idle") /\ req' = [req EXCEPT ![c] = NoCall]
      /\ Settle(c, "open", Absent) /\ found' = [found EXCEPT ![c] = {}]
      /\ UNCHANGED <<rows, conn, held>>
  BY DEF Return
<1>2. TypeOK /\ CallIsSound(c)
  BY DEF IInv
<1>3. answer[c] # "open" /\ r \in Request \cup ListRequest
  BY <1>1, <1>2 DEF CallIsSound
<1>4. pc'[c] = "idle" /\ \A d \in Client \ {c} : Same(d)
  BY <1>1, <1>2 DEF TypeOK, Same, Goto, Settle
<1>5. /\ AbstractCalls[c] = Shown("done", r, answer[c], got[c])
      /\ AbstractCalls' = SetAt(AbstractCalls, c, NoCall)
  BY <1>1, <1>4, CallsChange DEF Shown
<1>6. Limbo' = Limbo /\ rows' = rows
  BY <1>1 DEF Limbo
<1>7. CASE r.op = "list"
  <2>1. AbstractCalls' = SetAt(AbstractCalls, c, AbstractCalls[c])
    BY <1>5, <1>7 DEF Shown
  <2> QED
    BY <1>6, <2>1, CallsStay, Stutters
<1>8. CASE r.op # "list"
  <2>1. r \in Request
    BY <1>3, <1>8, CallType
  <2>2. \E row : AbstractCalls[c] = At(r, answer[c], row)
    BY <1>5, <1>8 DEF Shown
  <2> QED
    BY <1>3, <1>5, <1>6, <2>1, <2>2, Returns
<1> QED
  BY <1>7, <1>8

(* A lost connection is nothing to the contract, unless its COMMIT may     *)
(* have been sent: that is Raise, with the request left in limbo.          *)
LEMMA LossImplements ==
  ASSUME IInv, NEW k \in Conn, LoseConnection(k)
  PROVE  Contract!Next \/ UNCHANGED Contract!vars
<1>1. PICK s \in Session :
           /\ conn' = SetAt(conn, k, s) /\ ~ s.alive /\ s.write = conn[k].write
           /\ \/ s.tx = conn[k].tx
              \/ s.tx = "committing" /\ \E d \in Client : held[d] = k /\ pc[d] = "commit"
  BY Loses
<1>2. conn[k].alive /\ UNCHANGED <<rows, pc, req, answer, got>>
  BY DEF LoseConnection
<1>3. TypeOK /\ conn[k].tx # "committing"
  BY <1>2 DEF IInv, ConnIsSound
<1>4. AbstractCalls' = AbstractCalls
  BY <1>2, CallsAreShown
<1>5. CASE s.tx # "committing"
  BY <1>1, <1>2, <1>3, <1>4, <1>5, LimboKept, Stutters
<1>6. CASE s.tx = "committing"
  <2>1. PICK d \in Client : held[d] = k /\ pc[d] = "commit"
    BY <1>1, <1>3, <1>6
  <2> PICK r : r = req[d]
    OBVIOUS
  <2>2. SessionIsSound(d) /\ CallIsSound(d) /\ r \in Request \cup ListRequest
    BY <2>1, AtHand DEF Holding
  <2>3. s.write = IF answer[d] = "open" THEN r ELSE NoCall
    BY <1>1, <1>2, <2>1, <2>2 DEF SessionIsSound
  <2>4. Limbo' = Limbo \cup ({s.write} \ {NoCall})
    BY <1>1, <1>3, <1>6, LimboGrows
  <2>5. CASE answer[d] = "open"
    <3>1. r.op \in Writes /\ r \in Request /\ r # NoCall
      BY <2>1, <2>2, <2>5, CallType DEF CallIsSound, Writes
    <3>2. \E a, row : AbstractCalls[d] = At(r, a, row)
      BY <2>1, <3>1, CallsAreShown DEF Shown, Writes
    <3>3. r.op # "get" /\ Limbo' = Limbo \cup {r}
      BY <2>3, <2>4, <2>5, <3>1 DEF Writes
    <3> QED
      BY <1>2, <1>4, <3>1, <3>2, <3>3, Raises
  <2>6. CASE answer[d] # "open"
    <3>1. Limbo' = Limbo
      BY <2>3, <2>4, <2>6
    <3> QED
      BY <1>2, <1>4, <3>1, Stutters
  <2> QED
    BY <2>5, <2>6
<1> QED
  BY <1>5, <1>6

(* The server's end of a lost COMMIT is Late, of another transaction       *)
(* nothing.                                                                *)
LEMMA ServerImplements ==
  ASSUME IInv, NEW k \in Conn, ServerEnds(k)
  PROVE  Contract!Next \/ UNCHANGED Contract!vars
<1> PICK w : w = conn[k].write
  OBVIOUS
<1>1. /\ conn' = SetAt(conn, k, Ended(k)) /\ UNCHANGED <<pc, req, answer, got>>
      /\ rows' = rows \/ (conn[k].tx = "committing" /\ CommitWrite(k))
  BY DEF ServerEnds, SetAt
<1>2. TypeOK /\ conn[k] \in Session /\ WriteIsSound(k)
  BY DEF IInv, TypeOK, ConnIsSound
<1>3. Ended(k).tx # "committing"
  BY <1>2, EndedIsNew
<1>4. AbstractCalls' = AbstractCalls
  BY <1>1, CallsAreShown
<1>5. CASE conn[k].tx # "committing"
  BY <1>1, <1>2, <1>3, <1>4, <1>5, LimboKept, Stutters
<1>6. CASE conn[k].tx = "committing"
  <2>1. Limbo' = Limbo \ {w}
    BY <1>1, <1>3, <1>6, LimboShrinks
  <2>2. CASE w = NoCall
    <3>1. Limbo' = Limbo
      BY <2>1, <2>2, LimboIs
    <3>2. rows' = rows
      BY <1>1, <2>2 DEF CommitWrite
    <3> QED
      BY <1>4, <3>1, <3>2, Stutters
  <2>3. CASE w # NoCall
    <3>1. w \in Request /\ w \in Limbo
      BY <1>2, <1>6, <2>3, SessionType, LimboIs
    <3>2. Fits(w)
      BY <1>2, <2>3 DEF WriteIsSound, Writes, Fits
    <3>3. rows' = rows \/ rows' = SetAt(rows, w.id, Written(w))
      BY <1>1, <2>3 DEF CommitWrite, SetAt
    <3> QED
      BY <1>4, <2>1, <3>1, <3>2, <3>3, TakesEffectLate
  <2> QED
    BY <2>2, <2>3
<1> QED
  BY <1>5, <1>6

(* For any processes, threads and connections, and any connections lost    *)
(* with their COMMITs, this store is the contract's: a call takes effect   *)
(* at most once, at COMMIT or at its SELECT, one whose COMMIT was lost     *)
(* takes effect late or never, and its answer is the stored one            *)
(* (state/store.py 30-60, postgres.py 136-218).                            *)
THEOREM PostgresImplementsTheContract == Spec => ImplementsApprovalStore
<1>1. Init => Contract!Init
  <2> SUFFICES ASSUME Init PROVE Contract!Init
    OBVIOUS
  <2>1. AbstractCalls = [c \in Client |-> NoCall]
    BY DEF Init, AbstractCalls
  <2>2. \A k \in Conn : conn[k].tx = "idle"
    BY DEF Init, NewSession
  <2>3. Limbo = {}
    BY <2>2 DEF Limbo
  <2> QED
    BY <2>1, <2>3 DEF Init, Contract!Init, Contract!Absent, Absent, Contract!NoCall, NoCall
<1>2. IInv /\ [Next]_vars => [Contract!Next]_(Contract!vars)
  <2> SUFFICES ASSUME IInv, [Next]_vars PROVE Contract!Next \/ UNCHANGED Contract!vars
    OBVIOUS
  <2>1. CASE UNCHANGED vars
    <3>1. UNCHANGED <<pc, req, answer, got, rows, conn>>
      BY <2>1 DEF vars
    <3>2. AbstractCalls' = AbstractCalls /\ Limbo' = Limbo
      BY <3>1, CallsAreShown DEF Limbo
    <3> QED
      BY <3>1, <3>2, Stutters
  <2>2. ASSUME NEW c \in Client, Work(c) PROVE Contract!Next \/ UNCHANGED Contract!vars
    BY <2>2, ScopeImplements, StatementImplements, CommitImplements, RaiseImplements,
       ReturnImplements DEF Work
  <2>3. ASSUME NEW c \in Client, Call(c) \/ Lock(c) \/ StatementFails(c)
        PROVE  Contract!Next \/ UNCHANGED Contract!vars
    BY <2>3, CallImplements, ScopeImplements, RaiseImplements
  <2> QED
    BY <2>1, <2>2, <2>3, LossImplements, ServerImplements DEF Next
<1> QED
  BY <1>1, <1>2, Invariance, PTL DEF Spec, ImplementsApprovalStore, Contract!Spec

-----------------------------------------------------------------------------
(***************************************************************************)
(* No circular wait.  A thread waits for the lock, for a connection while  *)
(* it has the lock, and for a row lock while it has both.                  *)
(***************************************************************************)
(* Connection k has locked the row that c's UPDATE matches.                *)
HasRow(k, c) ==
  /\ pc[c] = "statement" /\ conn[held[c]].alive /\ req[c].op = "decide"
  /\ Matches(held[c], req[c].id)
  /\ k # held[c] /\ conn[k].write # NoCall /\ conn[k].write.id = req[c].id

WaitsFor(c, d) ==
  \/ pc[c] = "lock" /\ lock[ProcessOf[c]] = d
  \/ /\ pc[c] = "take" /\ pool[ProcessOf[c]] = <<>>
     /\ held[d] \in Conn /\ ProcessOf[held[d]] = ProcessOf[c]
  \/ held[d] \in Conn /\ conn[held[d]].alive /\ HasRow(held[d], c)

WaitsForServer(c, k) == ~ conn[k].alive /\ conn[k].tx # "idle" /\ HasRow(k, c)

CanGo(c) ==
  /\ pc[c] # "idle"
  /\ pc[c] = "lock" => LockIsFree(ProcessOf[c])
  /\ pc[c] = "take" => pool[ProcessOf[c]] # <<>>
  /\ \A k \in Conn : ~ HasRow(k, c)

Depth(step) ==
  CASE step = "lock" -> 2 [] step \in {"take", "statement"} -> 1 [] OTHER -> 0

(* Every wait is for a thread that is in a call and waits for less, or for *)
(* the server.                                                             *)
WaitsEnd ==
  \A c \in Client :
    /\ \A d \in Client : WaitsFor(c, d) => pc[d] # "idle" /\ Depth(pc[d]) < Depth(pc[c])
    /\ pc[c] # "idle" /\ ~ CanGo(c) =>
         \/ \E d \in Client : WaitsFor(c, d)
         \/ \E k \in Conn : WaitsForServer(c, k)

(* A call that cannot go on now can in the end: some call can, or the      *)
(* server ends the transaction of a lost connection.                       *)
SomebodyGoes ==
  (\E c \in Client : pc[c] # "idle") =>
    \/ \E d \in Client : CanGo(d)
    \/ \E k \in Conn : ~ conn[k].alive /\ conn[k].tx # "idle"

(* A live session that has written is its thread's, which is about to      *)
(* commit or to roll back (postgres.py 142-150).                           *)
LEMMA WriterCommits ==
  ASSUME IInv, NEW d \in Client, held[d] \in Conn, conn[held[d]].alive,
         conn[held[d]].write # NoCall
  PROVE  pc[d] \in {"commit", "rollback"}
<1>1. HeldIsSound(d) /\ NewSession.write = NoCall
  BY DEF IInv, NewSession
<1>2. pc[d] \in Holding /\ SessionIsSound(d)
  BY <1>1, NoConnIsNew DEF HeldIsSound
<1>3. pc[d] # "statement"
  BY <1>2 DEF SessionIsSound
<1> QED
  BY <1>1, <1>2, <1>3 DEF SessionIsSound, Holding

(* Such a session is some thread's: what is in a pool has written nothing  *)
(* (postgres.py 83-89).                                                    *)
LEMMA WriterIsHeld ==
  ASSUME IInv, NEW k \in Conn, conn[k].alive, conn[k].write # NoCall
  PROVE  \E d \in Client : held[d] = k
BY DEF IInv, ConnIsSound, NewSession

(* The one that waits for a connection has the lock, so that nobody of its *)
(* process has one (postgres.py 142).                                      *)
LEMMA TakesAlone ==
  ASSUME IInv, NEW c \in Client, pc[c] = "take"
  PROVE  \A k \in Conn : ProcessOf[k] = ProcessOf[c] =>
           k \in Range(pool[ProcessOf[c]]) /\ \A d \in Client : held[d] # k
<1> SUFFICES ASSUME NEW k \in Conn, ProcessOf[k] = ProcessOf[c],
                    NEW d \in Client, held[d] = k
             PROVE  FALSE
  BY DEF IInv, ConnIsSound
<1>1. HeldIsSound(d) /\ LockIsSound
  BY DEF IInv
<1>2. pc[d] \in Inside /\ pc[d] # "take" /\ ProcessOf[d] = ProcessOf[c]
  BY <1>1, NoConnIsNew DEF HeldIsSound, Inside, Holding
<1>3. pc[c] \in Inside
  BY DEF Inside
<1> QED
  BY <1>1, <1>2, <1>3 DEF LockIsSound

(* Whom a thread waits for is further on: the holder of the lock waits for *)
(* a row at most, and who has a row for nobody (postgres.py 142-150, 186). *)
LEMMA WaitsGoDown ==
  ASSUME IInv, NEW c \in Client, NEW d \in Client, WaitsFor(c, d)
  PROVE  pc[d] # "idle" /\ Depth(pc[d]) < Depth(pc[c])
<1>1. CASE pc[c] = "lock" /\ lock[ProcessOf[c]] = d
  <2>1. d # NoClient /\ ProcessOf[c] \in Process /\ LockIsSound
    BY NullsAreNew, ProcessesOwn DEF IInv
  <2>2. ProcessOf[d] = ProcessOf[c]
    BY <1>1, <2>1 DEF LockIsSound
  <2>3. pc[d] \in Inside
    BY <1>1, <2>1, <2>2 DEF LockIsSound
  <2> QED
    BY <1>1, <2>3 DEF Inside, Holding, Depth
<1>2. CASE pc[c] = "take" /\ held[d] \in Conn /\ ProcessOf[held[d]] = ProcessOf[c]
  BY <1>2, TakesAlone
<1>3. CASE held[d] \in Conn /\ conn[held[d]].alive /\ HasRow(held[d], c)
  <2>1. pc[c] = "statement" /\ pc[d] \in {"commit", "rollback"}
    BY <1>3, WriterCommits DEF HasRow
  <2> QED
    BY <2>1 DEF Depth
<1> QED
  BY <1>1, <1>2, <1>3 DEF WaitsFor

(* No thread waits for itself, through however many others and whatever    *)
(* their processes, and none without something that will happen: each wait *)
(* is for a thread that waits for less, or for the server to end a lost    *)
(* transaction.  A pool has a connection (postgres.py 74, 142-150, 186).   *)
THEOREM NoCircularWait ==
  ASSUME \A p \in Process : \E k \in Conn : ProcessOf[k] = p
  PROVE  Spec => []WaitsEnd
<1>1. ASSUME IInv PROVE WaitsEnd
  <2> SUFFICES ASSUME NEW c \in Client, pc[c] # "idle", ~ CanGo(c)
               PROVE  \/ \E d \in Client : WaitsFor(c, d)
                      \/ \E k \in Conn : WaitsForServer(c, k)
    BY <1>1, WaitsGoDown DEF WaitsEnd
  <2>1. CASE pc[c] = "lock" /\ ~ LockIsFree(ProcessOf[c])
    <3>1. lock[ProcessOf[c]] \in Client
      BY <1>1, <2>1, ProcessesOwn DEF IInv, TypeOK, LockIsFree
    <3> QED
      BY <2>1, <3>1 DEF WaitsFor
  <2>2. CASE pc[c] = "take" /\ pool[ProcessOf[c]] = <<>>
    <3>1. PICK k \in Conn : ProcessOf[k] = ProcessOf[c]
      BY ProcessesOwn
    <3>2. k \in Range(pool[ProcessOf[c]])
      BY <1>1, <2>2, <3>1, TakesAlone
    <3> QED
      BY <2>2, <3>2 DEF Range
  <2>3. ASSUME NEW k \in Conn, HasRow(k, c)
        PROVE  (\E d \in Client : WaitsFor(c, d)) \/ WaitsForServer(c, k)
    <3>1. CASE conn[k].alive
      <4>1. PICK d \in Client : held[d] = k
        BY <1>1, <2>3, <3>1, WriterIsHeld DEF HasRow
      <4> QED
        BY <2>3, <3>1, <4>1 DEF WaitsFor
    <3>2. CASE ~ conn[k].alive
      BY <1>1, <2>3, <3>2 DEF IInv, ConnIsSound, WriteIsSound, HasRow, WaitsForServer
    <3> QED
      BY <3>1, <3>2
  <2> QED
    BY <2>1, <2>2, <2>3 DEF CanGo
<1> QED
  BY <1>1, Invariance, PTL

(* While a call is in progress something can go on: there is no deadlock   *)
(* of threads, connections, processes and row locks, whatever was lost     *)
(* (postgres.py 142-150, 186).                                             *)
THEOREM NoDeadlock ==
  ASSUME \A p \in Process : \E k \in Conn : ProcessOf[k] = p
  PROVE  Spec => []SomebodyGoes
<1>1. ASSUME WaitsEnd PROVE SomebodyGoes
  <2> SUFFICES ASSUME NEW c \in Client, pc[c] # "idle", \A d \in Client : ~ CanGo(d),
                      \A k \in Conn : conn[k].alive \/ conn[k].tx = "idle"
               PROVE  FALSE
    BY DEF SomebodyGoes
  <2>1. ASSUME NEW d \in Client, pc[d] # "idle"
        PROVE  \E e \in Client : pc[e] # "idle" /\ Depth(pc[e]) < Depth(pc[d])
    BY <1>1, <2>1 DEF WaitsEnd, WaitsForServer
  <2>2. \A step : Depth(step) \in {0, 1, 2}
    BY DEF Depth
  <2>3. PICK d \in Client : pc[d] # "idle" /\ Depth(pc[d]) < Depth(pc[c])
    BY <2>1
  <2>4. PICK e \in Client : pc[e] # "idle" /\ Depth(pc[e]) < Depth(pc[d])
    BY <2>1, <2>3
  <2>5. PICK f \in Client : pc[f] # "idle" /\ Depth(pc[f]) < Depth(pc[e])
    BY <2>1, <2>4
  <2> QED
    BY <2>2, <2>3, <2>4, <2>5
<1> QED
  BY <1>1, NoCircularWait, PTL

-----------------------------------------------------------------------------
(* How many steps a call has left, at most.                                *)
Left(step) ==
  CASE step = "lock"      -> 9
    [] step = "take"      -> 8
    [] step = "scope"     -> 7
    [] step = "statement" -> 6
    [] step = "commit"    -> 5
    [] step = "rollback"  -> 4
    [] step = "release"   -> 3
    [] step = "count"     -> 2
    [] step = "done"      -> 1
    [] OTHER              -> 0

(* A call's own steps bring it nearer to its end, whatever raises, and no  *)
(* step of another thread, connection or server changes where it is.       *)
Advances(c) ==
  /\ Lock(c) \/ Work(c) \/ StatementFails(c) => Left(pc'[c]) < Left(pc[c])
  /\ pc'[c] = pc[c] \/ Call(c) \/ Lock(c) \/ Work(c) \/ StatementFails(c)

CallsAdvance == [][\A c \in Client : Advances(c)]_vars

(* A thread's step, whichever it is, is its own (postgres.py 136-218).     *)
LEMMA OwnStep ==
  ASSUME TypeOK, NEW c \in Client, Call(c) \/ Lock(c) \/ Work(c) \/ StatementFails(c)
  PROVE  /\ \A d \in Client \ {c} : pc'[d] = pc[d]
         /\ Lock(c) \/ Work(c) \/ StatementFails(c) => Left(pc'[c]) < Left(pc[c])
<1>1. ASSUME NEW next, Goto(c, next)
      PROVE  pc'[c] = next /\ \A d \in Client \ {c} : pc'[d] = pc[d]
  BY <1>1 DEF TypeOK, Goto
<1>2. CASE Call(c)
  <2>1. pc[c] = "idle" /\ Goto(c, "lock")
    BY <1>2 DEF Call, create_pending, decide, get, list_pending, Begin
  <2>2. ~ (Lock(c) \/ Work(c) \/ StatementFails(c))
    BY <2>1 DEF Lock, Work, StatementFails, TakeConnection, SetTenant, Statement, Commit, Rollback,
                RaiseOnLost, Release, CountPending, Return
  <2> QED
    BY <1>1, <2>1, <2>2
<1>3. CASE Lock(c) \/ StatementFails(c)
  BY <1>1, <1>3 DEF Lock, StatementFails, Left
<1>4. CASE Work(c)
  <2>1. CASE TakeConnection(c) \/ SetTenant(c) \/ Statement(c) \/ Commit(c) \/ Rollback(c)
    BY <1>1, <2>1 DEF TakeConnection, SetTenant, Statement, Commit, Rollback, Left
  <2>2. CASE RaiseOnLost(c)
    BY <1>1, <2>2 DEF RaiseOnLost, AfterRaise, Left
  <2>3. CASE Release(c)
    <3>1. pc[c] = "release" /\ (Goto(c, "count") \/ Goto(c, "done"))
      BY <2>3 DEF Release
    <3> QED
      BY <1>1, <3>1 DEF Left
  <2>4. CASE CountPending(c) \/ Return(c)
    BY <1>1, <2>4 DEF CountPending, Return, Left
  <2> QED
    BY <1>4, <2>1, <2>2, <2>3, <2>4 DEF Work
<1> QED
  BY <1>2, <1>3, <1>4

(* A call has at most nine steps to its return, also when its connection   *)
(* is lost or its statement or its rollback raises, and nobody sets it     *)
(* back: with NoDeadlock, what is left of EveryCallReturns is that a       *)
(* thread that can run does, that the lock is handed on, and that the      *)
(* server notices a lost connection (postgres.py 136-218).                 *)
THEOREM CallsOnlyAdvance == Spec => CallsAdvance
<1>1. ASSUME TypeOK, [Next]_vars, NEW c \in Client PROVE Advances(c)
  <2>1. CASE Call(c) \/ Lock(c) \/ Work(c) \/ StatementFails(c)
    BY <1>1, <2>1, OwnStep DEF Advances
  <2>2. CASE ~ (Call(c) \/ Lock(c) \/ Work(c) \/ StatementFails(c))
    <3>1. ASSUME NEW d \in Client, Call(d) \/ Lock(d) \/ Work(d) \/ StatementFails(d)
          PROVE  pc'[c] = pc[c]
      <4>1. d # c
        BY <2>2, <3>1
      <4> QED
        BY <1>1, <3>1, <4>1, OwnStep
    <3>2. (\E k \in Conn : LoseConnection(k) \/ ServerEnds(k)) \/ UNCHANGED vars => pc' = pc
      BY DEF LoseConnection, ServerEnds, vars
    <3>3. pc'[c] = pc[c]
      BY <1>1, <3>1, <3>2 DEF Next
    <3> QED
      BY <2>2, <3>3 DEF Advances
  <2> QED
    BY <2>1, <2>2
<1>2. TypeOK /\ [Next]_vars => [\A c \in Client : Advances(c)]_vars
  BY <1>1
<1> QED
  BY <1>2, TypeCorrect, PTL DEF CallsAdvance, Spec

-----------------------------------------------------------------------------
(***************************************************************************)
(* What is proved of the contract holds of this store.                     *)
(***************************************************************************)

(* The contract that is implemented and the one ApprovalStoreProofs is     *)
(* about are the same, operator by operator (state/store.py 30-60).        *)
LEMMA SameRecords ==
  /\ Contract!Absent = ContractProofs!Absent
  /\ Contract!NoCall = ContractProofs!NoCall
  /\ Contract!Request = ContractProofs!Request
  /\ \A r : Contract!Written(r) = ContractProofs!Written(r)
  /\ \A i, t : Contract!Decidable(i, t) <=> ContractProofs!Decidable(i, t)
  BY DEF Contract!Absent, ContractProofs!Absent, Contract!NoCall, ContractProofs!NoCall,
         Contract!Request, ContractProofs!Request, Contract!Written, ContractProofs!Written,
         Contract!Pending, ContractProofs!Pending, Contract!Decided, ContractProofs!Decided,
         Contract!Decidable, ContractProofs!Decidable, Contract!Visible, ContractProofs!Visible

(* So are their writes (state/store.py 30-60).                             *)
LEMMA SameWrites ==
  ASSUME NEW r
  PROVE  /\ Contract!CanApply(r) <=> ContractProofs!CanApply(r)
         /\ Contract!Apply(r) <=> ContractProofs!Apply(r)
  BY SameRecords DEF Contract!CanApply, ContractProofs!CanApply, Contract!Apply,
                     ContractProofs!Apply

(* And so are their steps (state/store.py 30-60).                          *)
LEMMA SameSteps == Contract!Next => ContractProofs!Next
<1> USE SameRecords
<1>1. ASSUME NEW c, NEW r PROVE Contract!Invoke(c, r) => ContractProofs!Invoke(c, r)
  BY DEF Contract!Invoke, ContractProofs!Invoke
<1>2. ASSUME NEW c PROVE Contract!Succeed(c) => ContractProofs!Succeed(c)
  BY SameWrites DEF Contract!Succeed, ContractProofs!Succeed, Contract!Open, ContractProofs!Open,
                    Contract!Answers, ContractProofs!Answers
<1>3. ASSUME NEW c PROVE Contract!Refuse(c) => ContractProofs!Refuse(c)
  BY DEF Contract!Refuse, ContractProofs!Refuse, Contract!Open, ContractProofs!Open,
         Contract!Answers, ContractProofs!Answers
<1>4. ASSUME NEW c PROVE Contract!Read(c) => ContractProofs!Read(c)
  BY DEF Contract!Read, ContractProofs!Read, Contract!Open, ContractProofs!Open,
         Contract!Answers, ContractProofs!Answers, Contract!Visible, ContractProofs!Visible
<1>5. ASSUME NEW c PROVE Contract!Raise(c) => ContractProofs!Raise(c)
  BY DEF Contract!Raise, ContractProofs!Raise
<1>6. ASSUME NEW c PROVE Contract!Return(c) => ContractProofs!Return(c)
  BY DEF Contract!Return, ContractProofs!Return, Contract!Open, ContractProofs!Open
<1>7. ASSUME NEW r PROVE Contract!Late(r) => ContractProofs!Late(r)
  BY SameWrites DEF Contract!Late, ContractProofs!Late
<1> QED
  BY <1>1, <1>2, <1>3, <1>4, <1>5, <1>6, <1>7 DEF Contract!Next, ContractProofs!Next

(* For any processes, threads and lost connections and COMMIT replies, an  *)
(* approval is decided at most once, never deleted and never moved to      *)
(* another tenant, and whoever was told "ok" was told the truth about a    *)
(* record of its own tenant (postgres.py 152-208).                         *)
THEOREM PostgresKeepsTheContract == Spec => []Contract!HonestAnswers /\ Contract!DecidedOnce
<1>1. Contract!Init => ContractProofs!Init
  BY SameRecords DEF Contract!Init, ContractProofs!Init
<1>2. [Contract!Next]_(Contract!vars) => [ContractProofs!Next]_(ContractProofs!vars)
  BY SameSteps DEF Contract!vars, ContractProofs!vars
<1>3. ContractProofs!HonestAnswers => Contract!HonestAnswers
  BY SameRecords DEF ContractProofs!HonestAnswers, Contract!HonestAnswers,
                     ContractProofs!Decided, Contract!Decided
<1>4. ContractProofs!NullsAreNew
  BY NullsAreNew DEF ContractProofs!NullsAreNew
<1> QED
  BY <1>1, <1>2, <1>3, <1>4, PostgresImplementsTheContract, ContractProofs!AnswersAreHonest,
     ContractProofs!NeverDecidedTwice, PTL
     DEF ImplementsApprovalStore, Contract!Spec, ContractProofs!Spec, Contract!DecidedOnce,
         ContractProofs!DecidedOnce
=============================================================================
