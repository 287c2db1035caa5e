------------------------- MODULE ApprovalStoreProofs -------------------------
(***************************************************************************)
(* Proofs about ApprovalStore, for any set of clients, ids, tenants and    *)
(* verdicts.  What a client was told stays true because the only writes    *)
(* are the creation of an absent record and the decision of a pending one. *)
(*                                                                         *)
(* Its lemmas about sums over finite sets are for the gauges of the stores *)
(* that implement the contract, and for the limiter.                       *)
(***************************************************************************)
EXTENDS ApprovalStore, Integers, FiniteSets, Functions, FiniteSetTheorems, WellFoundedInduction,
        TLAPS

(* What HonestAnswers says of one client.                                  *)
Honest(c) ==
  LET r == call[c].request
      row == call[c].row
  IN call[c] # NoCall /\ call[c].answer = "ok" =>
       /\ approvals[r.id].tenant = r.tenant /\ row.tenant = r.tenant
       /\ r.op = "decide" => approvals[r.id] = Decided(r)
       /\ row.status # "pending" => row = approvals[r.id]

(* What DecidedOnce says of one step and one id.                           *)
Kept(i) ==
  /\ approvals[i].status # "absent" => approvals'[i].tenant = approvals[i].tenant
  /\ approvals[i].status = "pending" => approvals'[i].status # "absent"
  /\ approvals[i].status \in Verdict => approvals'[i] = approvals[i]

IInv == TypeOK /\ HonestAnswers

-----------------------------------------------------------------------------
(***************************************************************************)
(* Sums.  The stores keep a gauge per process (metrics.py 78), and what    *)
(* they add up to is compared with the records of the contract.            *)
(* SumFunctionOnSet(f, S) adds f up over a finite set S in an order that   *)
(* CHOOSE picks; here it is shown not to depend on it.                     *)
(***************************************************************************)
(* A set of subsets of a finite set has a least member.                    *)
LEMMA LeastSubset ==
  ASSUME NEW S, IsFiniteSet(S), NEW B \in SUBSET SUBSET S, B # {}
  PROVE  \E s \in B : \A r \in SUBSET s : r \in B => r = s
<1>1. PICK s \in B : \A r \in B : <<r, s>> \notin StrictSubsetOrdering(S)
  <2>1. B \in SUBSET FiniteSubsetsOf(S)
    BY FS_Subset DEF FiniteSubsetsOf
  <2> QED BY <2>1, FS_StrictSubsetOrderingWellFounded, WFMin
<1> QED BY <1>1 DEF StrictSubsetOrdering

(* The order, and the function by which the sum is defined.                *)
Pick(s) == CHOOSE x \in s : TRUE
Adds(f, S, g) ==
  g = [s \in SUBSET S |-> IF s = {} THEN 0 ELSE f[Pick(s)] + g[s \ {Pick(s)}]]

(* The sum is what that function has at S.                                 *)
LEMMA SumIsAdder ==
  ASSUME NEW f, NEW S
  PROVE  SumFunctionOnSet(f, S) = (CHOOSE g : Adds(f, S, g))[S]
BY DEF SumFunctionOnSet, FoldFunctionOnSet, MapThenFoldSet, Adds, Pick

(* There is a next element until there are none.                           *)
LEMMA PickIsIn == \A s : s # {} => Pick(s) \in s
BY DEF Pick

(* The sum adds the element picked to the sum of the others: it exists,    *)
(* because what a function has at the subsets of S extends to S.           *)
LEMMA SumStep ==
  ASSUME NEW f, NEW S, IsFiniteSet(S)
  PROVE  SumFunctionOnSet(f, S) =
           IF S = {} THEN 0 ELSE f[Pick(S)] + SumFunctionOnSet(f, S \ {Pick(S)})
<1> DEFINE Sum(s)  == SumFunctionOnSet(f, s)
           Step(s) == IF s = {} THEN 0 ELSE f[Pick(s)] + Sum(s \ {Pick(s)})
           B == {s \in SUBSET S : Sum(s) # Step(s)}
<1>1. SUFFICES ASSUME B # {} PROVE FALSE
  OBVIOUS
<1>2. PICK s \in B : \A r \in SUBSET s : r \in B => r = s
  <2>1. B \in SUBSET SUBSET S
    OBVIOUS
  <2> HIDE DEF B
  <2> QED BY <1>1, <2>1, LeastSubset
<1> DEFINE g == [r \in SUBSET s |-> Step(r)]
<1>3. \A r \in SUBSET s : r # s => Step(r) = Sum(r)
  BY <1>2
<1>4. Adds(f, s, g)
  <2>1. ASSUME NEW r \in SUBSET s, r # {} PROVE g[r \ {Pick(r)}] = Sum(r \ {Pick(r)})
    <3>1. Pick(r) \in r
      BY <2>1, PickIsIn
    <3>2. r \ {Pick(r)} \in SUBSET s /\ r \ {Pick(r)} # s
      BY <3>1
    <3> HIDE DEF Sum
    <3>3. g[r \ {Pick(r)}] = Step(r \ {Pick(r)})
      BY <3>2
    <3> QED BY <1>3, <3>2, <3>3
  <2>2. ASSUME NEW r \in SUBSET s
        PROVE  Step(r) = IF r = {} THEN 0 ELSE f[Pick(r)] + g[r \ {Pick(r)}]
    BY <2>1
  <2> HIDE DEF Step
  <2> QED BY <2>2 DEF Adds
<1> HIDE DEF g
<1>5. ASSUME NEW c, Adds(f, s, c) PROVE c = g
  <2> DEFINE D == {r \in SUBSET s : c[r] # g[r]}
  <2>1. ASSUME D # {} PROVE FALSE
    <3>1. D \in SUBSET SUBSET s /\ IsFiniteSet(s)
      BY FS_Subset
    <3>2. PICK r \in D : \A q \in SUBSET r : q \in D => q = r
      <4> HIDE DEF D
      <4> QED BY <2>1, <3>1, LeastSubset
    <3>3. c[r] = IF r = {} THEN 0 ELSE f[Pick(r)] + c[r \ {Pick(r)}]
      BY <1>5 DEF Adds
    <3>4. g[r] = IF r = {} THEN 0 ELSE f[Pick(r)] + g[r \ {Pick(r)}]
      BY <1>4 DEF Adds
    <3>5. r # {} => c[r \ {Pick(r)}] = g[r \ {Pick(r)}]
      <4>1. r # {} => r \ {Pick(r)} \in SUBSET r /\ r \ {Pick(r)} # r
        BY PickIsIn
      <4> QED BY <3>2, <4>1
    <3> QED BY <3>2, <3>3, <3>4, <3>5
  <2>2. \A r \in SUBSET s : c[r] = g[r]
    BY <2>1
  <2>3. c = [r \in SUBSET s |-> c[r]]
    BY <1>5 DEF Adds
  <2>4. g = [r \in SUBSET s |-> g[r]]
    BY <1>4 DEF Adds
  <2> QED BY <2>2, <2>3, <2>4
<1>6. (CHOOSE c : Adds(f, s, c)) = g
  BY <1>4, <1>5
<1>7. Sum(s) = g[s]
  BY <1>6, SumIsAdder
<1>8. g[s] = Step(s)
  BY DEF g
<1> QED BY <1>2, <1>7, <1>8

(* Any element could have been picked: two of them can be swapped.         *)
LEMMA SumRemove ==
  ASSUME NEW f, NEW S, IsFiniteSet(S), \A x \in S : f[x] \in Int
  PROVE  /\ SumFunctionOnSet(f, S) \in Int
         /\ \A x \in S : SumFunctionOnSet(f, S) = f[x] + SumFunctionOnSet(f, S \ {x})
<1> DEFINE Sum(s) == SumFunctionOnSet(f, s)
           Good(s) == Sum(s) \in Int /\ \A x \in s : Sum(s) = f[x] + Sum(s \ {x})
           B == {s \in SUBSET S : ~ Good(s)}
<1>1. SUFFICES ASSUME B # {} PROVE FALSE
  OBVIOUS
<1>2. PICK s \in B : \A r \in SUBSET s : r \in B => r = s
  <2>1. B \in SUBSET SUBSET S
    OBVIOUS
  <2> HIDE DEF B
  <2> QED BY <1>1, <2>1, LeastSubset
<1>3. ASSUME NEW r \in SUBSET s PROVE Sum(r) = IF r = {} THEN 0 ELSE f[Pick(r)] + Sum(r \ {Pick(r)})
  BY FS_Subset, SumStep
<1>4. \A r \in SUBSET s : r # s => Good(r)
  BY <1>2
<1> HIDE DEF Sum
<1>5. Sum(s) \in Int
  <2>1. s # {} => Pick(s) \in s /\ f[Pick(s)] \in Int /\ s \ {Pick(s)} \in SUBSET s /\ s \ {Pick(s)} # s
    BY PickIsIn
  <2>2. s # {} => Sum(s \ {Pick(s)}) \in Int
    BY <1>4, <2>1
  <2>3. Sum(s) = IF s = {} THEN 0 ELSE f[Pick(s)] + Sum(s \ {Pick(s)})
    BY <1>3
  <2> QED BY <2>1, <2>2, <2>3
<1>6. ASSUME NEW x \in s PROVE Sum(s) = f[x] + Sum(s \ {x})
  <2> DEFINE y == Pick(s)
  <2>1. y \in s /\ Sum(s) = f[y] + Sum(s \ {y})
    BY <1>3, PickIsIn
  <2> HIDE DEF y
  <2>2. CASE x # y
    <3> DEFINE rest == s \ {x, y}
    <3>1. /\ (s \ {y}) \ {x} = rest /\ (s \ {x}) \ {y} = rest
          /\ s \ {y} \in SUBSET s /\ s \ {y} # s /\ x \in s \ {y}
          /\ s \ {x} \in SUBSET s /\ s \ {x} # s /\ y \in s \ {x}
          /\ rest \in SUBSET s /\ rest # s
      BY <2>1, <2>2
    <3> HIDE DEF rest
    <3>2. Sum(s \ {y}) = f[x] + Sum(rest)
      BY <1>4, <3>1
    <3>3. Sum(s \ {x}) = f[y] + Sum(rest)
      BY <1>4, <3>1
    <3>4. Sum(rest) \in Int
      BY <1>4, <3>1
    <3>5. f[x] \in Int /\ f[y] \in Int
      BY <2>1
    <3> QED BY <2>1, <3>2, <3>3, <3>4, <3>5
  <2> QED BY <2>1, <2>2
<1> QED BY <1>2, <1>5, <1>6

(* The sum depends on what f has at S only.                                *)
LEMMA SumOfSame ==
  ASSUME NEW f, NEW h, NEW S, IsFiniteSet(S), \A x \in S : f[x] = h[x]
  PROVE  SumFunctionOnSet(f, S) = SumFunctionOnSet(h, S)
<1> DEFINE B == {s \in SUBSET S : SumFunctionOnSet(f, s) # SumFunctionOnSet(h, s)}
<1>1. SUFFICES ASSUME B # {} PROVE FALSE
  OBVIOUS
<1>2. PICK s \in B : \A r \in SUBSET s : r \in B => r = s
  <2>1. B \in SUBSET SUBSET S
    OBVIOUS
  <2> HIDE DEF B
  <2> QED BY <1>1, <2>1, LeastSubset
<1>3. IsFiniteSet(s)
  BY FS_Subset
<1>4. s # {} => SumFunctionOnSet(f, s \ {Pick(s)}) = SumFunctionOnSet(h, s \ {Pick(s)})
  BY <1>2, PickIsIn
<1>5. s # {} => f[Pick(s)] = h[Pick(s)]
  BY PickIsIn
<1> QED BY <1>2, <1>3, <1>4, <1>5, SumStep

(* Gauges that are all zero add up to zero.                                *)
LEMMA SumOfZeros ==
  ASSUME NEW f, NEW S, IsFiniteSet(S), \A x \in S : f[x] = 0
  PROVE  SumFunctionOnSet(f, S) = 0
<1> DEFINE B == {s \in SUBSET S : SumFunctionOnSet(f, s) # 0}
<1>1. SUFFICES ASSUME B # {} PROVE FALSE
  OBVIOUS
<1>2. PICK s \in B : \A r \in SUBSET s : r \in B => r = s
  <2>1. B \in SUBSET SUBSET S
    OBVIOUS
  <2> HIDE DEF B
  <2> QED BY <1>1, <2>1, LeastSubset
<1>3. IsFiniteSet(s)
  BY FS_Subset
<1>4. s # {} => SumFunctionOnSet(f, s \ {Pick(s)}) = 0
  BY <1>2, PickIsIn
<1>5. s # {} => f[Pick(s)] = 0
  BY PickIsIn
<1> QED BY <1>2, <1>3, <1>4, <1>5, SumStep

(* One gauge that changes changes the sum by as much.                      *)
LEMMA SumChanges ==
  ASSUME NEW S, IsFiniteSet(S), NEW x \in S, NEW f, NEW h,
         \A y \in S : f[y] \in Int /\ h[y] \in Int, \A y \in S \ {x} : h[y] = f[y]
  PROVE  /\ SumFunctionOnSet(f, S) \in Int
         /\ SumFunctionOnSet(h, S) = SumFunctionOnSet(f, S) + h[x] - f[x]
<1>1. /\ SumFunctionOnSet(f, S) \in Int
      /\ SumFunctionOnSet(f, S) = f[x] + SumFunctionOnSet(f, S \ {x})
  BY SumRemove
<1>2. SumFunctionOnSet(h, S) = h[x] + SumFunctionOnSet(h, S \ {x})
  BY SumRemove
<1>3. IsFiniteSet(S \ {x})
  BY FS_Subset
<1>4. SumFunctionOnSet(f, S \ {x}) \in Int
  BY <1>3, SumRemove
<1>5. SumFunctionOnSet(h, S \ {x}) = SumFunctionOnSet(f, S \ {x})
  BY <1>3, SumOfSame
<1> QED BY <1>1, <1>2, <1>4, <1>5

-----------------------------------------------------------------------------
(* The fields of a call (state/store.py 30-60).                            *)
LEMMA RequestType ==
  ASSUME NEW r \in Request
  PROVE  /\ r.id \in Id /\ r.tenant \in Tenant /\ r.client \in Client
         /\ r.op \in {"create", "get", "decide"}
         /\ r.op = "decide" => r.verdict \in Verdict
BY DEF Request

(* A record has a tenant exactly when it exists (state/store.py 15-27).    *)
LEMMA RowType ==
  ASSUME NEW row \in Row
  PROVE  /\ row.tenant \in Tenant \cup {NoTenant}
         /\ row.status \in {"absent", "pending"} \cup Verdict
         /\ row.status = "absent" <=> row = Absent
         /\ row.tenant \in Tenant <=> row # Absent
BY NullsAreNew DEF Row, Absent

(* What a successful write leaves is a record of the caller's tenant       *)
(* (state/store.py 111-127, 143-151).                                      *)
LEMMA WrittenType ==
  ASSUME NEW r \in Request, r.op \in {"create", "decide"}
  PROVE  Written(r) \in Row /\ Written(r).tenant = r.tenant /\ Written(r).status # "absent"
BY RequestType, NullsAreNew DEF Written, Pending, Decided, Row

(* A call in progress carries its request (state/store.py 30-60).          *)
LEMMA CallType ==
  ASSUME TypeOK, NEW c \in Client, call[c] # NoCall
  PROVE  call[c] \in Call /\ call[c].request \in Request
BY DEF TypeOK, Call

(* A write creates an absent record or decides a pending one of the same   *)
(* tenant, and leaves the others alone (state/store.py 113-127, 144-149).  *)
LEMMA ApplyWrites ==
  ASSUME TypeOK, NEW r \in Request, CanApply(r), Apply(r)
  PROVE  /\ approvals' \in [Id -> Row]
         /\ approvals'[r.id] = Written(r)
         /\ \A i \in Id \ {r.id} : approvals'[i] = approvals[i]
         /\ \/ approvals[r.id].status = "absent"
            \/ approvals[r.id].status = "pending" /\ approvals[r.id].tenant = r.tenant
         /\ \A i \in Id : Kept(i)
<1>1. r.id \in Id /\ r.op \in {"create", "decide"} /\ approvals \in [Id -> Row]
  BY RequestType DEF CanApply, TypeOK
<1>2. Written(r) \in Row /\ Written(r).tenant = r.tenant /\ Written(r).status # "absent"
  BY <1>1, WrittenType
<1>3. /\ approvals' \in [Id -> Row]
      /\ approvals'[r.id] = Written(r)
      /\ \A i \in Id \ {r.id} : approvals'[i] = approvals[i]
  BY <1>1, <1>2 DEF Apply
<1>4. \/ approvals[r.id].status = "absent"
      \/ approvals[r.id].status = "pending" /\ approvals[r.id].tenant = r.tenant
  BY DEF CanApply, Decidable, Visible, Absent
<1>5. ASSUME NEW i \in Id PROVE Kept(i)
  <2>1. CASE i # r.id
    BY <1>3, <2>1 DEF Kept
  <2>2. CASE i = r.id
    <3>1. approvals[i].status \notin Verdict
      BY <1>4, <2>2, NullsAreNew
    <3>2. approvals[i].status # "absent" => approvals'[i].tenant = approvals[i].tenant
      BY <1>2, <1>3, <1>4, <2>2
    <3>3. approvals'[i].status # "absent"
      BY <1>2, <1>3, <2>2
    <3> QED BY <3>1, <3>2, <3>3 DEF Kept
  <2> QED BY <2>1, <2>2
<1> QED BY <1>3, <1>4, <1>5

(* A client that was told "ok" before a write was told the truth after it. *)
LEMMA WriteKeepsHonest ==
  ASSUME TypeOK, NEW r \in Request, CanApply(r), Apply(r),
         NEW c \in Client, Honest(c), call'[c] = call[c]
  PROVE  Honest(c)'
<1> SUFFICES ASSUME call[c] # NoCall, call[c].answer = "ok"
             PROVE  Honest(c)'
  BY DEF Honest
<1> DEFINE s == call[c].request
           row == call[c].row
<1>1. s \in Request /\ row \in Row /\ s.id \in Id /\ s.tenant \in Tenant
  BY CallType, RequestType DEF Call
<1>2. /\ approvals[s.id].tenant = s.tenant /\ row.tenant = s.tenant
      /\ s.op = "decide" => approvals[s.id] = Decided(s)
      /\ row.status # "pending" => row = approvals[s.id]
  BY DEF Honest
<1>3. approvals[s.id] \in Row /\ approvals[s.id].status # "absent"
  BY <1>1, <1>2, RowType, NullsAreNew DEF TypeOK, Absent
<1>4. approvals'[s.id].tenant = s.tenant
  BY <1>1, <1>2, <1>3, ApplyWrites DEF Kept
<1>5. CASE s.id # r.id
  BY <1>1, <1>2, <1>5, ApplyWrites DEF Honest
<1>6. CASE s.id = r.id
  <2>1. approvals[s.id].status = "pending"
    BY <1>3, <1>6, ApplyWrites
  <2>2. s.op # "decide"
    BY <1>1, <1>2, <2>1, RequestType, NullsAreNew DEF Decided
  <2>3. row.status = "pending"
    BY <1>2, <2>1
  <2> QED BY <1>2, <1>4, <2>2, <2>3 DEF Honest
<1> QED BY <1>5, <1>6

-----------------------------------------------------------------------------
(* Initially there are no records and no calls.                            *)
LEMMA InitIInv == Init => IInv
BY DEF Init, IInv, TypeOK, HonestAnswers, Row

(* Every step keeps the invariant, and a record that has been decided      *)
(* stays as it is (state/store.py 111-151).                                *)
LEMMA NextIInv ==
  ASSUME IInv, [Next]_vars
  PROVE  IInv' /\ \A i \in Id : approvals'[i] = approvals[i] \/ Kept(i)
<1> USE DEF IInv
<1>h. \A c \in Client : Honest(c)
  BY DEF HonestAnswers, Honest
<1>q. ASSUME \A c \in Client : Honest(c)' PROVE HonestAnswers'
  BY <1>q DEF HonestAnswers, Honest
<1>1. ASSUME NEW c \in Client, NEW r \in Request, Invoke(c, r)
      PROVE  TypeOK' /\ (\A d \in Client : Honest(d)') /\ UNCHANGED approvals
  <2>1. TypeOK'
    BY <1>1 DEF Invoke, TypeOK, Call, Answer, Row
  <2>2. ASSUME NEW d \in Client PROVE Honest(d)'
    BY <1>h, <1>1, <2>2 DEF Invoke, Honest, TypeOK
  <2> QED BY <1>1, <2>1, <2>2 DEF Invoke
<1>2. ASSUME NEW c \in Client, Succeed(c)
      PROVE  TypeOK' /\ (\A d \in Client : Honest(d)') /\ \A i \in Id : Kept(i)
  <2> DEFINE r == call[c].request
  <2>1. call[c] \in Call /\ r \in Request /\ CanApply(r) /\ Apply(r) /\ limbo' = limbo
    BY <1>2, CallType DEF Succeed, Open
  <2>2. r.op \in {"create", "decide"} /\ Written(r) \in Row /\ Written(r).tenant = r.tenant
    BY <2>1, WrittenType DEF CanApply
  <2>3. call' = [call EXCEPT ![c].answer = "ok", ![c].row = Written(r)]
    BY <1>2 DEF Succeed, Answers
  <2>4. /\ call'[c] \in Call /\ call'[c].request = r
        /\ call'[c].row = Written(r) /\ call'[c].answer = "ok"
        /\ \A d \in Client \ {c} : call'[d] = call[d]
        /\ call' \in [Client -> Call \cup {NoCall}]
    BY <2>1, <2>2, <2>3 DEF TypeOK, Call, Answer
  <2>5. TypeOK'
    BY <2>1, <2>4, ApplyWrites DEF TypeOK
  <2>6. Honest(c)'
    BY <2>1, <2>2, <2>4, ApplyWrites DEF Honest, Written
  <2>7. ASSUME NEW d \in Client \ {c} PROVE Honest(d)'
    BY <1>h, <2>1, <2>4, WriteKeepsHonest
  <2> QED BY <2>1, <2>5, <2>6, <2>7, ApplyWrites
<1>3. ASSUME NEW c \in Client, Refuse(c) \/ Read(c) \/ Raise(c) \/ Return(c)
      PROVE  TypeOK' /\ (\A d \in Client : Honest(d)') /\ UNCHANGED approvals
  <2>1. call[c] \in Call /\ call[c].request \in Request /\ call[c].request.id \in Id
    BY <1>3, CallType, RequestType DEF Refuse, Read, Raise, Return, Open
  <2>2. UNCHANGED approvals
    BY <1>3 DEF Refuse, Read, Raise, Return
  <2>3. limbo' \subseteq Request
    BY <1>3, <2>1 DEF Refuse, Read, Raise, Return, TypeOK
  <2>4. ASSUME NEW a \in {"ok", "none", "refused", "error"}, NEW row \in Row, Answers(c, a, row)
        PROVE  /\ call' \in [Client -> Call \cup {NoCall}]
               /\ \A d \in Client \ {c} : call'[d] = call[d]
               /\ call'[c].request = call[c].request
               /\ call'[c].answer = a /\ call'[c].row = row
    BY <2>1, <2>4 DEF Answers, TypeOK, Call, Answer
  <2>5. Absent \in Row
    BY DEF Row
  <2>6. CASE Refuse(c)
    <3>1. Answers(c, "refused", Absent)
      BY <2>6 DEF Refuse
    <3> QED BY <1>h, <2>2, <2>3, <2>4, <2>5, <3>1 DEF TypeOK, Honest
  <2>7. CASE Read(c)
    <3> DEFINE r == call[c].request
    <3>1. CASE Visible(r.id, r.tenant)
      <4>1. Answers(c, "ok", approvals[r.id]) /\ approvals[r.id] \in Row /\ r.op = "get"
        BY <2>1, <2>7, <3>1 DEF Read, TypeOK
      <4>2. Honest(c)'
        BY <2>2, <2>4, <3>1, <4>1 DEF Honest, Visible
      <4> QED BY <1>h, <2>2, <2>3, <2>4, <4>1, <4>2 DEF TypeOK, Honest
    <3>2. CASE ~ Visible(r.id, r.tenant)
      <4>1. Answers(c, "none", Absent)
        BY <2>7, <3>2 DEF Read
      <4> QED BY <1>h, <2>2, <2>3, <2>4, <2>5, <4>1 DEF TypeOK, Honest
    <3> QED BY <3>1, <3>2
  <2>8. CASE Raise(c)
    <3>1. CASE call' = call
      BY <1>h, <2>2, <2>3, <3>1 DEF TypeOK, Honest
    <3>2. CASE call' # call
      <4>1. Answers(c, "error", Absent)
        BY <2>8, <3>2 DEF Raise, Answers
      <4> QED BY <1>h, <2>2, <2>3, <2>4, <2>5, <4>1 DEF TypeOK, Honest
    <3> QED BY <3>1, <3>2
  <2>9. CASE Return(c)
    BY <1>h, <2>2, <2>3, <2>9 DEF Return, TypeOK, Honest
  <2> QED BY <1>3, <2>2, <2>6, <2>7, <2>8, <2>9
<1>4. ASSUME NEW r \in limbo, Late(r)
      PROVE  TypeOK' /\ (\A d \in Client : Honest(d)') /\ \A i \in Id : approvals'[i] = approvals[i] \/ Kept(i)
  <2>1. r \in Request /\ limbo' \subseteq Request /\ call' = call
    BY <1>4 DEF Late, TypeOK
  <2>2. CASE CanApply(r) /\ Apply(r)
    <3>1. TypeOK'
      BY <2>1, <2>2, ApplyWrites DEF TypeOK
    <3>2. ASSUME NEW d \in Client PROVE Honest(d)'
      BY <1>h, <2>1, <2>2, WriteKeepsHonest
    <3> QED BY <2>1, <2>2, <3>1, <3>2, ApplyWrites
  <2>3. CASE UNCHANGED approvals
    BY <1>h, <2>1, <2>3 DEF TypeOK, Honest
  <2> QED BY <1>4, <2>2, <2>3 DEF Late
<1>5. CASE UNCHANGED vars
  BY <1>5 DEF vars, TypeOK, HonestAnswers
<1> QED BY <1>q, <1>1, <1>2, <1>3, <1>4, <1>5 DEF Next

(* The inductive invariant holds in every behaviour of the contract.       *)
THEOREM Invariance == Spec => []IInv
<1>1. IInv /\ [Next]_vars => IInv'
  BY NextIInv
<1> QED BY <1>1, InitIInv, PTL DEF Spec

(* The state of the contract is well formed: a record has a reviewer       *)
(* exactly when it is decided (state/store.py 15-27, 144-149).             *)
THEOREM TypeCorrect == Spec => []TypeOK
<1>1. IInv => TypeOK
  BY DEF IInv
<1> QED BY <1>1, Invariance, PTL

(* For any number of clients, ids and tenants: whatever a client was told  *)
(* "ok" about is true and stays true while it holds the answer, and        *)
(* belongs to its tenant (state/store.py 33-40, 134-164).                  *)
THEOREM AnswersAreHonest == Spec => []HonestAnswers
<1>1. IInv => HonestAnswers
  BY DEF IInv
<1> QED BY <1>1, Invariance, PTL

(* For any number of clients and requests in limbo, an approval is decided *)
(* at most once, never deleted and never moved to another tenant           *)
(* (README.md 288, state/store.py 145-151).                                *)
THEOREM NeverDecidedTwice == Spec => DecidedOnce
<1>1. ASSUME IInv, [Next]_vars
      PROVE  [\A i \in Id : Kept(i)]_approvals
  BY <1>1, NextIInv DEF Kept
<1>2. [\A i \in Id : Kept(i)]_approvals <=>
      [\A i \in Id :
         /\ approvals[i].status # "absent" => approvals'[i].tenant = approvals[i].tenant
         /\ approvals[i].status = "pending" => approvals'[i].status # "absent"
         /\ approvals[i].status \in Verdict => approvals'[i] = approvals[i]]_approvals
  BY DEF Kept
<1> QED BY <1>1, <1>2, Invariance, PTL DEF Spec, DecidedOnce
=============================================================================
