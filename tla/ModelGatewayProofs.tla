------------------------- MODULE ModelGatewayProofs -------------------------
(***************************************************************************)
(* Proofs about ModelGateway, for any tasks, tenants, texts, ceilings and  *)
(* numbers of attempts.                                                    *)
(*                                                                         *)
(* What telemetry says at the end of generate rests on what its local      *)
(* variables mean while it is suspended.  What a provider is sent rests on *)
(* the selection of the findings to mask: that there is one is shown by    *)
(* going through the findings in the order in which the code sorts them.   *)
(* The ceilings rest on the ledger being all that has not expired of what  *)
(* was reserved, and on the sum of costs growing with the set.             *)
(*                                                                         *)
(* The last part bounds how many steps a generation has left.              *)
(***************************************************************************)
EXTENDS ModelGateway, SequenceTheorems, FiniteSetTheorems, WellFoundedInduction, TLAPS

(* A set of naturals that has 0 and the successor of each of its members   *)
(* below n has all up to n.                                                *)
LEMMA UpTo ==
  ASSUME NEW n \in Nat, NEW S, 0 \in S, \A i \in 0..n-1 : i \in S => i + 1 \in S
  PROVE  0..n \subseteq S
<1> DEFINE T == (0..n) \ S
<1>1. SUFFICES ASSUME T # {} PROVE FALSE
  OBVIOUS
<1>2. PICK m \in T : \A i \in T : ~ (i < m)
  <2>1. T \subseteq Nat
    OBVIOUS
  <2> HIDE DEF T
  <2>2. \E m \in T : \A i \in T : <<i, m>> \notin OpToRel(<, Nat)
    BY <1>1, <2>1, NatLessThanWellFounded, WFMin
  <2> QED BY <2>1, <2>2 DEF OpToRel
<1>3. m \in 1..n /\ m - 1 \in 0..n-1
  OBVIOUS
<1>4. m - 1 \notin T
  BY <1>2, <1>3
<1>5. (m - 1) + 1 \in S
  BY <1>3, <1>4
<1> QED
  BY <1>3, <1>5

-----------------------------------------------------------------------------
(***************************************************************************)
(* Sums (policy.py 74).  The lemmas are those of ApprovalStoreProofs; its  *)
(* stores are of no concern here.                                          *)
(***************************************************************************)
Adding == INSTANCE ApprovalStoreProofs WITH
  Client <- {}, Id <- {}, Tenant <- {}, Verdict <- {}, NoClient <- 0, NoId <- 0, NoTenant <- 0,
  approvals <- now, call <- now, limbo <- now

(* Sums and finite sets are the same there as here.                        *)
LEMMA SameSums ==
  /\ \A S : Adding!IsFiniteSet(S) <=> IsFiniteSet(S)
  /\ \A f, S : Adding!SumFunctionOnSet(f, S) = SumFunctionOnSet(f, S)
<1>1. ASSUME NEW S PROVE Adding!IsFiniteSet(S) <=> IsFiniteSet(S)
  BY DEF Adding!IsFiniteSet, IsFiniteSet
<1>2. ASSUME NEW f, NEW S PROVE Adding!SumFunctionOnSet(f, S) = SumFunctionOnSet(f, S)
  BY DEF SumFunctionOnSet, FoldFunctionOnSet, MapThenFoldSet,
         Adding!SumFunctionOnSet, Adding!FoldFunctionOnSet, Adding!MapThenFoldSet
<1> QED BY <1>1, <1>2

(* Any element may be the first of a sum.                                  *)
LEMMA SumRemove ==
  ASSUME NEW f, NEW S, IsFiniteSet(S), \A x \in S : f[x] \in Int
  PROVE  /\ SumFunctionOnSet(f, S) \in Int
         /\ \A x \in S : SumFunctionOnSet(f, S) = f[x] + SumFunctionOnSet(f, S \ {x})
BY SameSums, Adding!SumRemove DEF Adding!NullsAreNew

(* Nothing adds up to zero.                                                *)
LEMMA SumOfNone == \A f : SumFunctionOnSet(f, {}) = 0
BY SameSums, FS_EmptySet, Adding!SumOfZeros DEF Adding!NullsAreNew

(* The sum depends on what f has at S only.                                *)
LEMMA SumOfSame ==
  ASSUME NEW f, NEW h, NEW S, IsFiniteSet(S), \A x \in S : f[x] = h[x]
  PROVE  SumFunctionOnSet(f, S) = SumFunctionOnSet(h, S)
BY SameSums, Adding!SumOfSame DEF Adding!NullsAreNew

(* A set of subsets of a finite set has a least member.                    *)
LEMMA LeastSubset ==
  ASSUME NEW S, IsFiniteSet(S), NEW B \in SUBSET SUBSET S, B # {}
  PROVE  \E s \in B : \A r \in SUBSET s : r \in B => r = s
BY SameSums, Adding!LeastSubset DEF Adding!NullsAreNew

(* A sum of naturals is at least that of a part of them.                   *)
LEMMA SumMonotone ==
  ASSUME NEW f, NEW S, IsFiniteSet(S), \A x \in S : f[x] \in Nat, NEW T \in SUBSET S
  PROVE  SumFunctionOnSet(f, T) \in Nat /\ SumFunctionOnSet(f, T) <= SumFunctionOnSet(f, S)
<1> DEFINE Sum(s)  == SumFunctionOnSet(f, s)
           Good(s) == Sum(s) \in Nat /\ \A t \in SUBSET s : Sum(t) <= Sum(s)
           B == {s \in SUBSET S : ~ Good(s)}
<1>1. ASSUME B # {} PROVE FALSE
  <2>1. PICK s \in B : \A r \in SUBSET s : r \in B => r = s
    <3>1. B \in SUBSET SUBSET S
      OBVIOUS
    <3> HIDE DEF B
    <3> QED BY <1>1, <3>1, LeastSubset
  <2>2. IsFiniteSet(s) /\ \A x \in s : f[x] \in Int /\ f[x] >= 0
    BY FS_Subset
  <2>3. \A x \in s : Sum(s) = f[x] + Sum(s \ {x})
    BY <2>2, SumRemove
  <2>4. s = {} => Sum(s) = 0
    BY SumOfNone
  <2>5. \A r \in SUBSET s : r # s => Good(r)
    BY <2>1
  <2> HIDE DEF Sum
  <2>6. ASSUME NEW x \in s PROVE Good(s \ {x})
    BY <2>5
  <2>7. Sum(s) \in Nat
    <3>1. ASSUME NEW x \in s PROVE Sum(s) \in Nat
      <4>1. f[x] \in Nat /\ Sum(s \ {x}) \in Nat /\ Sum(s) = f[x] + Sum(s \ {x})
        BY <2>2, <2>3, <2>6
      <4> QED BY <4>1
    <3> QED BY <2>4, <3>1
  <2>8. ASSUME NEW t \in SUBSET s PROVE Sum(t) <= Sum(s)
    <3>1. CASE t = s
      BY <2>7, <3>1
    <3>2. CASE t # s
      <4>1. PICK x \in s : x \notin t
        BY <3>2
      <4>2. t \in SUBSET (s \ {x}) /\ t # s
        BY <4>1
      <4>3. Sum(t) <= Sum(s \ {x}) /\ Sum(t) \in Nat /\ Sum(s \ {x}) \in Nat
        BY <2>5, <2>6, <4>2
      <4> QED BY <2>2, <2>3, <4>3
    <3> QED BY <3>1, <3>2
  <2> QED BY <2>1, <2>7, <2>8
<1>2. Good(S) /\ Good(T)
  BY <1>1
<1> QED BY <1>2

(* The sum of 1..n is that of a shifted range.                             *)
LEMMA SumShift ==
  ASSUME NEW n \in Nat, NEW m \in Nat, NEW f, NEW h,
         \A i \in 1..n : f[i] \in Int /\ f[i] = h[m + i]
  PROVE  SumFunctionOnSet(f, 1..n) = SumFunctionOnSet(h, m + 1..m + n)
<1> DEFINE Same(i) == SumFunctionOnSet(f, 1..i) = SumFunctionOnSet(h, m + 1..m + i)
           S == {i \in Nat : Same(i)}
<1>1. 0 \in S
  <2>1. 1..0 = {} /\ m + 1..m + 0 = {}
    OBVIOUS
  <2>2. SumFunctionOnSet(f, {}) = 0 /\ SumFunctionOnSet(h, {}) = 0
    BY SumOfNone
  <2> QED BY <2>1, <2>2
<1>2. ASSUME NEW i \in 0..n-1, i \in S PROVE i + 1 \in S
  <2> DEFINE k == i + 1
             A == 1..k
             B == m + 1..m + k
  <2>1. /\ A \ {k} = 1..i /\ B \ {m + k} = m + 1..m + i
        /\ k \in A /\ m + k \in B
    <3>1. A \ {k} = 1..i /\ k \in A
      BY <1>2
    <3>2. \A j \in Int : j \in B \ {m + k} <=> j \in m + 1..m + i
      BY <1>2
    <3>3. m + k \in B
      BY <1>2
    <3> QED BY <3>1, <3>2, <3>3
  <2>2. IsFiniteSet(A) /\ IsFiniteSet(B)
    BY FS_Interval
  <2>3. \A j \in A : f[j] \in Int
    OBVIOUS
  <2>4. \A j \in B : h[j] \in Int
    <3>1. ASSUME NEW j \in B PROVE h[j] \in Int
      <4>1. j - m \in 1..n /\ m + (j - m) = j
        OBVIOUS
      <4> QED BY <4>1
    <3> QED BY <3>1
  <2>5. f[k] = h[m + k]
    OBVIOUS
  <2>6. SumFunctionOnSet(f, 1..i) = SumFunctionOnSet(h, m + 1..m + i)
    BY <1>2
  <2>7. SumFunctionOnSet(f, A) = SumFunctionOnSet(h, B)
    <3> HIDE DEF A, B, k
    <3>1. SumFunctionOnSet(f, A) = f[k] + SumFunctionOnSet(f, A \ {k})
      BY <2>1, <2>2, <2>3, SumRemove
    <3>2. PICK z : z = m + k
      OBVIOUS
    <3>3. SumFunctionOnSet(h, B) = h[z] + SumFunctionOnSet(h, B \ {z})
      BY <2>1, <2>2, <2>4, <3>2, SumRemove
    <3> QED BY <2>1, <2>5, <2>6, <3>1, <3>2, <3>3
  <2> QED BY <2>7
<1>3. 0..n \subseteq S
  <2> HIDE DEF S
  <2> QED BY <1>1, <1>2, UpTo
<1> QED BY <1>3
-----------------------------------------------------------------------------
(***************************************************************************)
(* The findings that are masked.                                           *)
(***************************************************************************)
(* The order in which they are sorted: by start, then by descending score. *)
Rank(f) == 101 * f.start + (100 - f.score)
RankedBelow(t, n) == {f \in t.findings : Rank(f) < n}

(* `kept` is right about the findings of `some`.                           *)
KeptOf(some, kept) ==
  \A f \in some : f \in kept <=> \A g \in kept : Before(g, f) => ClearOf(f, g)

(* The code goes through the findings in the order of their ranks (pii.py  *)
(* 101-111).                                                               *)
LEMMA RankOrders ==
  ASSUME NEW t, IsText(t), NEW f \in t.findings, NEW g \in t.findings
  PROVE  /\ Rank(f) \in 0..(101 * t.length + 100)
         /\ Before(g, f) <=> Rank(g) < Rank(f)
<1>1. /\ f.start \in Nat /\ f.score \in 0..100 /\ f.start <= t.length
      /\ g.start \in Nat /\ g.score \in 0..100 /\ t.length \in Nat
  BY DEF IsText
<1> DEFINE a == f.start
           b == g.start
           p == f.score
           q == g.score
           n == t.length
<1>2. a \in Nat /\ b \in Nat /\ p \in 0..100 /\ q \in 0..100 /\ n \in Nat /\ a <= n
  BY <1>1
<1> HIDE DEF a, b, p, q, n
<1>3. 101 * a + (100 - p) \in 0..(101 * n + 100)
  BY <1>2
<1>4. b < a \/ (b = a /\ q > p) <=> 101 * b + (100 - q) < 101 * a + (100 - p)
  BY <1>2
<1> QED
  BY <1>3, <1>4 DEF Rank, Before, a, b, p, q, n

(* The code's scan: each finding is kept or not by those kept before it    *)
(* (pii.py 101-117).                                                       *)
LEMMA ScanGoesOn ==
  ASSUME NEW t, IsText(t), NEW n \in Nat, NEW kept \in SUBSET RankedBelow(t, n),
         KeptOf(RankedBelow(t, n), kept)
  PROVE  \E more \in SUBSET RankedBelow(t, n + 1) : KeptOf(RankedBelow(t, n + 1), more)
<1> DEFINE new == {f \in t.findings : Rank(f) = n /\ \A g \in kept : Before(g, f) => ClearOf(f, g)}
           more == kept \cup new
<1>1. \A f \in t.findings : Rank(f) \in Nat
  BY RankOrders
<1>2. more \in SUBSET RankedBelow(t, n + 1)
  BY <1>1 DEF RankedBelow
<1>3. ASSUME NEW f \in RankedBelow(t, n + 1)
      PROVE  f \in more <=> \A g \in more : Before(g, f) => ClearOf(f, g)
  <2>1. f \in t.findings /\ Rank(f) \in Nat /\ Rank(f) <= n
    BY <1>1 DEF RankedBelow
  <2>2. \A g \in new : ~ Before(g, f)
    BY <2>1, RankOrders
  <2>3. (\A g \in more : Before(g, f) => ClearOf(f, g)) <=> (\A g \in kept : Before(g, f) => ClearOf(f, g))
    BY <2>2
  <2>4. CASE Rank(f) = n
    <3>1. f \notin kept
      BY <2>4 DEF RankedBelow
    <3> QED BY <2>1, <2>3, <2>4, <3>1
  <2>5. CASE Rank(f) < n
    <3>1. f \in RankedBelow(t, n) /\ f \notin new
      BY <2>1, <2>5 DEF RankedBelow
    <3> QED BY <2>3, <3>1 DEF KeptOf
  <2> QED BY <2>1, <2>4, <2>5
<1> QED
  BY <1>2, <1>3 DEF KeptOf

(* So Masked is what the code selects, and not an arbitrary set.           *)
LEMMA MaskedIsSelected ==
  ASSUME NEW t, IsText(t)
  PROVE  Masked(t) \in SUBSET t.findings /\ KeptOf(t.findings, Masked(t))
<1> DEFINE S == {n \in Nat : \E kept \in SUBSET RankedBelow(t, n) : KeptOf(RankedBelow(t, n), kept)}
           last == 101 * t.length + 101
<1>1. last \in Nat
  BY DEF IsText
<1>2. 0 \in S
  <2>1. RankedBelow(t, 0) = {}
    BY RankOrders DEF RankedBelow
  <2> QED BY <2>1 DEF KeptOf
<1>3. ASSUME NEW i \in 0..last-1, i \in S PROVE i + 1 \in S
  BY <1>3, ScanGoesOn
<1>4. last \in S
  <2> HIDE DEF S, last
  <2>1. 0..last \subseteq S
    BY <1>1, <1>2, <1>3, UpTo
  <2> QED BY <1>1, <2>1
<1>5. RankedBelow(t, last) = t.findings
  <2>1. ASSUME NEW f \in t.findings PROVE Rank(f) < last
    BY <1>1, RankOrders DEF IsText
  <2> QED BY <2>1 DEF RankedBelow
<1>6. \E kept \in SUBSET t.findings : KeptOf(t.findings, kept)
  BY <1>4, <1>5
<1> QED
  BY <1>6 DEF Masked, KeptOf

(* What is left of a text: no start of a finding, of a finding only what   *)
(* follows a masked one that overlaps it, and all that is in no finding    *)
(* (pii.py 101-117).                                                       *)
LEMMA SanitizedIsMasked ==
  ASSUME NEW t, IsText(t)
  PROVE  /\ \A f \in t.findings :
              /\ f.start \notin Sanitized(t)
              /\ \A p \in Span(f) \cap Sanitized(t) :
                   \E g \in t.findings :
                     Before(g, f) /\ g.end > f.start /\ g.end <= p /\ Span(g) \cap Sanitized(t) = {}
         /\ Sanitized(t) \cup UNION {Span(f) : f \in t.findings} = 0..t.length-1
<1>1. Masked(t) \in SUBSET t.findings /\ KeptOf(t.findings, Masked(t))
  BY MaskedIsSelected
<1>2. /\ t.length \in Nat
      /\ \A f \in t.findings : /\ f.start \in Nat /\ f.end \in Nat
                               /\ f.start < f.end /\ f.end <= t.length
  BY DEF IsText
<1>3. \A g \in Masked(t) : Span(g) \cap Sanitized(t) = {}
  BY DEF Sanitized
<1>4. ASSUME NEW f \in t.findings, f \notin Masked(t)
      PROVE  \E g \in Masked(t) : Before(g, f) /\ g.end > f.start
  <2>1. PICK g \in Masked(t) : Before(g, f) /\ ~ ClearOf(f, g)
    BY <1>1, <1>4 DEF KeptOf
  <2>2. f.start \in Nat /\ g.end \in Nat /\ g \in t.findings
    BY <1>1, <1>2
  <2> QED BY <2>1, <2>2 DEF ClearOf
<1>5. ASSUME NEW f \in t.findings PROVE f.start \notin Sanitized(t)
  <2>1. CASE f \in Masked(t)
    <3>1. f.start \in Span(f)
      BY <1>2 DEF Span
    <3> QED BY <1>3, <2>1, <3>1
  <2>2. CASE f \notin Masked(t)
    <3>1. PICK g \in Masked(t) : Before(g, f) /\ g.end > f.start
      BY <1>4, <2>2
    <3>2. f.start \in Span(g)
      BY <1>1, <1>2, <3>1 DEF Span, Before
    <3> QED BY <1>3, <3>2
  <2> QED BY <2>1, <2>2
<1>6. ASSUME NEW f \in t.findings, NEW p \in Span(f) \cap Sanitized(t)
      PROVE  \E g \in t.findings :
               Before(g, f) /\ g.end > f.start /\ g.end <= p /\ Span(g) \cap Sanitized(t) = {}
  <2>1. f \notin Masked(t)
    BY <1>3
  <2>2. PICK g \in Masked(t) : Before(g, f) /\ g.end > f.start
    BY <1>4, <2>1
  <2>3. /\ g \in t.findings /\ g.start \in Nat /\ g.end \in Nat /\ f.start \in Nat
        /\ f.end \in Nat /\ g.start <= f.start
    BY <1>1, <1>2, <2>2 DEF Before
  <2>4. p \in Nat /\ f.start <= p
    BY <2>3 DEF Span
  <2>5. p \notin Span(g)
    BY <1>3
  <2>6. g.end <= p
    BY <2>3, <2>4, <2>5 DEF Span
  <2> QED
    BY <1>3, <2>2, <2>3, <2>6
<1>7. Sanitized(t) \cup UNION {Span(f) : f \in t.findings} = 0..t.length-1
  <2>1. ASSUME NEW f \in t.findings PROVE Span(f) \subseteq 0..t.length-1
    BY <1>2 DEF Span
  <2>2. ASSUME NEW p \in 0..t.length-1
        PROVE  p \in Sanitized(t) \cup UNION {Span(f) : f \in t.findings}
    BY <1>1 DEF Sanitized
  <2> QED
    BY <2>1, <2>2 DEF Sanitized
<1> QED
  BY <1>5, <1>6, <1>7

(* A text that content safety lets through has a severity below each       *)
(* threshold; an unknown one counts as the highest (content_safety.py).    *)
LEMMA UnblockedIsBelow ==
  ASSUME NEW t, IsText(t), ~ ContentBlocked(t), NEW c \in DOMAIN Thresholds
  PROVE  t.severity[c] # Missing /\ t.severity[c] < Thresholds[c]
<1>1. c \in Category /\ Thresholds[c] \in 0..7
  BY ThresholdsAreSeverities
<1>2. Severity(t, c) \in 0..7 /\ ~ (Severity(t, c) >= Thresholds[c])
  BY <1>1 DEF ContentBlocked, Threshold, IsText, Severity, Missing
<1>3. t.severity[c] # Missing
  BY <1>1, <1>2 DEF Severity
<1> QED
  BY <1>1, <1>2, <1>3 DEF Severity

-----------------------------------------------------------------------------
(***************************************************************************)
(* The ledgers.                                                            *)
(***************************************************************************)
(* The loop that purges a ledger stops at the first entry that has not     *)
(* expired (policy.py 72-73).                                              *)
LEMMA PurgedIsSuffix ==
  ASSUME NEW ledger \in Seq(Reservation)
  PROVE  \E n \in 0..Len(ledger) :
           /\ \A i \in 1..n : Expired(ledger[i].time)
           /\ n < Len(ledger) => ~ Expired(ledger[n + 1].time)
           /\ Purged(ledger) = SubSeq(ledger, n + 1, Len(ledger))
<1> DEFINE Ends(m) == /\ \A i \in 1..m : Expired(ledger[i].time)
                      /\ m < Len(ledger) => ~ Expired(ledger[m + 1].time)
           All(m) == \A i \in 1..m : Expired(ledger[i].time)
           S == {m \in Nat : All(m)}
<1>1. Len(ledger) \in Nat
  OBVIOUS
<1>2. \E m \in 0..Len(ledger) : Ends(m)
  <2> SUFFICES ASSUME \A m \in 0..Len(ledger) : ~ Ends(m) PROVE FALSE
    OBVIOUS
  <2>1. 0 \in S
    OBVIOUS
  <2>2. ASSUME NEW i \in 0..Len(ledger)-1, i \in S PROVE i + 1 \in S
    <3>0. All(i) /\ ~ Ends(i)
      BY <1>1, <2>2
    <3>1. Expired(ledger[i + 1].time)
      BY <3>0
    <3>2. \A j \in 1..i+1 : j \in 1..i \/ j = i + 1
      OBVIOUS
    <3> QED BY <2>2, <3>1, <3>2
  <2>3. 0..Len(ledger) \subseteq S
    <3> HIDE DEF S
    <3> QED BY <1>1, <2>1, <2>2, UpTo
  <2>4. All(Len(ledger))
    BY <1>1, <2>3
  <2> QED BY <1>1, <2>4
<1> DEFINE c == CHOOSE m \in 0..Len(ledger) : Ends(m)
<1>3. c \in 0..Len(ledger) /\ Ends(c)
  <2> HIDE DEF Ends
  <2> QED BY <1>2
<1>4. Purged(ledger) = SubSeq(ledger, c + 1, Len(ledger))
  BY DEF Purged
<1> HIDE DEF c
<1> QED
  BY <1>3, <1>4

(* A purge leaves entries of the ledger (policy.py 72-73).                 *)
LEMMA PurgedType ==
  ASSUME NEW ledger \in Seq(Reservation)
  PROVE  Purged(ledger) \in Seq(Reservation)
<1>1. PICK n \in 0..Len(ledger) : Purged(ledger) = SubSeq(ledger, n + 1, Len(ledger))
  BY PurgedIsSuffix
<1>2. \A i \in n + 1..Len(ledger) : ledger[i] \in Reservation
  BY ElementOfSeq
<1> QED
  BY <1>1, <1>2, SubSeqProperties

BudgetsAreTyped ==
  spend \in [Tenant -> Seq(Reservation)] /\ reserved \in [Tenant -> Seq(Reservation)]

(* A check of the budget purges one ledger and appends to it or does not   *)
(* (policy.py 67-79).                                                      *)
LEMMA CheckedBudgetsAreTyped ==
  ASSUME BudgetsAreTyped, now \in Nat, NEW r, r.tenant \in Tenant, r.text \in Texts,
         Reserve(r) \/ OverBudget(r)
  PROVE  BudgetsAreTyped'
<1>1. Purged(spend[r.tenant]) \in Seq(Reservation)
  BY PurgedType DEF BudgetsAreTyped
<1>2. [time |-> now, cost |-> r.text.cost] \in Reservation
  BY TextsAreTexts DEF IsText, Reservation
<1>3. CASE Reserve(r)
  BY <1>1, <1>2, <1>3 DEF Reserve, BudgetsAreTyped
<1>4. CASE OverBudget(r)
  BY <1>1, <1>4 DEF OverBudget, BudgetsAreTyped
<1> QED
  BY <1>3, <1>4

-----------------------------------------------------------------------------
(***************************************************************************)
(* The ceilings.                                                           *)
(***************************************************************************)
CostsOf(ledger) == [i \in DOMAIN ledger |-> ledger[i].cost]
WindowOf(ledger, x) == {i \in DOMAIN ledger : x - Window < ledger[i].time /\ ledger[i].time <= x}
SpentIn(ledger, x) == SumFunctionOnSet(CostsOf(ledger), WindowOf(ledger, x))

(* The ledger is what is left of the reservations when some that have      *)
(* expired are gone from its front, and no window has cost more than the   *)
(* ceiling.                                                                *)
LedgerIsSound(t) ==
  /\ \A i \in DOMAIN reserved[t] : reserved[t][i].time <= now
  /\ \E n \in 0..Len(reserved[t]) :
       /\ \A i \in 1..n : Expired(reserved[t][i].time)
       /\ spend[t] = SubSeq(reserved[t], n + 1, Len(reserved[t]))
  /\ \A x \in 0..now : SpentIn(reserved[t], x) <= CeilingOf(t)

LedgersAreSound == \A t \in Tenant : LedgerIsSound(t)

(* A set of positions of a ledger costs no more than a larger one          *)
(* (policy.py 74).                                                         *)
LEMMA CostsGrow ==
  ASSUME NEW ledger \in Seq(Reservation), NEW S \in SUBSET DOMAIN ledger, NEW T \in SUBSET S
  PROVE  /\ SumFunctionOnSet(CostsOf(ledger), S) \in Nat /\ SumFunctionOnSet(CostsOf(ledger), T) \in Nat
         /\ SumFunctionOnSet(CostsOf(ledger), T) <= SumFunctionOnSet(CostsOf(ledger), S)
<1>1. DOMAIN ledger = 1..Len(ledger) /\ Len(ledger) \in Nat
  OBVIOUS
<1>2. IsFiniteSet(DOMAIN ledger)
  BY <1>1, FS_Interval
<1>3. IsFiniteSet(S)
  BY <1>2, FS_Subset
<1>4. \A i \in DOMAIN ledger : CostsOf(ledger)[i] \in Nat
  <2>1. \A i \in DOMAIN ledger : ledger[i] \in Reservation
    BY <1>1, ElementOfSeq
  <2> QED BY <2>1 DEF CostsOf, Reservation
<1>5. \A i \in S : CostsOf(ledger)[i] \in Nat
  BY <1>4
<1> QED BY <1>3, <1>5, SumMonotone

(* Purging again what was purged leaves a suffix of the reservations, and  *)
(* what is gone has expired (policy.py 72-73).                             *)
LEMMA PurgedAgain ==
  ASSUME NEW past \in Seq(Reservation), NEW n \in 0..Len(past),
         \A i \in 1..n : Expired(past[i].time)
  PROVE  \E m \in 0..Len(past) :
           /\ \A i \in 1..m : Expired(past[i].time)
           /\ Purged(SubSeq(past, n + 1, Len(past))) = SubSeq(past, m + 1, Len(past))
<1> DEFINE ledger == SubSeq(past, n + 1, Len(past))
<1>1. /\ ledger \in Seq(Reservation) /\ Len(ledger) = Len(past) - n
      /\ \A i \in 1..Len(past) - n : ledger[i] = past[n + i]
  <2>1. \A i \in n + 1..Len(past) : past[i] \in Reservation
    BY ElementOfSeq
  <2>2. Len(past) \in Nat
    OBVIOUS
  <2> QED BY <2>1, <2>2, SubSeqProperties
<1> HIDE DEF ledger
<1>2. PICK k \in 0..Len(ledger) : /\ \A i \in 1..k : Expired(ledger[i].time)
                                  /\ Purged(ledger) = SubSeq(ledger, k + 1, Len(ledger))
  BY <1>1, PurgedIsSuffix
<1>3. ASSUME NEW i \in 1..n + k PROVE Expired(past[i].time)
  <2>1. CASE i <= n
    BY <2>1
  <2>2. CASE i > n
    <3>1. i - n \in 1..k /\ i - n \in 1..Len(past) - n /\ n + (i - n) = i
      BY <1>1, <2>2
    <3>2. ledger[i - n] = past[i]
      BY <1>1, <3>1
    <3> QED BY <1>2, <3>1, <3>2
  <2> QED BY <2>1, <2>2
<1>4. SubSeq(ledger, k + 1, Len(ledger)) = SubSeq(past, n + k + 1, Len(past))
  <2>1. Len(past) \in Nat /\ n + k \in 0..Len(past)
    BY <1>1
  <2>2. SubSeq(ledger, k + 1, Len(ledger)) = [i \in 1..Len(past) - n - k |-> ledger[k + i]]
    BY <1>1, <2>1
  <2>3. SubSeq(past, n + k + 1, Len(past)) = [i \in 1..Len(past) - n - k |-> past[n + k + i]]
    BY <2>1
  <2>4. \A i \in 1..Len(past) - n - k : ledger[k + i] = past[n + k + i]
    BY <1>1, <2>1
  <2> QED BY <2>2, <2>3, <2>4
<1>5. n + k \in 0..Len(past)
  BY <1>1
<1> QED BY <1>2, <1>3, <1>4, <1>5 DEF ledger

(* The total of a suffix is the sum of its costs where they stand in the   *)
(* whole (policy.py 74).                                                   *)
LEMMA TotalOfSuffix ==
  ASSUME NEW past \in Seq(Reservation), NEW m \in 0..Len(past)
  PROVE  Total(SubSeq(past, m + 1, Len(past))) = SumFunctionOnSet(CostsOf(past), m + 1..Len(past))
<1> DEFINE n == Len(past) - m
           ledger == SubSeq(past, m + 1, Len(past))
<1>1. n \in Nat /\ m \in Nat /\ m + n = Len(past)
  OBVIOUS
<1>2. DOMAIN ledger = 1..n /\ \A i \in 1..n : ledger[i] = past[m + i] /\ m + i \in DOMAIN past
  OBVIOUS
<1>3. \A i \in 1..n : CostsOf(ledger)[i] = CostsOf(past)[m + i] /\ CostsOf(ledger)[i] \in Int
  <2>1. \A i \in DOMAIN past : past[i] \in Reservation
    BY ElementOfSeq
  <2>2. \A i \in DOMAIN past : past[i].cost \in Int
    BY <2>1 DEF Reservation
  <2> HIDE DEF ledger, n
  <2> QED BY <1>2, <2>2 DEF CostsOf
<1>4. Total(ledger) = SumFunctionOnSet(CostsOf(ledger), 1..n)
  BY <1>2 DEF Total, SumFunction, CostsOf
<1>5. SumFunctionOnSet(CostsOf(ledger), 1..n) = SumFunctionOnSet(CostsOf(past), m + 1..m + n)
  <2>1. PICK f, h : f = CostsOf(ledger) /\ h = CostsOf(past)
    OBVIOUS
  <2>2. \A i \in 1..n : f[i] \in Int /\ f[i] = h[m + i]
    BY <1>3, <2>1
  <2> HIDE DEF n, ledger
  <2>3. SumFunctionOnSet(f, 1..n) = SumFunctionOnSet(h, m + 1..m + n)
    BY <1>1, <2>2, SumShift
  <2> QED BY <2>1, <2>3
<1> QED BY <1>1, <1>4, <1>5

(* One more reservation, now, on top of all that has not expired           *)
(* (policy.py 74-79).                                                      *)
LEMMA ReservationFits ==
  ASSUME NEW past \in Seq(Reservation), NEW m \in 0..Len(past), NEW entry \in Reservation,
         now \in Nat, entry.time = now,
         \A i \in 1..m : Expired(past[i].time),
         NEW c \in Nat,
         Total(SubSeq(past, m + 1, Len(past))) + entry.cost <= c,
         \A x \in 0..now : SpentIn(past, x) <= c,
         NEW x \in 0..now
  PROVE  SpentIn(Append(past, entry), x) <= c
<1> DEFINE more == Append(past, entry)
           n == Len(past)
<1>1. /\ more \in Seq(Reservation) /\ Len(more) = n + 1 /\ more[n + 1] = entry /\ n \in Nat
      /\ DOMAIN more = 1..n + 1 /\ DOMAIN past = 1..n
      /\ \A i \in 1..n : more[i] = past[i]
  OBVIOUS
<1> HIDE DEF more, n
<1>2. \A i \in 1..n : CostsOf(more)[i] = CostsOf(past)[i]
  BY <1>1 DEF CostsOf
<1>3. CASE x < now
  <2>1. WindowOf(more, x) = WindowOf(past, x)
    BY <1>1, <1>3 DEF WindowOf
  <2>2. IsFiniteSet(WindowOf(past, x)) /\ WindowOf(past, x) \subseteq 1..n
    <3>1. IsFiniteSet(1..n) /\ WindowOf(past, x) \in SUBSET (1..n)
      BY <1>1, FS_Interval DEF WindowOf
    <3> QED BY <3>1, FS_Subset
  <2>3. SpentIn(more, x) = SpentIn(past, x)
    BY <1>2, <2>1, <2>2, SumOfSame DEF SpentIn
  <2> QED BY <2>3 DEF more
<1>4. CASE x = now
  <2> DEFINE left == m + 1..n + 1
  <2>1. WindowOf(more, x) \in SUBSET left
    <3>1. ASSUME NEW i \in WindowOf(more, x) PROVE i \in left
      <4>1. i \in 1..n + 1 /\ x - Window < more[i].time
        BY <1>1 DEF WindowOf
      <4>2. i \in 1..m => more[i] = past[i] /\ more[i].time <= x - Window
        BY <1>1, <1>4 DEF Expired, n
      <4>3. i \in 1..m => more[i].time \in Int
        <5>1. more[i] \in Reservation
          BY <1>1, <4>1, ElementOfSeq
        <5> QED BY <5>1 DEF Reservation
      <4>4. i \notin 1..m
        BY <1>4, <4>1, <4>2, <4>3, LimitsArePositive
      <4> QED BY <4>1, <4>4
    <3> QED BY <3>1
  <2>2. left \in SUBSET DOMAIN more /\ n + 1 \in left /\ left \ {n + 1} = m + 1..n
    BY <1>1 DEF n
  <2>3. SpentIn(more, x) \in Nat /\ SpentIn(more, x) <= SumFunctionOnSet(CostsOf(more), left)
    <3> HIDE DEF left
    <3> QED BY <1>1, <2>1, <2>2, CostsGrow DEF SpentIn
  <2>4. SumFunctionOnSet(CostsOf(more), left)
          = CostsOf(more)[n + 1] + SumFunctionOnSet(CostsOf(more), m + 1..n)
    <3>1. IsFiniteSet(left)
      BY <1>1, FS_Interval
    <3>2. \A i \in left : CostsOf(more)[i] \in Int
      <4>1. \A i \in DOMAIN more : more[i] \in Reservation
        BY <1>1, ElementOfSeq
      <4> HIDE DEF left
      <4> QED BY <2>2, <4>1 DEF CostsOf, Reservation
    <3> HIDE DEF left
    <3>3. PICK z : z = n + 1
      OBVIOUS
    <3>4. SumFunctionOnSet(CostsOf(more), left) = CostsOf(more)[z] + SumFunctionOnSet(CostsOf(more), left \ {z})
      BY <2>2, <3>1, <3>2, <3>3, SumRemove
    <3> QED BY <2>2, <3>3, <3>4
  <2>5. SumFunctionOnSet(CostsOf(more), m + 1..n) = SumFunctionOnSet(CostsOf(past), m + 1..n)
    <3>1. IsFiniteSet(m + 1..n) /\ \A i \in m + 1..n : CostsOf(more)[i] = CostsOf(past)[i]
      BY <1>1, <1>2, FS_Interval
    <3> QED BY <3>1, SumOfSame
  <2>6. SumFunctionOnSet(CostsOf(past), m + 1..n) = Total(SubSeq(past, m + 1, Len(past)))
    BY TotalOfSuffix DEF n
  <2>7. CostsOf(more)[n + 1] = entry.cost
    BY <1>1 DEF CostsOf
  <2>8. SumFunctionOnSet(CostsOf(past), m + 1..n) \in Nat /\ entry.cost \in Nat
    <3>1. m + 1..n \in SUBSET DOMAIN past
      BY <1>1
    <3> QED BY <3>1, CostsGrow DEF Reservation
  <2> QED BY <2>3, <2>4, <2>5, <2>6, <2>7, <2>8 DEF more
<1> QED BY <1>3, <1>4

(* A ceiling is an amount (policy.py 61-65).                               *)
LEMMA CeilingType == \A t : CeilingOf(t) \in Nat
BY CeilingsArePositive DEF CeilingOf

(* While time passes nothing is reserved, and the later a window ends, the *)
(* less it has of what was reserved till now.                              *)
LEMMA TimePasses ==
  ASSUME TypeOK, LedgersAreSound, NEW later \in Time, Tick(later)
  PROVE  LedgersAreSound'
<1>1. now' > now /\ now \in Nat /\ now' \in Nat /\ spend' = spend /\ reserved' = reserved
  BY ReadingsAreNaturals DEF Tick, TypeOK
<1> SUFFICES ASSUME NEW t \in Tenant PROVE LedgerIsSound(t)'
  BY DEF LedgersAreSound
<1> DEFINE past == reserved[t]
<1>2. LedgerIsSound(t) /\ past \in Seq(Reservation)
  BY DEF LedgersAreSound, TypeOK
<1>3. \A i \in DOMAIN past : past[i].time \in Nat
  <2>1. \A i \in DOMAIN past : past[i] \in Reservation
    BY <1>2, ElementOfSeq
  <2> QED BY <2>1 DEF Reservation
<1>4. \A i \in DOMAIN past : past[i].time <= now'
  BY <1>1, <1>2, <1>3 DEF LedgerIsSound
<1>5. \E n \in 0..Len(past) :
        /\ \A i \in 1..n : past[i].time <= now' - Window
        /\ spend[t] = SubSeq(past, n + 1, Len(past))
  <2>1. PICK n \in 0..Len(past) : /\ \A i \in 1..n : past[i].time <= now - Window
                                  /\ spend[t] = SubSeq(past, n + 1, Len(past))
    BY <1>2 DEF LedgerIsSound, Expired
  <2>2. ASSUME NEW i \in 1..n PROVE past[i].time <= now' - Window
    <3>1. i \in DOMAIN past
      BY <1>2
    <3> QED BY <1>1, <1>3, <2>1, <3>1, LimitsArePositive
  <2> QED BY <2>1, <2>2
<1>6. ASSUME NEW x \in 0..now' PROVE SpentIn(past, x) <= CeilingOf(t)
  <2>1. CASE x <= now
    BY <1>1, <1>2, <2>1 DEF LedgerIsSound
  <2>2. CASE x > now
    <3>1. WindowOf(past, x) \in SUBSET WindowOf(past, now)
      <4>1. ASSUME NEW i \in WindowOf(past, x) PROVE i \in WindowOf(past, now)
        <5>1. i \in DOMAIN past /\ x - Window < past[i].time
          BY DEF WindowOf
        <5>2. past[i].time <= now
          BY <1>2, <5>1 DEF LedgerIsSound
        <5>3. now - Window < past[i].time
          BY <1>1, <1>3, <2>2, <5>1, LimitsArePositive
        <5> QED BY <5>1, <5>2, <5>3 DEF WindowOf
      <4> QED BY <4>1
    <3>2. WindowOf(past, now) \in SUBSET DOMAIN past
      BY DEF WindowOf
    <3>3. /\ SpentIn(past, x) \in Nat /\ SpentIn(past, now) \in Nat
          /\ SpentIn(past, x) <= SpentIn(past, now)
      BY <1>2, <3>1, <3>2, CostsGrow DEF SpentIn
    <3>4. SpentIn(past, now) <= CeilingOf(t)
      BY <1>1, <1>2 DEF LedgerIsSound
    <3> QED BY <3>3, <3>4, CeilingType
  <2> QED BY <1>1, <2>1, <2>2
<1>7. (\A i \in DOMAIN reserved[t] : reserved[t][i].time <= now)'
  BY <1>1, <1>4
<1>8. (\E n \in 0..Len(reserved[t]) :
         /\ \A i \in 1..n : Expired(reserved[t][i].time)
         /\ spend[t] = SubSeq(reserved[t], n + 1, Len(reserved[t])))'
  BY <1>1, <1>5 DEF Expired
<1>9. (\A x \in 0..now : SpentIn(reserved[t], x) <= CeilingOf(t))'
  BY <1>1, <1>6
<1> QED
  BY <1>7, <1>8, <1>9 DEF LedgerIsSound

(* A purge drops what has expired (policy.py 72-73, 81-86).                *)
LEMMA PurgeIsSound ==
  ASSUME TypeOK, NEW t \in Tenant, LedgerIsSound(t), now' = now,
         spend'[t] = Purged(spend[t]), reserved'[t] = reserved[t]
  PROVE  LedgerIsSound(t)'
<1>1. PICK n \in 0..Len(reserved[t]) :
        /\ \A i \in 1..n : Expired(reserved[t][i].time)
        /\ spend[t] = SubSeq(reserved[t], n + 1, Len(reserved[t]))
  BY DEF LedgerIsSound
<1>2. reserved[t] \in Seq(Reservation)
  BY DEF TypeOK
<1>3. PICK m \in 0..Len(reserved[t]) :
        /\ \A i \in 1..m : Expired(reserved[t][i].time)
        /\ Purged(spend[t]) = SubSeq(reserved[t], m + 1, Len(reserved[t]))
  BY <1>1, <1>2, PurgedAgain
<1>4. (\A i \in DOMAIN reserved[t] : reserved[t][i].time <= now)'
  BY DEF LedgerIsSound
<1>5. (\E k \in 0..Len(reserved[t]) :
         /\ \A i \in 1..k : Expired(reserved[t][i].time)
         /\ spend[t] = SubSeq(reserved[t], k + 1, Len(reserved[t])))'
  BY <1>3 DEF Expired
<1>6. (\A x \in 0..now : SpentIn(reserved[t], x) <= CeilingOf(t))'
  BY DEF LedgerIsSound
<1> QED
  BY <1>4, <1>5, <1>6 DEF LedgerIsSound

(* A reservation is made only if it fits (policy.py 67-79).                *)
LEMMA ReserveIsSound ==
  ASSUME TypeOK, NEW r, r.tenant \in Tenant, r.text \in Texts, LedgerIsSound(r.tenant),
         now' = now, Reserve(r)
  PROVE  LedgerIsSound(r.tenant)'
<1> DEFINE t == r.tenant
           past == reserved[t]
           entry == [time |-> now, cost |-> r.text.cost]
<1>1. past \in Seq(Reservation) /\ entry \in Reservation /\ now \in Nat
  BY TextsAreTexts DEF TypeOK, Reservation, IsText
<1>2. PICK n \in 0..Len(past) : /\ \A i \in 1..n : Expired(past[i].time)
                                /\ spend[t] = SubSeq(past, n + 1, Len(past))
  BY DEF LedgerIsSound
<1>3. PICK m \in 0..Len(past) : /\ \A i \in 1..m : Expired(past[i].time)
                                /\ Purged(spend[t]) = SubSeq(past, m + 1, Len(past))
  BY <1>1, <1>2, PurgedAgain
<1>4. spend'[t] = Append(SubSeq(past, m + 1, Len(past)), entry) /\ reserved'[t] = Append(past, entry)
  BY <1>3 DEF Reserve, TypeOK
<1>5. Total(SubSeq(past, m + 1, Len(past))) + entry.cost <= CeilingOf(t)
  BY <1>3 DEF Reserve, WithinCeiling
<1> HIDE DEF past, entry
<1>6. entry.time = now
  BY DEF entry
<1>7. \A x \in 0..now : SpentIn(past, x) <= CeilingOf(t)
  BY DEF LedgerIsSound, past
<1> DEFINE more == Append(past, entry)
<1>8. \A x \in 0..now : SpentIn(more, x) <= CeilingOf(t)
  BY <1>1, <1>3, <1>5, <1>6, <1>7, CeilingType, ReservationFits
<1>9. Len(more) = Len(past) + 1 /\ DOMAIN more = 1..Len(past) + 1 /\ DOMAIN past = 1..Len(past)
      /\ Len(past) \in Nat /\ more[Len(past) + 1] = entry /\ \A i \in 1..Len(past) : more[i] = past[i]
  BY <1>1
<1>10. \A i \in DOMAIN more : more[i].time <= now
  <2>1. \A i \in DOMAIN past : past[i].time <= now
    BY DEF LedgerIsSound, past
  <2> QED BY <1>1, <1>6, <1>9, <2>1
<1>11. m \in 0..Len(more) /\ \A i \in 1..m : Expired(more[i].time)
  BY <1>3, <1>9
<1>12. Append(SubSeq(past, m + 1, Len(past)), entry) = SubSeq(more, m + 1, Len(more))
  <2> DEFINE left == SubSeq(past, m + 1, Len(past))
             right == SubSeq(more, m + 1, Len(more))
             k == Len(past) - m
  <2>1. /\ left \in Seq(Reservation) /\ Len(left) = k /\ k \in Nat
        /\ \A i \in 1..k : left[i] = past[m + i]
    BY <1>1
  <2>2. more \in Seq(Reservation)
    BY <1>1
  <2> HIDE DEF more
  <2>3. right \in Seq(Reservation) /\ Len(right) = k + 1 /\ \A i \in 1..k + 1 : right[i] = more[m + i]
    BY <1>9, <2>2
  <2> HIDE DEF left, right
  <2>4. \A i \in 1..k : m + i \in 1..Len(past)
    BY <1>9
  <2>5. m + (k + 1) = Len(past) + 1
    BY <1>9
  <2> HIDE DEF k
  <2>6. /\ Append(left, entry) \in Seq(Reservation) /\ Len(Append(left, entry)) = k + 1
        /\ Append(left, entry)[k + 1] = entry /\ \A i \in 1..k : Append(left, entry)[i] = left[i]
    BY <1>1, <2>1, AppendProperties
  <2>7. ASSUME NEW i \in 1..k + 1 PROVE Append(left, entry)[i] = right[i]
    <3>1. CASE i = k + 1
      BY <1>9, <2>3, <2>5, <2>6, <3>1
    <3>2. CASE i # k + 1
      <4>1. i \in 1..k
        BY <2>1, <3>2
      <4> QED BY <1>9, <2>1, <2>3, <2>4, <2>6, <4>1
    <3> QED BY <3>1, <3>2
  <2>8. Append(left, entry) = right
    BY <2>3, <2>6, <2>7, SeqEqual
  <2> QED BY <2>8 DEF left, right
<1>13. reserved'[t] = more /\ spend'[t] = SubSeq(more, m + 1, Len(more))
  BY <1>4, <1>12
<1> HIDE DEF more
<1> QED
  BY <1>8, <1>10, <1>11, <1>13 DEF LedgerIsSound, Expired, SpentIn, WindowOf

-----------------------------------------------------------------------------
(***************************************************************************)
(* The generations.                                                        *)
(***************************************************************************)
(* The locals of a generation before its first attempt, and during one.    *)
Unreserved(k) ==
  attempt[k] = 0 /\ events[k] = <<>> /\ ends[k] = <<>> /\ outcome[k] = "error" /\ answer[k] = "none"

Attempting(k) ==
  /\ attempt[k] > 0 /\ events[k] = <<>> /\ Len(ends[k]) = attempt[k] - 1
  /\ \A i \in 1..Len(ends[k]) : ends[k][i] \in {"timeout", "provider_error"}
  /\ outcome[k] \in {"error", "timeout", "provider_error"} /\ answer[k] = "none"

(* What EventTellsTruth says of a generation that has ended.               *)
Ended(k) ==
  /\ Len(events[k]) = IF attempt[k] > 0 THEN 1 ELSE 0
  /\ \A n \in DOMAIN events[k] :
       LET o == events[k][n]  how == ends[k] IN
       /\ Len(how) = attempt[k]
       /\ o = "success" <=> answer[k] = "result"
       /\ o \in {"pii_blocked", "content_safety_blocked"} <=> how[Len(how)] = "blocked"
       /\ answer[k] \in {"provider_failure", "timed_out"} =>
            /\ Len(how) = MaxAttempts /\ how[MaxAttempts] = o
            /\ \A i \in 1..MaxAttempts : how[i] \in {"timeout", "provider_error"}

(* The request that is sent: masked, and not blocked for what it had.      *)
Guarded(q) == \E r \in Request : ~ PiiBlocked(r.text) /\ q = SanitizedRequest(r)

GenerationIsSound(k) ==
  /\ pc[k] \in {"new", "request_check"} => Unreserved(k)
  /\ pc[k] \in {"provider", "answer_check"} => Attempting(k) /\ ~ ContentBlocked(req[k].text)
  /\ pc[k] \in {"request_check", "provider", "answer_check"} => Guarded(req[k])
  /\ pc[k] = "done" => Ended(k)

IInv == TypeOK /\ \A k \in Task : GenerationIsSound(k)

(* The fields of a guarded request.                                        *)
LEMMA GuardedType ==
  ASSUME NEW q, Guarded(q)
  PROVE  /\ q.tenant \in Tenant /\ q.text \in Texts /\ q # NoRequest
         /\ ~ PiiBlocked(q.text) /\ q.prompt = Sanitized(q.text)
<1>1. PICK r \in Request : ~ PiiBlocked(r.text) /\ q = SanitizedRequest(r)
  BY DEF Guarded
<1>2. DOMAIN q = {"tenant", "model", "text", "prompt"} /\ DOMAIN NoRequest = {"tenant"}
  BY <1>1 DEF SanitizedRequest, NoRequest
<1>3. q # NoRequest
  BY <1>2
<1> QED
  BY <1>1, <1>3 DEF SanitizedRequest, Request

(* A step of one generation leaves the locals of the others.               *)
StepOf(k) ==
  \A d \in Task \ {k} :
    /\ pc'[d] = pc[d] /\ req'[d] = req[d] /\ attempt'[d] = attempt[d] /\ outcome'[d] = outcome[d]
    /\ answer'[d] = answer[d] /\ events'[d] = events[d] /\ ends'[d] = ends[d]

(* Such a step keeps the invariant if it keeps its own generation sound.   *)
LEMMA OthersKeep ==
  ASSUME IInv, NEW k \in Task, StepOf(k), TypeOK', GenerationIsSound(k)'
  PROVE  IInv'
<1>1. ASSUME NEW d \in Task \ {k} PROVE GenerationIsSound(d)'
  <2>1. GenerationIsSound(d)
    BY DEF IInv
  <2> QED
    BY <2>1 DEF StepOf, GenerationIsSound, Unreserved, Attempting, Ended
<1> QED
  BY <1>1 DEF IInv

End == {"timeout", "provider_error", "blocked", "raised", "answered", "cancelled"}

(* An attempt that ended is the last one of the history.                   *)
LEMMA EndsGrow ==
  ASSUME TypeOK, NEW k \in Task, NEW how \in End, AttemptEnded(k, how)
  PROVE  /\ ends' \in [Task -> Seq(End)] /\ \A d \in Task \ {k} : ends'[d] = ends[d]
         /\ Len(ends'[k]) = Len(ends[k]) + 1 /\ Len(ends[k]) \in Nat
         /\ ends'[k][Len(ends[k]) + 1] = how
         /\ \A i \in 1..Len(ends[k]) : ends'[k][i] = ends[k][i]
<1>1. ends \in [Task -> Seq(End)]
  BY DEF TypeOK, End
<1> DEFINE s == ends[k]
<1>2. s \in Seq(End)
  BY <1>1
<1>3. ends' = [ends EXCEPT ![k] = Append(s, how)]
  BY DEF AttemptEnded
<1> HIDE DEF s
<1>4. /\ Append(s, how) \in Seq(End) /\ Len(Append(s, how)) = Len(s) + 1 /\ Len(s) \in Nat
      /\ Append(s, how)[Len(s) + 1] = how
      /\ \A i \in 1..Len(s) : Append(s, how)[i] = s[i]
  BY <1>2
<1>5. ends'[k] = Append(s, how) /\ ends' \in [Task -> Seq(End)]
  BY <1>1, <1>3, <1>4
<1>6. \A d \in Task \ {k} : ends'[d] = ends[d]
  BY <1>1, <1>3
<1> QED
  BY <1>4, <1>5, <1>6 DEF s

(* A call that is turned away before it reserved leaves no event           *)
(* (gateway.py 61-93).                                                     *)
LEMMA RejectIsSound ==
  ASSUME IInv, NEW k \in Task, pc[k] \in {"new", "request_check"},
         NEW a \in Answer, Reject(k, a), BudgetsAreTyped'
  PROVE  IInv'
<1> USE DEF IInv, TypeOK
<1>1. Unreserved(k)
  BY DEF GenerationIsSound
<1>2. StepOf(k)
  BY DEF Reject, Goto, StepOf
<1>3. /\ pc'[k] = "done" /\ UNCHANGED <<now, attempt, outcome, events, ends>>
      /\ req' = [req EXCEPT ![k] = NoRequest]
  BY DEF Reject, Goto
<1>4. \A d \in Task : req'[d] # NoRequest => req'[d] = req[d]
  <2>1. \A d \in Task \ {k} : req'[d] = req[d]
    BY <1>2 DEF StepOf
  <2>2. req'[k] = NoRequest \/ req'[k] = req[k]
    BY <1>3
  <2> QED BY <2>1, <2>2
<1>5. TypeOK'
  <2>1. /\ pc' \in [Task -> {"new", "request_check", "provider", "answer_check", "done"}]
        /\ answer' \in [Task -> Answer]
    BY DEF Reject, Goto
  <2>2. \A d \in Task : req'[d] # NoRequest => req'[d].text \in Texts /\ req'[d].tenant \in Tenant
    BY <1>4
  <2> QED BY <1>3, <2>1, <2>2 DEF BudgetsAreTyped
<1>6. Ended(k)'
  BY <1>1, <1>3 DEF Unreserved, Ended
<1>7. GenerationIsSound(k)'
  BY <1>3, <1>6 DEF GenerationIsSound
<1> QED
  BY <1>2, <1>5, <1>7, OthersKeep

(* A generation that ends during or after an attempt counts one event,     *)
(* which is true if it says what became of that attempt (gateway.py        *)
(* 97-132).                                                                *)
LEMMA FinishIsSound ==
  ASSUME IInv, NEW k \in Task, pc[k] \in {"provider", "answer_check"},
         NEW how \in End, AttemptEnded(k, how),
         NEW o \in Outcome, NEW a \in Answer, Finish(k, o, a),
         o = "success" <=> a = "result",
         o \in {"pii_blocked", "content_safety_blocked"} <=> how = "blocked",
         a \in {"provider_failure", "timed_out"} =>
           attempt[k] = MaxAttempts /\ how = o /\ how \in {"timeout", "provider_error"}
  PROVE  IInv'
<1>0. TypeOK
  BY DEF IInv
<1>1. Attempting(k)
  BY DEF IInv, GenerationIsSound
<1>2. /\ ends' \in [Task -> Seq(End)] /\ \A d \in Task \ {k} : ends'[d] = ends[d]
      /\ Len(ends'[k]) = Len(ends[k]) + 1 /\ Len(ends[k]) \in Nat
      /\ ends'[k][Len(ends[k]) + 1] = how
      /\ \A i \in 1..Len(ends[k]) : ends'[k][i] = ends[k][i]
  BY <1>0, EndsGrow
<1>3. /\ pc'[k] = "done" /\ answer'[k] = a /\ events'[k] = <<o>>
      /\ UNCHANGED <<now, attempt, spend, reserved>>
      /\ req' = [req EXCEPT ![k] = NoRequest]
  BY <1>0, <1>1 DEF TypeOK, Finish, Goto, Event, Attempting, Budget
<1>4. StepOf(k)
  BY <1>0, <1>2 DEF TypeOK, Finish, Goto, Event, StepOf
<1>5. TypeOK'
  <2>1. /\ pc' \in [Task -> {"new", "request_check", "provider", "answer_check", "done"}]
        /\ answer' \in [Task -> Answer] /\ outcome' \in [Task -> Outcome]
        /\ events' \in [Task -> Seq(Outcome)]
    BY <1>0 DEF TypeOK, Finish, Goto, Event
  <2>2. \A d \in Task : req'[d] # NoRequest => req'[d] = req[d]
    <3>1. \A d \in Task \ {k} : req'[d] = req[d]
      BY <1>4 DEF StepOf
    <3>2. req'[k] = NoRequest \/ req'[k] = req[k]
      BY <1>3
    <3> QED BY <3>1, <3>2
  <2>3. \A d \in Task : req'[d] # NoRequest => req'[d].text \in Texts /\ req'[d].tenant \in Tenant
    BY <1>0, <2>2 DEF TypeOK
  <2> QED BY <1>0, <1>2, <1>3, <2>1, <2>3 DEF TypeOK, End
<1>6. attempt[k] \in Nat /\ MaxAttempts \in Nat /\ Len(ends'[k]) = attempt[k]
  BY <1>0, <1>1, <1>2, LimitsArePositive DEF TypeOK, Attempting
<1>7. ends'[k][attempt[k]] = how /\ \A i \in 1..attempt[k]-1 : ends'[k][i] \in {"timeout", "provider_error"}
  BY <1>1, <1>2, <1>6 DEF Attempting
<1>8. Ended(k)'
  <2>1. Len(events'[k]) = 1 /\ attempt'[k] > 0
    BY <1>1, <1>3 DEF Attempting
  <2>2. ASSUME a \in {"provider_failure", "timed_out"}
        PROVE  /\ Len(ends'[k]) = MaxAttempts /\ ends'[k][MaxAttempts] = o
               /\ \A i \in 1..MaxAttempts : ends'[k][i] \in {"timeout", "provider_error"}
    BY <1>6, <1>7, <2>2
  <2>3. ASSUME NEW n \in DOMAIN events'[k]
        PROVE  events'[k][n] = o
    BY <1>3
  <2> QED BY <1>3, <1>6, <1>7, <2>1, <2>2, <2>3 DEF Ended
<1>9. GenerationIsSound(k)'
  BY <1>3, <1>8 DEF GenerationIsSound
<1> QED
  BY <1>4, <1>5, <1>9, OthersKeep


(* The request a generation goes on with, by the model's allowlist and the *)
(* PII guard (gateway.py 61-74).                                           *)
LEMMA BeginIInv ==
  ASSUME IInv, NEW k \in Task, Begin(k)
  PROVE  IInv'
<1>0. TypeOK
  BY DEF IInv
<1>1. PICK r \in Request : RejectModel(k, r) \/ RejectPii(k, r) \/ CheckRequest(k, r)
  BY DEF Begin
<1>2. CASE RejectModel(k, r) \/ RejectPii(k, r)
  <2>1. BudgetsAreTyped'
    BY <1>0, <1>2 DEF RejectModel, RejectPii, Budget, BudgetsAreTyped, TypeOK
  <2>2. PICK a \in {"not_allowed", "pii_blocked"} : Reject(k, a)
    BY <1>2 DEF RejectModel, RejectPii
  <2>3. pc[k] = "new" /\ a \in Answer
    BY <1>2 DEF RejectModel, RejectPii, Answer
  <2> QED
    BY <2>1, <2>2, <2>3, RejectIsSound
<1>3. CASE CheckRequest(k, r)
  <2> DEFINE q == SanitizedRequest(r)
  <2>1. Guarded(q)
    BY <1>3 DEF CheckRequest, Guarded
  <2>2. Unreserved(k)
    BY <1>3 DEF IInv, GenerationIsSound, CheckRequest
  <2> HIDE DEF q
  <2>3. /\ req' = [req EXCEPT ![k] = q] /\ pc' = [pc EXCEPT ![k] = "request_check"]
        /\ UNCHANGED <<now, spend, attempt, outcome, answer, events, ends, reserved>>
    BY <1>3 DEF CheckRequest, Goto, q
  <2>4. StepOf(k)
    BY <1>0, <2>3 DEF TypeOK, StepOf
  <2>5. TypeOK'
    <3>1. pc' \in [Task -> {"new", "request_check", "provider", "answer_check", "done"}]
      BY <1>0, <2>3 DEF TypeOK
    <3>2. \A d \in Task : req'[d] # NoRequest => req'[d].text \in Texts /\ req'[d].tenant \in Tenant
      <4>1. \A d \in Task \ {k} : req'[d] = req[d]
        BY <2>4 DEF StepOf
      <4>2. req'[k] = q \/ req'[k] = req[k]
        BY <2>3
      <4> QED BY <1>0, <2>1, <4>1, <4>2, GuardedType DEF TypeOK
    <3> QED BY <1>0, <2>3, <3>1, <3>2 DEF TypeOK
  <2>6. GenerationIsSound(k)'
    <3>1. pc'[k] = "request_check"
      BY <1>0, <2>3 DEF TypeOK
    <3>2. Unreserved(k)'
      BY <2>2, <2>3 DEF Unreserved
    <3>3. req'[k] = q
      BY <1>0, <2>3 DEF TypeOK
    <3> QED BY <2>1, <3>1, <3>2, <3>3 DEF GenerationIsSound, Guarded
  <2> QED
    BY <2>4, <2>5, <2>6, OthersKeep
<1> QED
  BY <1>1, <1>2, <1>3


(* Content safety lets the request through or not, and the budget too      *)
(* (gateway.py 75-96).                                                     *)
LEMMA RequestCheckedIInv ==
  ASSUME IInv, NEW k \in Task, RequestChecked(k)
  PROVE  IInv'
<1>0. TypeOK
  BY DEF IInv
<1>1. pc[k] = "request_check" /\ Guarded(req[k]) /\ Unreserved(k)
  BY DEF IInv, GenerationIsSound, RequestChecked, RejectContent, RejectCost, Start
<1>2. req[k].tenant \in Tenant /\ req[k].text \in Texts /\ now \in Nat /\ BudgetsAreTyped
  BY <1>0, <1>1, GuardedType DEF TypeOK, BudgetsAreTyped
<1>3. CASE RejectContent(k)
  <2>1. BudgetsAreTyped' /\ "content_safety_blocked" \in Answer
    BY <1>2, <1>3 DEF RejectContent, Budget, BudgetsAreTyped, Answer
  <2> QED
    BY <1>1, <1>3, <2>1, RejectIsSound DEF RejectContent
<1>4. CASE RejectCost(k)
  <2>1. BudgetsAreTyped' /\ "over_budget" \in Answer
    BY <1>2, <1>4, CheckedBudgetsAreTyped DEF RejectCost, Answer
  <2> QED
    BY <1>1, <1>4, <2>1, RejectIsSound DEF RejectCost
<1>5. CASE Start(k)
  <2>1. BudgetsAreTyped'
    BY <1>2, <1>5, CheckedBudgetsAreTyped DEF Start
  <2>2. /\ attempt' = [attempt EXCEPT ![k] = 1] /\ pc' = [pc EXCEPT ![k] = "provider"]
        /\ UNCHANGED <<now, req, outcome, answer, events, ends>>
    BY <1>5 DEF Start, Goto
  <2>3. TypeOK'
    BY <1>0, <2>1, <2>2, LimitsArePositive DEF TypeOK, BudgetsAreTyped
  <2>4. StepOf(k)
    BY <1>0, <2>2 DEF TypeOK, StepOf
  <2>5. Attempting(k)'
    BY <1>0, <1>1, <2>2 DEF TypeOK, Unreserved, Attempting
  <2>6. GenerationIsSound(k)'
    BY <1>0, <1>1, <1>5, <2>2, <2>5
       DEF TypeOK, GenerationIsSound, Start, Guarded, ContentBlocked, Threshold, Severity
  <2> QED
    BY <2>3, <2>4, <2>6, OthersKeep
<1> QED
  BY <1>3, <1>4, <1>5 DEF RequestChecked

(* An attempt at the provider: its answer is looked at, it is the last, or *)
(* another one follows (gateway.py 97-126).                                *)
LEMMA ProviderEndsIInv ==
  ASSUME IInv, NEW k \in Task, ProviderEnds(k)
  PROVE  IInv'
<1>0. TypeOK
  BY DEF IInv
<1>1. pc[k] = "provider"
  BY DEF ProviderEnds, CheckAnswer, BlockPii, RaiseOther, Retry, GiveUp
<1>2. Attempting(k) /\ ~ ContentBlocked(req[k].text) /\ Guarded(req[k])
  BY <1>1 DEF IInv, GenerationIsSound
<1>3. CASE CheckAnswer(k)
  <2>1. /\ pc' = [pc EXCEPT ![k] = "answer_check"]
        /\ UNCHANGED <<now, spend, req, attempt, outcome, answer, events, ends, reserved>>
    BY <1>3 DEF CheckAnswer, Goto
  <2>2. TypeOK' /\ StepOf(k) /\ pc'[k] = "answer_check"
    BY <1>0, <2>1 DEF TypeOK, StepOf
  <2>3. Attempting(k)'
    BY <1>2, <2>1 DEF Attempting
  <2>4. ~ ContentBlocked(req[k].text)' /\ Guarded(req[k])'
    BY <1>2, <2>1
  <2>5. GenerationIsSound(k)'
    BY <2>2, <2>3, <2>4 DEF GenerationIsSound
  <2> QED
    BY <2>2, <2>5, OthersKeep
<1>4. CASE BlockPii(k)
  <2>1. "blocked" \in End /\ "pii_blocked" \in Outcome /\ "pii_blocked" \in Answer
    BY DEF End, Outcome, Answer
  <2> QED
    BY <1>1, <1>4, <2>1, FinishIsSound DEF BlockPii
<1>5. CASE RaiseOther(k)
  <2>1. "raised" \in End /\ outcome[k] \in Outcome /\ "error" \in Answer
    BY <1>0 DEF TypeOK, End, Answer
  <2>2. outcome[k] \in {"error", "timeout", "provider_error"}
    BY <1>2 DEF Attempting
  <2> QED
    BY <1>1, <1>5, <2>1, <2>2, FinishIsSound DEF RaiseOther
<1>6. ASSUME NEW o \in {"timeout", "provider_error"}, Retry(k, o) PROVE IInv'
  <2>0. o \in End /\ o \in Outcome /\ AttemptEnded(k, o)
    BY <1>6 DEF Retry, End, Outcome
  <2>1. /\ ends' \in [Task -> Seq(End)] /\ \A d \in Task \ {k} : ends'[d] = ends[d]
        /\ Len(ends'[k]) = Len(ends[k]) + 1 /\ Len(ends[k]) \in Nat
        /\ ends'[k][Len(ends[k]) + 1] = o
        /\ \A i \in 1..Len(ends[k]) : ends'[k][i] = ends[k][i]
    BY <1>0, <2>0, EndsGrow
  <2>2. /\ outcome' = [outcome EXCEPT ![k] = o] /\ attempt' = [attempt EXCEPT ![k] = attempt[k] + 1]
        /\ UNCHANGED <<now, spend, pc, req, answer, events, reserved>>
        /\ attempt[k] # MaxAttempts
    BY <1>6 DEF Retry, LastAttempt
  <2>3. attempt[k] \in 0..MaxAttempts /\ attempt[k] + 1 \in 0..MaxAttempts
    BY <1>0, <2>2, LimitsArePositive DEF TypeOK
  <2>4. TypeOK'
    <3>1. attempt' \in [Task -> 0..MaxAttempts] /\ outcome' \in [Task -> Outcome]
      BY <1>0, <2>0, <2>2, <2>3 DEF TypeOK
    <3> QED BY <1>0, <2>1, <2>2, <3>1 DEF TypeOK, End
  <2>5. StepOf(k)
    BY <1>0, <2>1, <2>2 DEF TypeOK, StepOf
  <2>6. attempt'[k] = attempt[k] + 1 /\ outcome'[k] = o
    BY <1>0, <2>2 DEF TypeOK
  <2>7. Attempting(k)'
    <3>1. Len(ends'[k]) = attempt[k] /\ Len(ends[k]) = attempt[k] - 1
      BY <1>2, <2>1, <2>3 DEF Attempting
    <3>2. ASSUME NEW i \in 1..attempt[k] PROVE ends'[k][i] \in {"timeout", "provider_error"}
      <4>1. CASE i = attempt[k]
        BY <2>1, <2>3, <3>1, <4>1
      <4>2. CASE i # attempt[k]
        <5>1. i \in 1..Len(ends[k])
          BY <2>3, <3>1, <4>2
        <5> QED BY <1>2, <2>1, <5>1 DEF Attempting
      <4> QED BY <4>1, <4>2
    <3>3. attempt'[k] > 0 /\ attempt'[k] - 1 = attempt[k]
      BY <2>3, <2>6
    <3>4. events'[k] = <<>> /\ answer'[k] = "none" /\ outcome'[k] \in {"timeout", "provider_error"}
      BY <1>2, <2>2, <2>6 DEF Attempting
    <3> QED BY <3>1, <3>2, <3>3, <3>4 DEF Attempting
  <2>8. ~ ContentBlocked(req[k].text)' /\ Guarded(req[k])'
    BY <1>2, <2>2
  <2>9. GenerationIsSound(k)'
    BY <1>1, <2>2, <2>7, <2>8 DEF GenerationIsSound
  <2> QED
    BY <2>4, <2>5, <2>9, OthersKeep
<1>7. ASSUME NEW o \in {"timeout", "provider_error"}, GiveUp(k, o) PROVE IInv'
  <2>1. PICK a : a = IF o = "timeout" THEN "timed_out" ELSE "provider_failure"
    OBVIOUS
  <2>2. o \in End /\ o \in Outcome /\ a \in Answer /\ a # "result"
    BY <2>1 DEF End, Outcome, Answer
  <2>3. AttemptEnded(k, o) /\ Finish(k, o, a) /\ attempt[k] = MaxAttempts
    BY <1>7, <2>1 DEF GiveUp, LastAttempt
  <2> QED
    BY <1>1, <2>2, <2>3, FinishIsSound
<1> QED
  BY <1>3, <1>4, <1>5, <1>6, <1>7 DEF ProviderEnds

(* The answer is returned or blocked (gateway.py 127-132).                 *)
LEMMA AnswerCheckedIInv ==
  ASSUME IInv, NEW k \in Task, AnswerChecked(k)
  PROVE  IInv'
<1>1. CASE Answered(k)
  <2>1. "answered" \in End /\ "success" \in Outcome /\ "result" \in Answer
    BY DEF End, Outcome, Answer
  <2> QED
    BY <1>1, <2>1, FinishIsSound DEF Answered
<1>2. CASE BlockContent(k)
  <2>1. "blocked" \in End /\ "content_safety_blocked" \in Outcome /\ "content_safety_blocked" \in Answer
    BY DEF End, Outcome, Answer
  <2> QED
    BY <1>2, <2>1, FinishIsSound DEF BlockContent
<1> QED
  BY <1>1, <1>2 DEF AnswerChecked

(* A cancelled call that had reserved counts the outcome it had so far.    *)
LEMMA CancelIInv ==
  ASSUME IInv, NEW k \in Task, Cancel(k)
  PROVE  IInv'
<1>0. TypeOK
  BY DEF IInv
<1>1. CASE pc[k] = "request_check"
  <2>1. Reject(k, "cancelled") /\ UNCHANGED Budget
    BY <1>1 DEF Cancel
  <2>2. BudgetsAreTyped' /\ "cancelled" \in Answer
    BY <1>0, <2>1 DEF Budget, BudgetsAreTyped, Answer, TypeOK
  <2> QED
    BY <1>1, <2>1, <2>2, RejectIsSound
<1>2. CASE pc[k] \in {"provider", "answer_check"}
  <2>1. AttemptEnded(k, "cancelled") /\ Finish(k, outcome[k], "cancelled")
    BY <1>2 DEF Cancel
  <2>2. "cancelled" \in End /\ outcome[k] \in Outcome /\ "cancelled" \in Answer
    BY <1>0 DEF TypeOK, End, Answer
  <2>3. outcome[k] \in {"error", "timeout", "provider_error"}
    BY <1>2 DEF IInv, GenerationIsSound, Attempting
  <2> QED
    BY <1>2, <2>1, <2>2, <2>3, FinishIsSound
<1> QED
  BY <1>1, <1>2 DEF Cancel


(* No generation has begun.                                                *)
LEMMA InitIInv == Init => IInv
<1> SUFFICES ASSUME Init PROVE IInv
  OBVIOUS
<1>1. TypeOK
  BY LimitsArePositive DEF Init, TypeOK, Outcome, Answer
<1>2. ASSUME NEW k \in Task PROVE GenerationIsSound(k)
  BY DEF Init, GenerationIsSound, Unreserved
<1> QED
  BY <1>1, <1>2 DEF IInv

(* Every step keeps the invariant.                                         *)
LEMMA NextIInv == IInv /\ [Next]_vars => IInv'
<1> SUFFICES ASSUME IInv, [Next]_vars PROVE IInv'
  OBVIOUS
<1>0. TypeOK
  BY DEF IInv
<1>1. ASSUME NEW k \in Task,
             Begin(k) \/ RequestChecked(k) \/ ProviderEnds(k) \/ AnswerChecked(k) \/ Cancel(k)
      PROVE  IInv'
  BY <1>1, BeginIInv, RequestCheckedIInv, ProviderEndsIInv, AnswerCheckedIInv, CancelIInv
<1>2. ASSUME TypeOK', UNCHANGED <<pc, req, attempt, outcome, answer, events, ends>>
      PROVE  IInv'
  <2>1. ASSUME NEW k \in Task PROVE GenerationIsSound(k)'
    <3>1. GenerationIsSound(k)
      BY DEF IInv
    <3> QED
      BY <1>2, <3>1 DEF GenerationIsSound, Unreserved, Attempting, Ended
  <2> QED
    BY <1>2, <2>1 DEF IInv
<1>3. ASSUME NEW t \in Tenant, spent_gbp(t) PROVE IInv'
  <2>1. Purged(spend[t]) \in Seq(Reservation)
    BY <1>0, PurgedType DEF TypeOK
  <2>2. TypeOK'
    BY <1>0, <1>3, <2>1 DEF TypeOK, spent_gbp
  <2> QED
    BY <1>2, <1>3, <2>2 DEF spent_gbp
<1>4. ASSUME NEW later \in Time, Tick(later) PROVE IInv'
  <2>1. TypeOK'
    BY <1>0, <1>4, ReadingsAreNaturals DEF TypeOK, Tick
  <2> QED
    BY <1>2, <1>4, <2>1 DEF Tick
<1>5. CASE UNCHANGED vars
  <2>1. TypeOK'
    BY <1>0, <1>5 DEF TypeOK, vars
  <2> QED
    BY <1>2, <1>5, <2>1 DEF vars
<1> QED
  BY <1>1, <1>3, <1>4, <1>5 DEF Next

(* A check of the budget keeps every ledger sound (policy.py 67-79).       *)
LEMMA CheckIsSound ==
  ASSUME TypeOK, LedgersAreSound, NEW r, r.tenant \in Tenant, r.text \in Texts, now' = now,
         Reserve(r) \/ OverBudget(r)
  PROVE  LedgersAreSound'
<1>1. \A t \in Tenant : t # r.tenant => spend'[t] = spend[t] /\ reserved'[t] = reserved[t]
  BY DEF TypeOK, Reserve, OverBudget
<1>2. OverBudget(r) => spend'[r.tenant] = Purged(spend[r.tenant]) /\ reserved'[r.tenant] = reserved[r.tenant]
  BY DEF TypeOK, OverBudget
<1>3. ASSUME NEW t \in Tenant PROVE LedgerIsSound(t)'
  <2>1. LedgerIsSound(t)
    BY DEF LedgersAreSound
  <2>2. CASE t # r.tenant
    BY <1>1, <2>1, <2>2 DEF LedgerIsSound, Expired, SpentIn, WindowOf
  <2>3. CASE t = r.tenant
    BY <1>2, <2>1, <2>3, ReserveIsSound, PurgeIsSound
  <2> QED BY <2>2, <2>3
<1> QED BY <1>3 DEF LedgersAreSound

(* Every step keeps the ledgers sound.                                     *)
LEMMA NextLedgers == IInv /\ LedgersAreSound /\ [Next]_vars => LedgersAreSound'
<1> SUFFICES ASSUME IInv, LedgersAreSound, [Next]_vars PROVE LedgersAreSound'
  OBVIOUS
<1>0. TypeOK
  BY DEF IInv
<1>1. ASSUME UNCHANGED <<now, Budget>> PROVE LedgersAreSound'
  BY <1>1 DEF Budget, LedgersAreSound, LedgerIsSound, Expired, SpentIn, WindowOf
<1>2. ASSUME NEW k \in Task, Begin(k) PROVE LedgersAreSound'
  BY <1>1, <1>2 DEF Begin, RejectModel, RejectPii, CheckRequest, Reject, Budget
<1>3. ASSUME NEW k \in Task, RequestChecked(k) PROVE LedgersAreSound'
  <2>1. pc[k] = "request_check" /\ Guarded(req[k])
    BY <1>3 DEF IInv, GenerationIsSound, RequestChecked, RejectContent, RejectCost, Start
  <2>2. req[k].tenant \in Tenant /\ req[k].text \in Texts
    BY <2>1, GuardedType
  <2>3. CASE RejectContent(k)
    BY <1>1, <2>3 DEF RejectContent, Reject
  <2>4. CASE RejectCost(k) \/ Start(k)
    <3>1. now' = now /\ (Reserve(req[k]) \/ OverBudget(req[k]))
      BY <2>4 DEF RejectCost, Start, Reject
    <3> QED BY <1>0, <2>2, <3>1, CheckIsSound
  <2> QED BY <1>3, <2>3, <2>4 DEF RequestChecked
<1>4. ASSUME NEW k \in Task, ProviderEnds(k) \/ AnswerChecked(k) PROVE LedgersAreSound'
  BY <1>1, <1>4
     DEF ProviderEnds, CheckAnswer, BlockPii, RaiseOther, Retry, GiveUp, AnswerChecked, Answered,
         BlockContent, Finish, Budget
<1>5. ASSUME NEW k \in Task, Cancel(k) PROVE LedgersAreSound'
  BY <1>1, <1>5 DEF Cancel, Reject, Finish, Budget
<1>6. ASSUME NEW t \in Tenant, spent_gbp(t) PROVE LedgersAreSound'
  <2>1. /\ now' = now /\ reserved' = reserved /\ spend'[t] = Purged(spend[t])
        /\ \A u \in Tenant \ {t} : spend'[u] = spend[u]
    BY <1>0, <1>6 DEF TypeOK, spent_gbp
  <2>2. ASSUME NEW u \in Tenant PROVE LedgerIsSound(u)'
    <3>1. LedgerIsSound(u)
      BY DEF LedgersAreSound
    <3>2. CASE u = t
      BY <1>0, <2>1, <3>1, <3>2, PurgeIsSound
    <3>3. CASE u # t
      BY <2>1, <3>1, <3>3 DEF LedgerIsSound, Expired, SpentIn, WindowOf
    <3> QED BY <3>2, <3>3
  <2> QED BY <2>2 DEF LedgersAreSound
<1>7. ASSUME NEW later \in Time, Tick(later) PROVE LedgersAreSound'
  BY <1>0, <1>7, TimePasses
<1>8. CASE UNCHANGED vars
  BY <1>1, <1>8 DEF vars, Budget
<1> QED
  BY <1>2, <1>3, <1>4, <1>5, <1>6, <1>7, <1>8 DEF Next

-----------------------------------------------------------------------------
(* The inductive invariant holds in every behaviour of the gateway.        *)
THEOREM Invariance == Spec => []IInv
BY InitIInv, NextIInv, PTL DEF Spec

(* The locals of every generation, the ledgers and the counters keep their *)
(* types, and a ledger only ever has reservations (gateway.py 57-132,      *)
(* policy.py 56-79).                                                       *)
THEOREM TypeCorrect == Spec => []TypeOK
<1>1. IInv => TypeOK
  BY DEF IInv
<1> QED
  BY <1>1, Invariance, PTL

(* Telemetry counts every generation that reserved once, and as what it    *)
(* was, however many attempts it took and wherever it was cancelled        *)
(* (gateway.py 97-132).                                                    *)
THEOREM EventsAreTrue == Spec => []EventTellsTruth
<1>1. IInv => EventTellsTruth
  <2> SUFFICES ASSUME IInv, NEW k \in Task
               PROVE  /\ Len(events[k]) = IF pc[k] = "done" /\ attempt[k] > 0 THEN 1 ELSE 0
                      /\ pc[k] # "done" => events[k] = <<>>
                      /\ pc[k] = "done" => Ended(k)
    BY DEF EventTellsTruth, Ended
  <2>1. CASE pc[k] = "done"
    BY <2>1 DEF IInv, GenerationIsSound, Ended
  <2>2. CASE pc[k] # "done"
    <3>1. pc[k] \in {"new", "request_check", "provider", "answer_check"}
      BY <2>2 DEF IInv, TypeOK
    <3>2. events[k] = <<>>
      BY <3>1 DEF IInv, GenerationIsSound, Unreserved, Attempting
    <3> QED BY <2>2, <3>2
  <2> QED
    BY <2>1, <2>2
<1> QED
  BY <1>1, Invariance, PTL

(* What a provider is sent is the request without the findings that are    *)
(* masked, and had neither a blocked entity nor a category at its          *)
(* threshold (gateway.py 69-78, pii.py 93-117).                            *)
THEOREM PromptsAreScreened == Spec => []PromptIsScreened
<1>1. IInv => PromptIsScreened
  <2> SUFFICES ASSUME IInv, NEW k \in Task, pc[k] \in {"provider", "answer_check"}
               PROVE  LET t == req[k].text  sent == req[k].prompt IN
                      /\ \A f \in t.findings :
                           /\ f.type \notin BlockEntities
                           /\ f.start \notin sent
                           /\ \A p \in Span(f) \cap sent :
                                \E g \in t.findings :
                                  Before(g, f) /\ g.end > f.start /\ g.end <= p /\ Span(g) \cap sent = {}
                      /\ sent \cup UNION {Span(f) : f \in t.findings} = 0..t.length-1
                      /\ \A c \in DOMAIN Thresholds :
                           t.severity[c] # Missing /\ t.severity[c] < Thresholds[c]
    BY DEF PromptIsScreened
  <2>1. Guarded(req[k]) /\ ~ ContentBlocked(req[k].text)
    BY DEF IInv, GenerationIsSound
  <2>2. PICK t : t = req[k].text
    OBVIOUS
  <2>3. IsText(t) /\ ~ PiiBlocked(t) /\ ~ ContentBlocked(t) /\ req[k].prompt = Sanitized(t)
    BY <2>1, <2>2, GuardedType, TextsAreTexts
  <2>4. \A f \in t.findings : f.type \notin BlockEntities
    BY <2>3 DEF PiiBlocked
  <2>5. \A c \in DOMAIN Thresholds : t.severity[c] # Missing /\ t.severity[c] < Thresholds[c]
    BY <2>3, UnblockedIsBelow
  <2> QED
    BY <2>2, <2>3, <2>4, <2>5, SanitizedIsMasked
<1> QED
  BY <1>1, Invariance, PTL

(* "fail closed once a ceiling is reached" (policy.py 27): for any number  *)
(* of generations in progress at the same time, and wherever a window      *)
(* starts, a tenant's reservations in it cost no more than its ceiling     *)
(* (67-79).                                                                *)
THEOREM CeilingsHold == Spec => []CeilingHolds
<1>1. Init => LedgersAreSound
  <2> SUFFICES ASSUME Init, NEW t \in Tenant PROVE LedgerIsSound(t)
    BY DEF LedgersAreSound
  <2>1. reserved[t] = <<>> /\ spend[t] = <<>> /\ now = 0
    BY DEF Init
  <2>2. SpentIn(<<>>, 0) = 0
    <3>1. WindowOf(<<>>, 0) = {}
      BY DEF WindowOf
    <3>2. SumFunctionOnSet(CostsOf(<<>>), {}) = 0
      BY SumOfNone
    <3> QED BY <3>1, <3>2 DEF SpentIn
  <2>3. SubSeq(<<>>, 1, 0) = <<>> /\ Len(<<>>) = 0 /\ DOMAIN <<>> = {}
    OBVIOUS
  <2> QED
    BY <2>1, <2>2, <2>3, CeilingType DEF LedgerIsSound
<1>2. LedgersAreSound => CeilingHolds
  BY DEF LedgersAreSound, LedgerIsSound, CeilingHolds, SpentIn, CostsOf, WindowOf, ReservedIn
<1> QED
  BY <1>1, <1>2, NextLedgers, Invariance, PTL DEF Spec

-----------------------------------------------------------------------------
(***************************************************************************)
(* How far a generation is from its end.                                   *)
(***************************************************************************)
Distance(step, n) ==
  CASE step = "new"           -> MaxAttempts + 3
    [] step = "request_check" -> MaxAttempts + 2
    [] step = "provider"      -> MaxAttempts - n + 2
    [] step = "answer_check"  -> 1
    [] OTHER                  -> 0

ToGo(k) == Distance(pc[k], attempt[k])

(* No step takes a generation away from its end, an answer or an event     *)
(* back; what its timeouts and its caller may do to it brings it nearer.   *)
Advances(k) ==
  /\ ToGo(k)' <= ToGo(k)
  /\ Begin(k) \/ Timed(k) \/ Cancel(k) => ToGo(k)' < ToGo(k)
  /\ pc[k] = "done" => answer'[k] = answer[k] /\ events'[k] = events[k]

GenerationsAdvance == [][\A k \in Task : Advances(k)]_vars

(* A generation has an end ahead of it until it is there.                  *)
LEMMA DistanceType ==
  ASSUME NEW step \in {"new", "request_check", "provider", "answer_check", "done"},
         NEW n \in 0..MaxAttempts
  PROVE  Distance(step, n) \in Nat /\ (Distance(step, n) = 0 <=> step = "done")
BY LimitsArePositive DEF Distance

(* A generation's own step, whichever it is (gateway.py 57-132).           *)
LEMMA OwnStep ==
  ASSUME IInv, NEW k \in Task, Begin(k) \/ Timed(k) \/ Cancel(k)
  PROVE  ToGo(k)' < ToGo(k) /\ StepOf(k) /\ pc[k] # "done"
<1>1. TypeOK /\ GenerationIsSound(k) /\ MaxAttempts \in Nat \ {0} /\ attempt[k] \in 0..MaxAttempts
  BY LimitsArePositive DEF IInv, TypeOK
<1>2. ASSUME pc[k] # "done", pc'[k] = "done", StepOf(k) PROVE ToGo(k)' < ToGo(k) /\ StepOf(k)
  <2>1. ToGo(k)' = 0
    BY <1>2 DEF ToGo, Distance
  <2>2. ToGo(k) \in Nat \ {0}
    BY <1>1, <1>2, DistanceType DEF TypeOK, ToGo
  <2> QED
    BY <1>2, <2>1, <2>2
<1>3. ASSUME NEW a, Reject(k, a) PROVE pc'[k] = "done" /\ StepOf(k)
  BY <1>1, <1>3 DEF TypeOK, Reject, Goto, StepOf
<1>4. ASSUME NEW o, NEW a, NEW how \in End, AttemptEnded(k, how), Finish(k, o, a)
      PROVE  pc'[k] = "done" /\ StepOf(k)
  <2>1. \A d \in Task \ {k} : ends'[d] = ends[d]
    BY <1>1, <1>4, EndsGrow
  <2> QED
    BY <1>1, <1>4, <2>1 DEF TypeOK, Finish, Goto, Event, StepOf
<1>5. CASE Begin(k)
  <2>1. PICK r \in Request : RejectModel(k, r) \/ RejectPii(k, r) \/ CheckRequest(k, r)
    BY <1>5 DEF Begin
  <2>2. CASE RejectModel(k, r) \/ RejectPii(k, r)
    BY <1>2, <1>3, <2>2 DEF RejectModel, RejectPii
  <2>3. CASE CheckRequest(k, r)
    <3>1. pc[k] = "new" /\ pc'[k] = "request_check" /\ StepOf(k)
      BY <1>1, <2>3 DEF TypeOK, CheckRequest, Goto, StepOf
    <3> QED
      BY <1>1, <3>1 DEF ToGo, Distance
  <2> QED
    BY <2>1, <2>2, <2>3
<1>6. CASE RequestChecked(k)
  <2>1. CASE RejectContent(k) \/ RejectCost(k)
    BY <1>2, <1>3, <2>1 DEF RejectContent, RejectCost
  <2>2. CASE Start(k)
    <3>1. pc[k] = "request_check" /\ pc'[k] = "provider" /\ attempt'[k] = 1 /\ StepOf(k)
      BY <1>1, <2>2 DEF TypeOK, Start, Goto, StepOf
    <3> QED
      BY <1>1, <3>1 DEF ToGo, Distance
  <2> QED
    BY <1>6, <2>1, <2>2 DEF RequestChecked
<1>7. CASE ProviderEnds(k)
  <2>1. CASE CheckAnswer(k)
    <3>1. pc[k] = "provider" /\ pc'[k] = "answer_check" /\ StepOf(k)
      BY <1>1, <2>1 DEF TypeOK, CheckAnswer, Goto, StepOf
    <3> QED
      BY <1>1, <3>1 DEF ToGo, Distance
  <2>2. CASE BlockPii(k) \/ RaiseOther(k)
    BY <1>2, <1>4, <2>2 DEF BlockPii, RaiseOther, End
  <2>3. ASSUME NEW o \in {"timeout", "provider_error"}, Retry(k, o)
        PROVE  ToGo(k)' < ToGo(k) /\ StepOf(k) /\ pc[k] # "done"
    <3>1. AttemptEnded(k, o) /\ o \in End
      BY <2>3 DEF Retry, End
    <3>2. \A d \in Task \ {k} : ends'[d] = ends[d]
      BY <1>1, <3>1, EndsGrow
    <3>3. /\ pc[k] = "provider" /\ pc'[k] = "provider" /\ attempt[k] # MaxAttempts
          /\ attempt'[k] = attempt[k] + 1 /\ StepOf(k)
      BY <1>1, <2>3, <3>2 DEF TypeOK, Retry, LastAttempt, StepOf
    <3> QED
      BY <1>1, <3>3 DEF ToGo, Distance
  <2>4. ASSUME NEW o \in {"timeout", "provider_error"}, GiveUp(k, o)
        PROVE  ToGo(k)' < ToGo(k) /\ StepOf(k) /\ pc[k] # "done"
    BY <1>2, <1>4, <2>4 DEF GiveUp, End
  <2> QED
    BY <1>7, <2>1, <2>2, <2>3, <2>4 DEF ProviderEnds, BlockPii, RaiseOther
<1>8. CASE AnswerChecked(k)
  BY <1>2, <1>4, <1>8 DEF AnswerChecked, Answered, BlockContent, End
<1>9. CASE Cancel(k)
  BY <1>2, <1>3, <1>4, <1>9 DEF Cancel, End
<1> QED
  BY <1>5, <1>6, <1>7, <1>8, <1>9 DEF Timed

(* A generation needs at most MaxAttempts + 3 steps of its own, and        *)
(* neither other generations nor the clock or the ledger put its end off;  *)
(* once it has ended its answer and its event stay (gateway.py 57-132).    *)
(* What is left of EveryGenerationEnds is that its timeouts run out.       *)
THEOREM GenerationsOnlyAdvance == Spec => GenerationsAdvance
<1>1. ASSUME IInv, [Next]_vars, NEW k \in Task PROVE Advances(k)
  <2>1. CASE Begin(k) \/ Timed(k) \/ Cancel(k)
    <3>1. TypeOK /\ TypeOK'
      BY <1>1, NextIInv DEF IInv
    <3>2. ToGo(k) \in Nat /\ ToGo(k)' \in Nat
      BY <3>1, DistanceType DEF TypeOK, ToGo
    <3>3. ToGo(k)' < ToGo(k) /\ pc[k] # "done"
      BY <1>1, <2>1, OwnStep
    <3> QED
      BY <3>2, <3>3 DEF Advances
  <2>2. CASE ~ (Begin(k) \/ Timed(k) \/ Cancel(k))
    <3>1. /\ pc'[k] = pc[k] /\ attempt'[k] = attempt[k]
          /\ answer'[k] = answer[k] /\ events'[k] = events[k]
      <4>1. ASSUME NEW d \in Task, Begin(d) \/ Timed(d) \/ Cancel(d)
            PROVE  /\ pc'[k] = pc[k] /\ attempt'[k] = attempt[k]
                   /\ answer'[k] = answer[k] /\ events'[k] = events[k]
        <5>1. d # k
          BY <2>2, <4>1
        <5>2. StepOf(d)
          BY <1>1, <4>1, OwnStep
        <5> QED
          BY <5>1, <5>2 DEF StepOf
      <4>2. (\E t \in Tenant : spent_gbp(t)) \/ (\E later \in Time : Tick(later)) \/ UNCHANGED vars
              => UNCHANGED <<pc, attempt, answer, events>>
        BY DEF spent_gbp, Tick, vars
      <4> QED
        BY <1>1, <4>1, <4>2 DEF Next, Timed
    <3>2. ToGo(k)' = ToGo(k) /\ ToGo(k) \in Nat
      BY <1>1, <3>1, DistanceType DEF ToGo, IInv, TypeOK
    <3> QED
      BY <2>2, <3>1, <3>2 DEF Advances
  <2> QED
    BY <2>1, <2>2
<1>2. IInv /\ [Next]_vars => [\A k \in Task : Advances(k)]_vars
  BY <1>1
<1> QED
  BY <1>2, Invariance, PTL DEF GenerationsAdvance, Spec
=============================================================================
