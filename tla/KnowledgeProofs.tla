-------------------------- MODULE KnowledgeProofs --------------------------
(***************************************************************************)
(* Proofs about Knowledge, for every set of releases, roles and callers.   *)
(*                                                                         *)
(* The filter of Azure's index asks the wrong way round: which known roles *)
(* the caller lacks.  That it admits no chunk it should not rests on what  *)
(* the index may hold, so the invariant follows the roles of a chunk from  *)
(* the file it is cut from, through `chunks`, into the index and the hits. *)
(*                                                                         *)
(* That a finished run is complete rests on chunking being a function of   *)
(* the document: only then are the chunks of several runs, written over    *)
(* each other, those of one.                                               *)
(***************************************************************************)
EXTENDS Knowledge, WellFoundedInduction, TLAPS

(* build_role_filter and LocalVectorIndex.search admit the same chunks,    *)
(* provided every role of the chunk is a known one (azure_search.py 95-98, *)
(* index.py 49).                                                           *)
THEOREM FiltersAgree ==
  ASSUME NEW c, RolesAreKnown(c), NEW roles
  PROVE  c.roles \cap (Known \ roles) = {} <=> c.roles \subseteq roles
BY DEF RolesAreKnown

-----------------------------------------------------------------------------
(* The last of a bounded set of positions exists.                          *)
LEMMA LastIsLast ==
  ASSUME NEW S \in SUBSET Nat, NEW p \in S, NEW b \in Nat, \A q \in S : q < b
  PROVE  Last(S) \in S /\ \A q \in S : q <= Last(S)
<1> DEFINE T == {b - q : q \in S}
<1>1. T \subseteq Nat /\ T # {}
  OBVIOUS
<1> HIDE DEF T
<1>2. \E m \in T : \A n \in T : <<n, m>> \notin OpToRel(<, Nat)
  BY <1>1, NatLessThanWellFounded, WFMin
<1>3. PICK m \in T : \A n \in T : <<n, m>> \notin OpToRel(<, Nat)
  BY <1>2
<1>4. \A n \in T : ~ (n < m)
  BY <1>1, <1>3 DEF OpToRel
<1>5. PICK l \in S : m = b - l
  BY DEF T
<1>6. \A q \in S : b - q \in T
  BY DEF T
<1>7. \A q \in S : q <= l
  BY <1>1, <1>4, <1>5, <1>6
<1> QED
  BY <1>7 DEF Last

(* From a start within a text whose windows have no spaces, or some beyond *)
(* the overlap, each turn of chunk_document's loop that is not the last    *)
(* moves on (factory.py 25-50): it cannot run for ever.                    *)
THEOREM ChunkingAdvances ==
  ASSUME NEW d, d.length \in Nat, d.spaces \in SUBSET Nat, Chunkable(d),
         NEW i \in 0..d.length, ChunkEnd(d, i) # d.length
  PROVE  NextStart(d, i) \in Nat /\ NextStart(d, i) > i
<1> USE ChunkingIsValid
<1> DEFINE S == d.spaces \cap Slice(d, i, Cut(d, i))
<1>1. CASE i + ChunkSize < d.length
  <2>1. Cut(d, i) = i + ChunkSize
    BY <1>1 DEF Cut
  <2>2. S = {p \in d.spaces : i <= p /\ p < i + ChunkSize}
    BY <1>1, <2>1 DEF Slice, Bound
  <2>3. CASE S # {} /\ Last(S) > i
    <3>1. PICK p \in S : TRUE
      BY <2>3
    <3>2. Last(S) \in S /\ \A q \in S : q <= Last(S)
      <4> DEFINE b == i + ChunkSize
      <4>1. S \in SUBSET Nat /\ b \in Nat /\ \A q \in S : q < b
        BY <2>2
      <4> HIDE DEF S, b
      <4> QED
        BY <3>1, <4>1, LastIsLast
    <3> DEFINE l == Last(S)
    <3> HIDE DEF l
    <3>3. l \in Nat /\ l \in d.spaces /\ l > i
      BY <2>2, <2>3, <3>2 DEF l
    <3>4. ASSUME NEW q \in i+Overlap+1..i+ChunkSize-1, q \in d.spaces
          PROVE  l > i + Overlap
      BY <2>2, <3>2, <3>3, <3>4 DEF l
    <3>5. ASSUME \A q \in i+1..i+Overlap : q \notin d.spaces
          PROVE  l > i + Overlap
      BY <3>3, <3>5
    <3>6. Last(S) > i + Overlap
      BY <1>1, <3>4, <3>5 DEF Chunkable, l
    <3>7. ChunkEnd(d, i) = Last(S)
      BY <1>1, <2>1, <2>3 DEF ChunkEnd, RFind
    <3> QED
      BY <2>2, <3>2, <3>6, <3>7 DEF NextStart
  <2>4. CASE ~ (S # {} /\ Last(S) > i)
    <3>1. ChunkEnd(d, i) = i + ChunkSize
      BY <2>1, <2>4 DEF ChunkEnd, RFind
    <3> QED
      BY <3>1 DEF NextStart
  <2> QED
    BY <2>3, <2>4
<1>2. CASE ~ (i + ChunkSize < d.length)
  BY <1>2 DEF ChunkEnd, Cut
<1> QED
  BY <1>1, <1>2

-----------------------------------------------------------------------------
ChunksOf(d) == {Chunk(d, positions) : positions \in SUBSET Text(d)}

(* What is being chunked is of one file, with that file's roles.           *)
ChunksAreOfTheFile ==
  /\ chunks \in Seq(ChunksOf(release[file]))
  /\ pc \notin {"chunk", "add"} => chunks = <<>>

(* What Azure's index holds has only roles its filter knows.               *)
IndexIsFilterable ==
  \A k \in Stored :
    /\ index[k].roles = index[k].source.roles
    /\ provider = "azure_search" => RolesAreKnown(index[k])

IInv == ChunksAreOfTheFile /\ IndexIsFilterable /\ AnswersStayInScope

(* Before the process has started nothing is indexed and nothing has been  *)
(* answered.                                                               *)
LEMMA InitIsInvariant == Init => IInv
<1> SUFFICES ASSUME Init PROVE IInv
  OBVIOUS
<1>1. ChunksAreOfTheFile
  BY DEF Init, ChunksAreOfTheFile
<1>2. Stored = {}
  BY DEF Init, Stored
<1> QED
  BY <1>1, <1>2 DEF Init, IInv, IndexIsFilterable, AnswersStayInScope

(* What is written or loaded are chunks of the source file it was read     *)
(* from (rag/factory.py 14-51).                                            *)
LEMMA ChunksStep == IInv /\ [Next]_vars => ChunksAreOfTheFile'
<1> SUFFICES ASSUME IInv, [Next]_vars PROVE ChunksAreOfTheFile'
  OBVIOUS
<1> USE DEF ChunksAreOfTheFile, IInv
<1>1. CASE Start
  BY <1>1 DEF Start, Running
<1>2. CASE Open
  BY <1>2 DEF Open
<1>3. CASE ChunkStep
  <2> DEFINE d == release[file]
             text == Slice(d, start, ChunkEnd(d, start)) \cap Text(d)
  <2>1. text \in SUBSET Text(d)
    OBVIOUS
  <2>2. Chunk(d, text) \in ChunksOf(d)
    BY <2>1 DEF ChunksOf
  <2>3. UNCHANGED <<release, file>> /\ pc' \in {"add", "chunk"}
    BY <1>3 DEF ChunkStep
  <2>4. chunks' \in {chunks, Append(chunks, Chunk(d, text))}
    BY <1>3 DEF ChunkStep
  <2> QED
    BY <2>2, <2>3, <2>4
<1>4. CASE AddLocal
  <2>1. NextFile \/ Leave("aborted")
    BY <1>4 DEF AddLocal
  <2>2. chunks' = <<>>
    BY <2>1 DEF NextFile, Leave, Locals
  <2> QED
    BY <2>2
<1>5. CASE AddAzure
  <2>1. NextFile \/ Leave("aborted")
    BY <1>5 DEF AddAzure
  <2>2. chunks' = <<>>
    BY <2>1 DEF NextFile, Leave, Locals
  <2> QED
    BY <2>2
<1>6. CASE Crash
  BY <1>6 DEF Crash, Leave, Locals
<1>7. CASE \E r \in Releases : Install(r)
  BY <1>7 DEF Install, Leave, Locals
<1>8. ASSUME NEW roles, NEW found, Search(roles, found)
      PROVE  ChunksAreOfTheFile'
  <2>1. UNCHANGED <<release, run>>
    BY <1>8 DEF Search
  <2> QED
    BY <2>1 DEF run
<1>9. ASSUME NEW cited, NEW supported, Answer(cited, supported)
      PROVE  ChunksAreOfTheFile'
  <2>1. UNCHANGED <<release, run>>
    BY <1>9 DEF Answer
  <2> QED
    BY <2>1 DEF run
<1>10. CASE UNCHANGED vars
  BY <1>10 DEF vars, run
<1> QED
  BY <1>1, <1>2, <1>3, <1>4, <1>5, <1>6, <1>7, <1>8, <1>9, <1>10 DEF Next

(* A chunk written to the index comes from the file, and for Azure's index *)
(* its roles passed the test of add.                                       *)
LEMMA WrittenIsOfTheFile ==
  ASSUME ChunksAreOfTheFile, NEW keys \in SUBSET Keys, NEW k \in keys
  PROVE  \E n \in DOMAIN chunks :
           Written(keys)[k] = chunks[n] /\ chunks[n].roles = chunks[n].source.roles
<1> DEFINE n == CHOOSE m \in DOMAIN chunks : Key(release[file], m) = k
<1>1. \E m \in DOMAIN chunks : Key(release[file], m) = k
  BY DEF Keys
<1>2. n \in DOMAIN chunks
  BY <1>1
<1>3. Written(keys)[k] = chunks[n]
  BY DEF Written
<1> HIDE DEF n
<1>4. chunks[n] \in ChunksOf(release[file])
  BY <1>2 DEF ChunksAreOfTheFile
<1>5. chunks[n].roles = chunks[n].source.roles
  BY <1>4 DEF ChunksOf, Chunk
<1> QED
  BY <1>2, <1>3, <1>5

(* A document is written with the roles of its source, and Azure Search    *)
(* gets only roles its filter can name (azure_search.py 174-202, index.py  *)
(* 34-38).                                                                 *)
LEMMA IndexStep == IInv /\ [Next]_vars => IndexIsFilterable'
<1> SUFFICES ASSUME IInv, [Next]_vars PROVE IndexIsFilterable'
  OBVIOUS
<1> USE DEF IInv, IndexIsFilterable
<1>1. CASE UNCHANGED <<index, provider>>
  BY <1>1 DEF Stored, RolesAreKnown
<1>2. CASE Start /\ provider = "local"
  BY <1>2 DEF Start, Stored
<1>3. CASE AddLocal
  <2>1. CASE index' = Written(Keys)
    <3>1. ASSUME NEW k \in Stored' PROVE index'[k].roles = index'[k].source.roles
      <4>1. CASE k \in Keys
        BY <2>1, <4>1, WrittenIsOfTheFile
      <4>2. CASE k \notin Keys
        BY <2>1, <4>2 DEF Written, Stored
      <4> QED BY <4>1, <4>2
    <3> QED
      BY <1>3, <3>1 DEF AddLocal
  <2> QED
    BY <1>1, <1>3, <2>1 DEF AddLocal
<1>4. CASE AddAzure
  <2>1. CASE \A n \in DOMAIN chunks : RolesAreKnown(chunks[n])
    <3>1. PICK keys \in SUBSET Keys : index' = Written(keys)
      BY <1>4, <2>1 DEF AddAzure
    <3>2. ASSUME NEW k \in Stored'
          PROVE  index'[k].roles = index'[k].source.roles /\ RolesAreKnown(index'[k])
      <4>1. CASE k \in keys
        BY <2>1, <3>1, <4>1, WrittenIsOfTheFile
      <4>2. CASE k \notin keys
        BY <1>4, <3>1, <4>2 DEF Written, Stored, AddAzure, RolesAreKnown
      <4> QED BY <4>1, <4>2
    <3> QED
      BY <3>2 DEF RolesAreKnown
  <2> QED
    BY <1>1, <1>4, <2>1 DEF AddAzure
<1> QED
  BY <1>1, <1>2, <1>3, <1>4
     DEF Next, Start, Open, ChunkStep, Crash, Install, Search, Answer, vars

(* A search returns what its filter lets through, whatever a crash or a    *)
(* new index did meanwhile (retrieval.py 14-49).                           *)
LEMMA ScopeStep == IInv /\ [Next]_vars => AnswersStayInScope'
<1> SUFFICES ASSUME IInv, [Next]_vars PROVE AnswersStayInScope'
  OBVIOUS
<1> USE DEF IInv, AnswersStayInScope
<1>1. CASE UNCHANGED search
  BY <1>1 DEF search
<1>2. CASE hits' = {} /\ report' = Absent
  BY <1>2
<1>3. ASSUME NEW roles, NEW found, Search(roles, found)
      PROVE  AnswersStayInScope'
  <2>1. ASSUME NEW k \in found
        PROVE  index[k].roles \subseteq roles /\ index[k].roles = index[k].source.roles
    <3>1. k \in Stored /\ Filter(index[k], roles)
      BY <1>3 DEF Search, Admitted
    <3> QED
      BY <3>1, FiltersAgree DEF Filter, IndexIsFilterable
  <2> QED
    BY <1>3, <2>1 DEF Search
<1>4. ASSUME NEW cited, NEW supported, Answer(cited, supported)
      PROVE  AnswersStayInScope'
  BY <1>4 DEF Answer
<1> QED
  BY <1>1, <1>2, <1>3, <1>4
     DEF Next, Start, Open, ChunkStep, AddLocal, AddAzure, Crash, Install, vars

(* No search, in either index, ever gives a caller a chunk with a role the *)
(* caller lacks, whatever is ingested, interrupted or replaced meanwhile,  *)
(* and a grounded answer cites only chunks its caller was shown            *)
(* (azure_search.py 92-112 and 178-186, groundedness.py 80-101).           *)
THEOREM SearchesStayInScope == Spec => []AnswersStayInScope
<1>1. Init => IInv
  BY InitIsInvariant
<1>2. IInv /\ [Next]_vars => IInv'
  BY ChunksStep, IndexStep, ScopeStep DEF IInv
<1>3. IInv => AnswersStayInScope
  BY DEF IInv
<1> QED
  BY <1>1, <1>2, <1>3, PTL DEF Spec

-----------------------------------------------------------------------------
(* The loop of chunk_document from its first turn on: `starts` and `lists` *)
(* are what `start` and `chunks` were before each of the first n turns.    *)
WindowText(d, i) == Slice(d, i, ChunkEnd(d, i)) \cap Text(d)
Grown(d, i, list) ==
  IF WindowText(d, i) = {} THEN list ELSE Append(list, Chunk(d, WindowText(d, i)))

Turns(d, n, starts, lists) ==
  /\ starts[0] = 0 /\ lists[0] = <<>>
  /\ \A i \in 0..n-1 :
       /\ ChunkEnd(d, starts[i]) # d.length
       /\ starts[i + 1] = NextStart(d, starts[i])
       /\ lists[i + 1] = Grown(d, starts[i], lists[i])

Partial(d, i, list) ==
  \E n \in Nat : \E starts, lists :
    Turns(d, n, starts, lists) /\ starts[n] = i /\ lists[n] = list

(* The chunks of d, when the loop has ended.                               *)
Chunked(d, list) ==
  \E n \in Nat : \E starts, lists :
    /\ Turns(d, n, starts, lists)
    /\ ChunkEnd(d, starts[n]) = d.length
    /\ list = Grown(d, starts[n], lists[n])

(* A set of naturals that has 0 and the successor of each of its members   *)
(* below n has all up to n.                                                *)
LEMMA UpTo ==
  ASSUME NEW n \in Nat, NEW S, 0 \in S, \A i \in 0..n-1 : i \in S => i + 1 \in S
  PROVE  0..n \subseteq S
<1> DEFINE T == (0..n) \ S
<1>1. SUFFICES ASSUME T # {} PROVE FALSE
  OBVIOUS
<1>2. PICK m \in T : \A i \in T : ~ (i < m)
  <2>1. T \subseteq Nat
    OBVIOUS
  <2> HIDE DEF T
  <2>2. \E m \in T : \A i \in T : <<i, m>> \notin OpToRel(<, Nat)
    BY <1>1, <2>1, NatLessThanWellFounded, WFMin
  <2> QED BY <2>1, <2>2 DEF OpToRel
<1>3. m \in 1..n /\ m - 1 \in 0..n-1
  OBVIOUS
<1>4. m - 1 \notin T
  BY <1>2, <1>3
<1>5. (m - 1) + 1 \in S
  BY <1>3, <1>4
<1> QED
  BY <1>3, <1>5

(* A document is chunked in one way only: the chunks depend on nothing but *)
(* its content (factory.py 25-50).                                         *)
LEMMA ChunkingIsAFunction ==
  ASSUME NEW d, NEW a, Chunked(d, a), NEW b, Chunked(d, b)
  PROVE  a = b
<1>1. PICK n \in Nat : \E s, l :
        Turns(d, n, s, l) /\ ChunkEnd(d, s[n]) = d.length /\ a = Grown(d, s[n], l[n])
  BY DEF Chunked
<1>2. PICK s, l :
        Turns(d, n, s, l) /\ ChunkEnd(d, s[n]) = d.length /\ a = Grown(d, s[n], l[n])
  BY <1>1
<1>3. PICK m \in Nat : \E t, k :
        Turns(d, m, t, k) /\ ChunkEnd(d, t[m]) = d.length /\ b = Grown(d, t[m], k[m])
  BY DEF Chunked
<1>4. PICK t, k :
        Turns(d, m, t, k) /\ ChunkEnd(d, t[m]) = d.length /\ b = Grown(d, t[m], k[m])
  BY <1>3
<1> DEFINE Same == {i \in Nat : s[i] = t[i] /\ l[i] = k[i]}
<1>5. ASSUME NEW c \in Nat, c <= n, c <= m PROVE s[c] = t[c] /\ l[c] = k[c]
  <2>1. 0 \in Same
    BY <1>2, <1>4 DEF Turns
  <2>2. ASSUME NEW i \in 0..c-1, i \in Same PROVE i + 1 \in Same
    <3>1. i \in 0..n-1 /\ i \in 0..m-1
      BY <1>5
    <3> QED BY <1>2, <1>4, <2>2, <3>1 DEF Turns
  <2>3. 0..c \subseteq Same
    <3> HIDE DEF Same
    <3> QED BY <2>1, <2>2, UpTo
  <2> QED BY <2>3
<1>6. n = m
  <2>1. CASE n < m
    <3>1. s[n] = t[n] /\ n \in 0..m-1
      BY <1>5, <2>1
    <3> QED BY <1>2, <1>4, <3>1 DEF Turns
  <2>2. CASE m < n
    <3>1. s[m] = t[m] /\ m \in 0..n-1
      BY <1>5, <2>2
    <3> QED BY <1>2, <1>4, <3>1 DEF Turns
  <2> QED BY <2>1, <2>2
<1> QED
  BY <1>2, <1>4, <1>5, <1>6

(* One turn more.                                                          *)
LEMMA TurnOnTurn ==
  ASSUME NEW d, NEW i, NEW list, Partial(d, i, list), ChunkEnd(d, i) # d.length
  PROVE  Partial(d, NextStart(d, i), Grown(d, i, list))
<1>1. PICK n \in Nat : \E s, l : Turns(d, n, s, l) /\ s[n] = i /\ l[n] = list
  BY DEF Partial
<1>2. PICK s, l : Turns(d, n, s, l) /\ s[n] = i /\ l[n] = list
  BY <1>1
<1> DEFINE t == [j \in 0..n+1 |-> IF j <= n THEN s[j] ELSE NextStart(d, i)]
           k == [j \in 0..n+1 |-> IF j <= n THEN l[j] ELSE Grown(d, i, list)]
<1>3. /\ \A j \in 0..n : t[j] = s[j] /\ k[j] = l[j]
      /\ t[n + 1] = NextStart(d, i) /\ k[n + 1] = Grown(d, i, list)
  OBVIOUS
<1> HIDE DEF t, k
<1>4. Turns(d, n + 1, t, k)
  <2>1. ASSUME NEW j \in 0..n
        PROVE  /\ ChunkEnd(d, t[j]) # d.length
               /\ t[j + 1] = NextStart(d, t[j]) /\ k[j + 1] = Grown(d, t[j], k[j])
    <3>1. CASE j \in 0..n-1
      <4>1. j + 1 \in 0..n
        BY <3>1
      <4> QED BY <1>2, <1>3, <3>1, <4>1 DEF Turns
    <3>2. CASE j = n
      BY <1>2, <1>3, <3>2
    <3> QED BY <3>1, <3>2
  <2>2. t[0] = 0 /\ k[0] = <<>>
    BY <1>2, <1>3 DEF Turns
  <2> QED BY <2>1, <2>2 DEF Turns
<1> QED
  BY <1>3, <1>4 DEF Partial

(* The last turn.                                                          *)
LEMMA LastTurn ==
  ASSUME NEW d, NEW i, NEW list, Partial(d, i, list), ChunkEnd(d, i) = d.length
  PROVE  Chunked(d, Grown(d, i, list))
BY DEF Partial, Chunked

(* The first one.                                                          *)
LEMMA FirstTurn == ASSUME NEW d PROVE Partial(d, 0, <<>>)
<1> DEFINE s == [j \in 0..0 |-> 0]
           l == [j \in 0..0 |-> <<>>]
<1>1. Turns(d, 0, s, l) /\ s[0] = 0 /\ l[0] = <<>>
  BY DEF Turns
<1> QED
  BY <1>1 DEF Partial

-----------------------------------------------------------------------------
(* What is known of a content, whatever chunking does with it.             *)
IsContent(d) == d.length \in Nat /\ d.spaces \in SUBSET Nat

(* A window ends within the text, and not before it starts.                *)
LEMMA EndIsWithin ==
  ASSUME NEW d, IsContent(d), NEW i \in 0..d.length
  PROVE  ChunkEnd(d, i) \in i..d.length
<1> USE ChunkingIsValid DEF IsContent
<1> DEFINE S == d.spaces \cap Slice(d, i, Cut(d, i))
<1>1. Cut(d, i) \in i..d.length
  BY DEF Cut
<1>2. CASE S # {} /\ Last(S) > i
  <2>1. PICK p \in S : TRUE
    BY <1>2
  <2>2. S \in SUBSET Nat /\ \A q \in S : q < d.length
    BY DEF Slice
  <2>3. Last(S) \in S
    <3> DEFINE b == d.length
    <3>1. b \in Nat /\ \A q \in S : q < b
      BY <2>2
    <3> HIDE DEF S, b
    <3> QED BY <2>1, <2>2, <3>1, LastIsLast
  <2>4. Last(S) \in i..d.length
    BY <1>2, <2>2, <2>3
  <2> QED
    BY <1>1, <1>2, <2>4 DEF ChunkEnd, RFind
<1>3. CASE ~ (S # {} /\ Last(S) > i)
  BY <1>1, <1>3 DEF ChunkEnd, RFind
<1> QED
  BY <1>2, <1>3

(* A turn adds the text from its start to its end.                         *)
Positions(list) == UNION {list[n].positions : n \in 1..Len(list)}
Before(d, i) == {p \in Text(d) : p < i}

(* So the positions of the list grow by its window (factory.py 14-51).     *)
LEMMA TurnAddsItsWindow ==
  ASSUME NEW d, IsContent(d), NEW i \in 0..d.length, NEW list \in Seq(ChunksOf(d))
  PROVE  /\ Grown(d, i, list) \in Seq(ChunksOf(d))
         /\ Positions(Grown(d, i, list)) =
              Positions(list) \cup {p \in Text(d) : i <= p /\ p < ChunkEnd(d, i)}
<1> DEFINE w == WindowText(d, i)
<1>1. w = {p \in Text(d) : i <= p /\ p < ChunkEnd(d, i)}
  <2>1. ChunkEnd(d, i) \in i..d.length
    BY EndIsWithin
  <2>2. Bound(d, i) = i /\ Bound(d, ChunkEnd(d, i)) = ChunkEnd(d, i)
    BY <2>1 DEF Bound, IsContent
  <2> QED
    BY <2>2 DEF WindowText, Slice, Text
<1> HIDE DEF w
<1>2. CASE w = {}
  BY <1>1, <1>2 DEF Grown, w
<1>3. CASE w # {}
  <2> DEFINE c == Chunk(d, w)
             new == Append(list, c)
  <2>1. Grown(d, i, list) = new
    BY <1>3 DEF Grown, w
  <2>2. c \in ChunksOf(d) /\ c.positions = w
    <3>1. w \in SUBSET Text(d)
      BY <1>1
    <3> QED BY <3>1 DEF ChunksOf, Chunk
  <2> HIDE DEF c
  <2>3. /\ new \in Seq(ChunksOf(d)) /\ Len(new) = Len(list) + 1
        /\ \A n \in 1..Len(list) : new[n] = list[n]
        /\ new[Len(list) + 1] = c
    BY <2>2
  <2> HIDE DEF new
  <2>4. Positions(new) = Positions(list) \cup w
    <3>1. Len(list) \in Nat
      OBVIOUS
    <3>2. ASSUME NEW p \in Positions(new) PROVE p \in Positions(list) \cup w
      <4>1. PICK n \in 1..Len(list)+1 : p \in new[n].positions
        BY <2>3 DEF Positions
      <4>2. CASE n = Len(list) + 1
        BY <2>2, <2>3, <4>1, <4>2
      <4>3. CASE n \in 1..Len(list)
        BY <2>3, <4>1, <4>3 DEF Positions
      <4> QED BY <3>1, <4>1, <4>2, <4>3
    <3>3. ASSUME NEW p \in Positions(list) PROVE p \in Positions(new)
      <4>1. PICK n \in 1..Len(list) : p \in list[n].positions
        BY DEF Positions
      <4>2. n \in 1..Len(new) /\ new[n] = list[n]
        BY <2>3, <3>1
      <4> QED BY <4>1, <4>2 DEF Positions
    <3>4. ASSUME NEW p \in w PROVE p \in Positions(new)
      <4>1. Len(list) + 1 \in 1..Len(new)
        BY <2>3, <3>1
      <4> QED BY <2>2, <2>3, <4>1 DEF Positions
    <3> QED BY <3>2, <3>3, <3>4
  <2> QED
    BY <1>1, <2>1, <2>3, <2>4
<1> QED
  BY <1>2, <1>3

(* Where the chunks so far end, if one that is not the last ends further   *)
(* on than the one before it.                                              *)
Reached(i) == IF i = 0 THEN 0 ELSE i + Overlap

(* A content without a window that stops the loop is chunked without a gap *)
(* (factory.py 25-50).                                                     *)
LEMMA ChunksCoverTheText ==
  ASSUME NEW d, IsContent(d), Chunkable(d), NEW list, Chunked(d, list)
  PROVE  list \in Seq(ChunksOf(d)) /\ Positions(list) = Text(d)
<1> USE ChunkingIsValid
<1>1. PICK n \in Nat : \E s, l :
        Turns(d, n, s, l) /\ ChunkEnd(d, s[n]) = d.length /\ list = Grown(d, s[n], l[n])
  BY DEF Chunked
<1>2. PICK s, l :
        Turns(d, n, s, l) /\ ChunkEnd(d, s[n]) = d.length /\ list = Grown(d, s[n], l[n])
  BY <1>1
<1> DEFINE Sound(j) == /\ s[j] \in 0..d.length /\ l[j] \in Seq(ChunksOf(d))
                       /\ Positions(l[j]) = Before(d, Reached(s[j]))
           S == {j \in Nat : Sound(j)}
<1>3. \A p \in Text(d) : p \in Nat /\ p < d.length
  BY DEF Text, IsContent
<1>4. 0 \in S
  <2>1. s[0] = 0 /\ l[0] = <<>>
    BY <1>2 DEF Turns
  <2>2. Positions(<<>>) = {}
    BY DEF Positions
  <2>3. Before(d, Reached(0)) = {}
    BY <1>3 DEF Before, Reached
  <2>4. 0 \in 0..d.length /\ <<>> \in Seq(ChunksOf(d))
    BY DEF IsContent
  <2>5. Sound(0)
    BY <2>1, <2>2, <2>3, <2>4
  <2> QED BY <2>5
<1>5. ASSUME NEW j \in 0..n-1, j \in S PROVE j + 1 \in S
  <2>1. Sound(j) /\ j \in Nat /\ j + 1 \in Nat
    BY <1>5
  <2>2. /\ ChunkEnd(d, s[j]) # d.length
        /\ s[j + 1] = NextStart(d, s[j]) /\ l[j + 1] = Grown(d, s[j], l[j])
    BY <1>2 DEF Turns
  <2>3. NextStart(d, s[j]) \in Nat /\ NextStart(d, s[j]) > s[j]
    BY <2>1, <2>2, ChunkingAdvances DEF IsContent
  <2>4. ChunkEnd(d, s[j]) \in s[j]..d.length
    BY <2>1, EndIsWithin
  <2>5. s[j + 1] \in 0..d.length /\ s[j + 1] # 0 /\ ChunkEnd(d, s[j]) = Reached(s[j + 1])
    BY <2>1, <2>2, <2>3, <2>4 DEF NextStart, Reached, IsContent
  <2>6. /\ l[j + 1] \in Seq(ChunksOf(d))
        /\ Positions(l[j + 1]) =
             Positions(l[j]) \cup {p \in Text(d) : s[j] <= p /\ p < ChunkEnd(d, s[j])}
    BY <2>1, <2>2, TurnAddsItsWindow
  <2>7. s[j] <= Reached(s[j]) /\ Reached(s[j]) <= ChunkEnd(d, s[j])
    BY <2>1, <2>2, <2>3, <2>4 DEF NextStart, Reached, IsContent
  <2>8. Positions(l[j + 1]) = Before(d, Reached(s[j + 1]))
    <3> DEFINE a == s[j]
               e == ChunkEnd(d, s[j])
               r == Reached(s[j])
    <3>1. a \in Int /\ e \in Int /\ r \in Int /\ a <= r /\ r <= e
      BY <2>1, <2>4, <2>7 DEF Reached, IsContent
    <3>2. Positions(l[j + 1]) = {p \in Text(d) : p < r} \cup {p \in Text(d) : a <= p /\ p < e}
      BY <2>1, <2>6 DEF Before
    <3> HIDE DEF a, e, r
    <3>3. Positions(l[j + 1]) = {p \in Text(d) : p < e}
      BY <1>3, <3>1, <3>2
    <3> QED BY <2>5, <3>3 DEF Before, e
  <2>9. Sound(j + 1)
    BY <2>5, <2>6, <2>8
  <2> QED BY <2>1, <2>9
<1>6. Sound(n)
  <2> HIDE DEF Sound
  <2>1. 0..n \subseteq S
    <3> HIDE DEF S
    <3> QED BY <1>4, <1>5, UpTo
  <2> QED BY <2>1
<1>7. /\ list \in Seq(ChunksOf(d))
      /\ Positions(list) = Positions(l[n]) \cup {p \in Text(d) : s[n] <= p /\ p < d.length}
  BY <1>2, <1>6, TurnAddsItsWindow
<1>8. Positions(list) = Text(d)
  <2> DEFINE a == s[n]
             r == Reached(s[n])
  <2>1. a \in Int /\ r \in Int /\ a <= r
    BY <1>6 DEF Reached, IsContent
  <2>2. Positions(list) = {p \in Text(d) : p < r} \cup {p \in Text(d) : a <= p /\ p < d.length}
    BY <1>6, <1>7 DEF Before
  <2> HIDE DEF a, r
  <2> QED BY <1>3, <2>1, <2>2
<1> QED
  BY <1>7, <1>8

-----------------------------------------------------------------------------
(* The run that ingests the release: what it is chunking is the beginning  *)
(* of the document's chunks, and what it adds is all of them.              *)
RunIsSound ==
  /\ pc \in {"chunk", "add"} => file \in 1..Len(release)
  /\ pc = "done" => file > Len(release)
  /\ Len(chunks) <= MaxChunks
  /\ pc = "chunk" => Partial(release[file], start, chunks)
  /\ pc = "add" => Chunked(release[file], chunks)

(* The index holds under each number the chunk of that number of some      *)
(* document, whichever run put it there.                                   *)
StoredAreChunks ==
  \A k \in Stored : \E list :
    Chunked(index[k].source, list) /\ k[2] \in 1..Len(list) /\ index[k] = list[k[2]]

(* The chunks of each file that this run is done with are still there,     *)
(* unless another file has its id or a write of it failed.                 *)
Ingesting == pc \in Running \cup {"done"}
Undisturbed(n) ==
  /\ \A m \in DOMAIN release : release[m].id = release[n].id => m = n
  /\ ~ \E k \in lost : k[1] = release[n].id
Ingested(n) ==
  \E list : /\ Chunked(release[n], list)
            /\ Len(list) \in 0..MaxChunks
            /\ \A i \in 1..Len(list) : list[i] = index[<<release[n].id, i>>] /\ list[i] # Absent
IngestedSoFar == Ingesting => \A n \in 1..file-1 : Undisturbed(n) => Ingested(n)

(* A local index holds only what the run of its own process has added.     *)
LocalIsOwn ==
  provider = "local" /\ Ingesting =>
    \A k \in Stored : \E n \in 1..file-1 : index[k].source = release[n]

IngestionIInv == TypeOK /\ RunIsSound /\ StoredAreChunks /\ IngestedSoFar /\ LocalIsOwn

(* A release is a sequence of contents.                                    *)
LEMMA ReleaseType ==
  ASSUME NEW r \in Releases
  PROVE  /\ Len(r) \in Nat /\ DOMAIN r = 1..Len(r)
         /\ \A n \in DOMAIN r : r[n] \in Contents /\ r[n].id \in Id /\ IsContent(r[n])
<1>1. r \in Seq({r[n] : n \in DOMAIN r})
  BY ReleasesAreFiles
<1>2. Len(r) \in Nat /\ DOMAIN r = 1..Len(r)
  BY <1>1
<1>3. ASSUME NEW n \in DOMAIN r
      PROVE  r[n] \in Contents /\ r[n].id \in Id /\ IsContent(r[n])
  <2>1. r[n] \in Contents
    BY DEF Contents
  <2>2. r[n].id \in Id /\ r[n].length \in Nat /\ r[n].spaces \subseteq 0..(r[n].length - 1)
    BY ReleasesAreFiles
  <2>3. r[n].spaces \in SUBSET Nat
    BY <2>2
  <2> QED BY <2>1, <2>2, <2>3 DEF IsContent
<1> QED
  BY <1>2, <1>3

(* Nothing is indexed before the first run.                                *)
LEMMA InitIsIngestion == Init => IngestionIInv
<1> SUFFICES ASSUME Init PROVE IngestionIInv
  OBVIOUS
<1>1. Stored = {}
  BY DEF Init, Stored
<1>2. Len(release) \in Nat
  BY ReleaseType DEF Init
<1>3. TypeOK
  BY <1>1, <1>2 DEF Init, TypeOK
<1>4. RunIsSound
  BY SearchIsValid DEF Init, RunIsSound
<1> QED
  BY <1>1, <1>3, <1>4
     DEF Init, IngestionIInv, StoredAreChunks, IngestedSoFar, LocalIsOwn, Ingesting, Running

(* Of a step that leaves the index as it is, what has to be shown is what  *)
(* it does to the run.                                                     *)
LEMMA IndexKept ==
  ASSUME IngestionIInv, UNCHANGED <<provider, release, index, lost>>, RunIsSound',
         pc' \in Running \cup {"idle", "done", "aborted"}, file' \in 1..(Len(release) + 1),
         caller' \in SUBSET Role, Ingesting' => Ingesting /\ file' = file
  PROVE  IngestionIInv'
<1>1. Stored' = Stored
  BY DEF Stored
<1>2. TypeOK' /\ StoredAreChunks'
  BY <1>1 DEF IngestionIInv, TypeOK, StoredAreChunks
<1>3. \A n : Undisturbed(n)' = Undisturbed(n) /\ Ingested(n)' = Ingested(n)
  BY DEF Undisturbed, Ingested
<1>4. IngestedSoFar'
  BY <1>3 DEF IngestionIInv, IngestedSoFar
<1>5. LocalIsOwn'
  BY <1>1 DEF IngestionIInv, LocalIsOwn
<1> QED
  BY <1>2, <1>4, <1>5 DEF IngestionIInv

(* A new run starts with the first file; a local one also with a new and   *)
(* empty index (factory.py 54-62).                                         *)
LEMMA StartIsIngestion == IInv /\ IngestionIInv /\ Start => IngestionIInv'
<1> SUFFICES ASSUME IInv, IngestionIInv, Start PROVE IngestionIInv'
  OBVIOUS
<1>1. /\ pc' = "open" /\ file' = 1 /\ lost' = {} /\ UNCHANGED <<provider, release, chunks>>
      /\ chunks = <<>> /\ Len(release) \in Nat
  BY ReleaseType DEF Start, Running, IngestionIInv, TypeOK, IInv, ChunksAreOfTheFile
<1>2. DOMAIN index' = DOMAIN index /\ \A k \in Stored' : k \in Stored /\ index'[k] = index[k]
  BY DEF Start, Stored
<1>3. caller' \in SUBSET Role
  <2>1. caller' \in {{}, caller}
    BY DEF Start, search
  <2> QED BY <2>1 DEF IngestionIInv, TypeOK
<1>4. TypeOK'
  BY <1>1, <1>2, <1>3 DEF IngestionIInv, TypeOK, Running
<1>5. RunIsSound' /\ IngestedSoFar'
  BY <1>1, SearchIsValid DEF RunIsSound, IngestedSoFar
<1>6. StoredAreChunks'
  BY <1>2 DEF IngestionIInv, StoredAreChunks
<1>7. LocalIsOwn'
  <2>1. provider = "local" => Stored' = {}
    BY DEF Start, Stored
  <2> QED BY <1>1, <2>1 DEF LocalIsOwn
<1> QED
  BY <1>4, <1>5, <1>6, <1>7 DEF IngestionIInv

(* The next file is opened, or there is none left (factory.py 58-61).      *)
LEMMA OpenIsIngestion == IInv /\ IngestionIInv /\ Open => IngestionIInv'
<1> SUFFICES ASSUME IInv, IngestionIInv, Open PROVE IngestionIInv'
  OBVIOUS
<1>1. /\ pc = "open" /\ start' = 0 /\ chunks' = <<>>
      /\ UNCHANGED <<provider, release, file, lost, index, caller>>
  BY DEF Open, search
<1>2. Len(release) \in Nat /\ file \in 1..(Len(release) + 1)
  BY ReleaseType DEF IngestionIInv, TypeOK
<1>3. CASE file > Len(release)
  <2>1. pc' = "done"
    BY <1>2, <1>3 DEF Open
  <2>2. RunIsSound'
    <3>1. Len(chunks') <= MaxChunks
      BY <1>1, SearchIsValid
    <3> QED BY <1>1, <1>3, <2>1, <3>1 DEF RunIsSound
  <2> QED
    BY <1>1, <1>2, <2>1, <2>2, IndexKept DEF Ingesting, Running, IngestionIInv, TypeOK
<1>4. CASE ~ (file > Len(release))
  <2>1. pc' \in {"chunk", "aborted"}
    BY <1>4 DEF Open
  <2>2. file' \in 1..Len(release')
    BY <1>1, <1>2, <1>4
  <2>3. Partial(release'[file'], start', chunks')
    BY <1>1, FirstTurn
  <2>4. RunIsSound'
    BY <1>1, <2>1, <2>2, <2>3, SearchIsValid DEF RunIsSound
  <2> QED
    BY <1>1, <1>2, <2>1, <2>4, IndexKept DEF Ingesting, Running, IngestionIInv, TypeOK
<1> QED
  BY <1>3, <1>4

(* A turn of the loop (factory.py 26-50).                                  *)
LEMMA ChunkStepIsIngestion == IInv /\ IngestionIInv /\ ChunkStep => IngestionIInv'
<1> SUFFICES ASSUME IInv, IngestionIInv, ChunkStep PROVE IngestionIInv'
  OBVIOUS
<1> DEFINE d == release[file]
<1>1. /\ pc = "chunk" /\ Len(chunks) < MaxChunks
      /\ UNCHANGED <<provider, release, file, lost, index, caller>>
      /\ chunks' = Grown(d, start, chunks) /\ start' = NextStart(d, start)
      /\ pc' = IF ChunkEnd(d, start) = d.length THEN "add" ELSE "chunk"
  BY DEF ChunkStep, search, Grown, WindowText
<1>2. /\ chunks \in Seq(ChunksOf(d)) /\ file \in 1..Len(release)
      /\ Partial(d, start, chunks)
  BY <1>1 DEF IInv, ChunksAreOfTheFile, IngestionIInv, RunIsSound
<1>3. Len(chunks') <= MaxChunks
  <2>1. chunks' \in {chunks, Append(chunks, Chunk(d, WindowText(d, start)))}
    BY <1>1 DEF Grown
  <2>2. \A c : Len(Append(chunks, c)) = Len(chunks) + 1
    BY <1>2
  <2> QED
    BY <1>1, <1>2, <2>1, <2>2, SearchIsValid
<1>4. CASE ChunkEnd(d, start) = d.length
  BY <1>1, <1>2, <1>3, <1>4, LastTurn, IndexKept
     DEF RunIsSound, Ingesting, Running, IngestionIInv, TypeOK
<1>5. CASE ChunkEnd(d, start) # d.length
  BY <1>1, <1>2, <1>3, <1>5, TurnOnTurn, IndexKept
     DEF RunIsSound, Ingesting, Running, IngestionIInv, TypeOK
<1> QED
  BY <1>4, <1>5

(* A chunk is something to find.                                           *)
LEMMA ChunksAreSomething ==
  ASSUME NEW d \in Contents, NEW list \in Seq(ChunksOf(d)), NEW n \in 1..Len(list)
  PROVE  list[n] # Absent /\ list[n].source = d
<1>1. list[n] \in ChunksOf(d)
  OBVIOUS
<1>2. PICK p \in SUBSET Text(d) : list[n] = Chunk(d, p)
  BY <1>1 DEF ChunksOf
<1> QED
  BY <1>2, AbsentIsNoChunk DEF Chunk

(* A write puts chunks where their number says and nowhere else            *)
(* (azure_search.py 64-75 and 187-202).                                    *)
LEMMA WriteGoesWhereItShould ==
  ASSUME IInv, IngestionIInv, pc = "add", NEW keys \in SUBSET Keys
  PROVE  /\ DOMAIN Written(keys) = DOMAIN index /\ keys \subseteq DOMAIN index
         /\ \A k \in keys :
              /\ k[1] = release[file].id /\ k[2] \in 1..Len(chunks)
              /\ Written(keys)[k] = chunks[k[2]]
         /\ \A k \in DOMAIN index \ keys : Written(keys)[k] = index[k]
<1>1. file \in DOMAIN release /\ release[file].id \in Id
  BY ReleaseType DEF IngestionIInv, TypeOK, RunIsSound
<1>2. /\ chunks \in Seq(ChunksOf(release[file])) /\ DOMAIN chunks = 1..Len(chunks)
      /\ Len(chunks) \in Nat /\ Len(chunks) <= MaxChunks
  BY DEF IInv, ChunksAreOfTheFile, IngestionIInv, RunIsSound
<1>3. DOMAIN index = Id \X (1..MaxChunks)
  BY DEF IngestionIInv, TypeOK
<1>4. ASSUME NEW k \in keys
      PROVE  /\ k \in DOMAIN index /\ k[1] = release[file].id /\ k[2] \in 1..Len(chunks)
             /\ Written(keys)[k] = chunks[k[2]]
  <2>1. PICK n \in DOMAIN chunks : k = <<release[file].id, n>>
    BY DEF Keys, Key
  <2>2. k \in DOMAIN index
    BY <1>1, <1>2, <1>3, <2>1, SearchIsValid
  <2>3. (CHOOSE m \in DOMAIN chunks : Key(release[file], m) = k) = n
    BY <2>1 DEF Key
  <2> QED
    BY <1>2, <2>1, <2>2, <2>3 DEF Written
<1> QED
  BY <1>4 DEF Written

(* Adding the chunks of a file keeps what the index is known to hold, and  *)
(* adding all of them completes the file (index.py 34-38, azure_search.py  *)
(* 174-202).                                                               *)
LEMMA AddIsSound ==
  ASSUME IInv, IngestionIInv, pc = "add", NEW keys \in SUBSET Keys, index' = Written(keys),
         UNCHANGED release
  PROVE  /\ DOMAIN index' = Id \X (1..MaxChunks)
         /\ \A k \in Stored' :
              /\ index'[k].source \in Contents /\ index'[k].source.id = k[1]
              /\ index'[k].source = release[file] \/ (k \in Stored /\ index'[k] = index[k])
         /\ StoredAreChunks'
         /\ \A n \in 1..file-1 : release[n].id # release[file].id /\ Ingested(n) => Ingested(n)'
         /\ keys = Keys => \A n \in {file} : Ingested(n)'
<1> DEFINE d == release[file]
<1>1. /\ d \in Contents /\ d.id \in Id /\ file \in Nat
      /\ chunks \in Seq(ChunksOf(d)) /\ Len(chunks) \in 0..MaxChunks /\ Chunked(d, chunks)
  <2>1. file \in 1..Len(release) /\ Chunked(d, chunks) /\ Len(chunks) <= MaxChunks
    BY DEF IngestionIInv, RunIsSound
  <2>2. d \in Contents /\ d.id \in Id
    BY <2>1, ReleaseType DEF IngestionIInv, TypeOK
  <2>3. chunks \in Seq(ChunksOf(d))
    BY DEF IInv, ChunksAreOfTheFile
  <2> QED
    BY <2>1, <2>2, <2>3, SearchIsValid
<1>2. /\ DOMAIN index' = DOMAIN index /\ keys \subseteq DOMAIN index
      /\ \A k \in keys : k[1] = d.id /\ k[2] \in 1..Len(chunks) /\ index'[k] = chunks[k[2]]
      /\ \A k \in DOMAIN index \ keys : index'[k] = index[k]
  BY WriteGoesWhereItShould
<1>3. ASSUME NEW k \in keys PROVE index'[k] # Absent /\ index'[k].source = d
  BY <1>1, <1>2, ChunksAreSomething
<1>4. ASSUME NEW k \in Stored', k \notin keys PROVE k \in Stored /\ index'[k] = index[k]
  BY <1>2, <1>4 DEF Stored
<1>5. DOMAIN index' = Id \X (1..MaxChunks)
  BY <1>2 DEF IngestionIInv, TypeOK
<1>6. ASSUME NEW k \in Stored'
      PROVE  /\ index'[k].source \in Contents /\ index'[k].source.id = k[1]
             /\ index'[k].source = d \/ (k \in Stored /\ index'[k] = index[k])
             /\ \E list : Chunked(index'[k].source, list) /\ k[2] \in 1..Len(list) /\ index'[k] = list[k[2]]
  <2>1. CASE k \in keys
    BY <1>1, <1>2, <1>3, <2>1
  <2>2. CASE k \notin keys
    BY <1>4, <2>2 DEF IngestionIInv, TypeOK, StoredAreChunks
  <2> QED BY <2>1, <2>2
<1>7. StoredAreChunks'
  BY <1>6 DEF StoredAreChunks
<1>8. ASSUME NEW n \in 1..file-1, release[n].id # d.id, Ingested(n) PROVE Ingested(n)'
  <2>1. PICK list : /\ Chunked(release[n], list) /\ Len(list) \in 0..MaxChunks
                    /\ \A i \in 1..Len(list) : list[i] = index[<<release[n].id, i>>] /\ list[i] # Absent
    BY <1>8 DEF Ingested
  <2>2. release[n].id \in Id
    <3>1. Len(release) \in Nat /\ file \in 1..Len(release)
      BY ReleaseType DEF IngestionIInv, TypeOK, RunIsSound
    <3>2. n \in 1..Len(release)
      BY <3>1
    <3> QED BY <3>2, ReleaseType DEF IngestionIInv, TypeOK
  <2>3. ASSUME NEW i \in 1..Len(list) PROVE index'[<<release[n].id, i>>] = list[i]
    <3>1. <<release[n].id, i>> \in DOMAIN index \ keys
      BY <1>2, <1>5, <1>8, <2>1, <2>2, SearchIsValid
    <3> QED BY <1>2, <2>1, <3>1
  <2> QED
    BY <2>1, <2>3 DEF Ingested
<1>9. ASSUME keys = Keys, NEW n, n = file PROVE Ingested(n)'
  <2>1. ASSUME NEW i \in 1..Len(chunks)
        PROVE  chunks[i] = index'[<<d.id, i>>] /\ chunks[i] # Absent
    <3>1. <<d.id, i>> \in keys
      BY <1>1, <1>9 DEF Keys, Key
    <3> QED BY <1>1, <1>2, <3>1, ChunksAreSomething
  <2> QED
    BY <1>1, <1>9, <2>1 DEF Ingested
<1>10. \A k \in Stored' :
         /\ index'[k].source \in Contents /\ index'[k].source.id = k[1]
         /\ index'[k].source = d \/ (k \in Stored /\ index'[k] = index[k])
  BY <1>6
<1>11. \A n \in 1..file-1 : release[n].id # d.id /\ Ingested(n) => Ingested(n)'
  BY <1>8
<1>12. keys = Keys => \A n \in {file} : Ingested(n)'
  BY <1>9
<1> QED
  BY <1>5, <1>7, <1>10, <1>11, <1>12

(* A run that ends before it is done leaves nothing but what it has        *)
(* written.                                                                *)
LEMMA LeavingIsIngestion ==
  ASSUME IngestionIInv, NEW s \in {"idle", "aborted"}, Leave(s),
         UNCHANGED <<provider, index, lost, caller>>, release' \in Releases
  PROVE  IngestionIInv'
<1>1. pc' = s /\ file' = 1 /\ chunks' = <<>> /\ ~ Ingesting'
  BY DEF Leave, Locals, Ingesting, Running
<1>2. Stored' = Stored /\ Len(release') \in Nat
  BY ReleaseType DEF Stored
<1>3. TypeOK'
  BY <1>1, <1>2 DEF IngestionIInv, TypeOK
<1>4. RunIsSound'
  BY <1>1, SearchIsValid DEF RunIsSound
<1>5. StoredAreChunks'
  BY <1>2 DEF IngestionIInv, StoredAreChunks
<1> QED
  BY <1>1, <1>3, <1>4, <1>5 DEF IngestionIInv, IngestedSoFar, LocalIsOwn

(* A file is added, and the run goes on or ends (index.py 34-38,           *)
(* azure_search.py 174-202).                                               *)
LEMMA AddingIsIngestion ==
  ASSUME IInv, IngestionIInv, pc = "add", NEW keys \in SUBSET Keys, index' = Written(keys),
         UNCHANGED <<provider, release, caller>>,
         lost' \subseteq DOMAIN index, lost \subseteq lost', Keys \ keys \subseteq lost',
         NextFile \/ Leave("aborted")
  PROVE  IngestionIInv'
<1>1. /\ file \in 1..Len(release) /\ Len(release) \in Nat /\ DOMAIN release = 1..Len(release)
      /\ release \in Releases
  BY ReleaseType DEF IngestionIInv, TypeOK, RunIsSound
<1>2. /\ DOMAIN index' = Id \X (1..MaxChunks) /\ DOMAIN index = Id \X (1..MaxChunks)
      /\ \A k \in Stored' :
           /\ index'[k].source \in Contents /\ index'[k].source.id = k[1]
           /\ index'[k].source = release[file] \/ (k \in Stored /\ index'[k] = index[k])
      /\ StoredAreChunks'
  BY AddIsSound DEF IngestionIInv, TypeOK
<1>3. /\ chunks' = <<>>
      /\ \/ pc' = "open" /\ file' = file + 1
         \/ pc' = "aborted" /\ file' = 1
  BY DEF NextFile, Leave, Locals
<1>4. TypeOK'
  BY <1>1, <1>2, <1>3 DEF IngestionIInv, TypeOK, Running
<1>5. RunIsSound'
  BY <1>3, SearchIsValid DEF RunIsSound
<1>6. Ingesting' => file' = file + 1
  BY <1>3 DEF Ingesting, Running
<1>7. Ingesting
  BY DEF Ingesting, Running
<1>8. ASSUME file' = file + 1, NEW n \in 1..file'-1, Undisturbed(n)'
      PROVE  Ingested(n)'
  <2>1. CASE n = file
    <3>1. \A k \in Keys : k[1] = release[n].id
      BY <2>1 DEF Keys, Key
    <3>2. keys = Keys
      BY <1>8, <3>1 DEF Undisturbed
    <3> QED BY <2>1, <3>2, AddIsSound
  <2>2. CASE n \in 1..file-1
    <3>1. release[n].id # release[file].id
      BY <1>1, <1>8, <2>2 DEF Undisturbed
    <3>2. Undisturbed(n)
      BY <1>8 DEF Undisturbed
    <3>3. Ingested(n)
      BY <1>7, <2>2, <3>2 DEF IngestionIInv, IngestedSoFar
    <3> QED BY <2>2, <3>1, <3>3, AddIsSound
  <2> QED BY <1>1, <1>8, <2>1, <2>2
<1>9. IngestedSoFar'
  BY <1>6, <1>8 DEF IngestedSoFar
<1>10. LocalIsOwn'
  <2> SUFFICES ASSUME provider = "local", Ingesting', NEW k \in Stored'
               PROVE  \E n \in 1..file'-1 : index'[k].source = release[n]
    BY DEF LocalIsOwn
  <2>1. CASE index'[k].source = release[file]
    BY <1>1, <1>6, <2>1
  <2>2. CASE k \in Stored /\ index'[k] = index[k]
    <3>1. PICK n \in 1..file-1 : index[k].source = release[n]
      BY <1>7, <2>2 DEF IngestionIInv, LocalIsOwn
    <3> QED BY <1>1, <1>6, <2>2, <3>1
  <2> QED BY <1>2, <2>1, <2>2
<1> QED
  BY <1>2, <1>4, <1>5, <1>9, <1>10 DEF IngestionIInv

(* Every step keeps the invariant of the ingestion.                        *)
LEMMA NextIsIngestion == IInv /\ IngestionIInv /\ [Next]_vars => IngestionIInv'
<1> SUFFICES ASSUME IInv, IngestionIInv, [Next]_vars PROVE IngestionIInv'
  OBVIOUS
<1>0. /\ release \in Releases /\ lost \subseteq DOMAIN index /\ caller \in SUBSET Role
      /\ file \in 1..(Len(release) + 1) /\ pc \in Running \cup {"idle", "done", "aborted"}
  BY DEF IngestionIInv, TypeOK
<1>1. ASSUME AddLocal PROVE IngestionIInv'
  <2>1. pc = "add" /\ UNCHANGED <<provider, release, lost, caller>>
    BY <1>1 DEF AddLocal, search
  <2>2. CASE Keys \cap Stored = {}
    <3>1. index' = Written(Keys) /\ NextFile
      BY <1>1, <2>2 DEF AddLocal
    <3> QED BY <1>0, <2>1, <3>1, AddingIsIngestion
  <2>3. CASE Keys \cap Stored # {}
    <3>1. index' = index /\ Leave("aborted")
      BY <1>1, <2>3 DEF AddLocal
    <3> QED BY <1>0, <2>1, <3>1, LeavingIsIngestion
  <2> QED BY <2>2, <2>3
<1>2. ASSUME AddAzure PROVE IngestionIInv'
  <2>1. pc = "add" /\ UNCHANGED <<provider, release, caller>>
    BY <1>2 DEF AddAzure, search
  <2>2. CASE \A n \in DOMAIN chunks : RolesAreKnown(chunks[n])
    <3>1. PICK keys \in SUBSET Keys :
            /\ index' = Written(keys) /\ lost' = lost \cup (Keys \ keys)
            /\ NextFile \/ Leave("aborted")
      BY <1>2, <2>2 DEF AddAzure
    <3>2. Keys \subseteq DOMAIN index
      BY <2>1, WriteGoesWhereItShould
    <3> QED BY <1>0, <2>1, <3>1, <3>2, AddingIsIngestion
  <2>3. CASE ~ \A n \in DOMAIN chunks : RolesAreKnown(chunks[n])
    <3>1. UNCHANGED <<index, lost>> /\ Leave("aborted")
      BY <1>2, <2>3 DEF AddAzure
    <3> QED BY <1>0, <2>1, <3>1, LeavingIsIngestion
  <2> QED BY <2>2, <2>3
<1>3. ASSUME Crash PROVE IngestionIInv'
  BY <1>0, <1>3, LeavingIsIngestion DEF Crash, search
<1>4. ASSUME NEW r \in Releases, Install(r) PROVE IngestionIInv'
  BY <1>0, <1>4, LeavingIsIngestion DEF Install, search
<1>5. ASSUME UNCHANGED <<provider, release, run, index>>, caller' \in SUBSET Role
      PROVE  IngestionIInv'
  <2>1. UNCHANGED <<pc, file, start, chunks, lost, provider, release, index>>
    BY <1>5 DEF run
  <2>2. RunIsSound' /\ Ingesting' = Ingesting
    BY <2>1 DEF IngestionIInv, RunIsSound, Ingesting
  <2> QED BY <1>0, <1>5, <2>1, <2>2, IndexKept
<1>6. ASSUME NEW roles \in Callers, NEW found, Search(roles, found) PROVE IngestionIInv'
  BY <1>5, <1>6, SearchIsValid DEF Search
<1>7. ASSUME NEW cited, NEW supported, Answer(cited, supported) PROVE IngestionIInv'
  BY <1>0, <1>5, <1>7 DEF Answer
<1>8. ASSUME UNCHANGED vars PROVE IngestionIInv'
  BY <1>0, <1>5, <1>8 DEF vars, search
<1> QED
  BY <1>1, <1>2, <1>3, <1>4, <1>6, <1>7, <1>8,
     StartIsIngestion, OpenIsIngestion, ChunkStepIsIngestion DEF Next

(* A finished run has ingested every file that nothing disturbed.  An      *)
(* index holds under one number one chunk, and a document has one chunking,*)
(* so nothing under these numbers is left of an earlier run.               *)
LEMMA DoneIsComplete == IngestionIInv => IngestedIsComplete
<1> SUFFICES ASSUME IngestionIInv, pc = "done", NEW n \in DOMAIN release,
                    Chunkable(release[n]), Undisturbed(n)
             PROVE  LET d == release[n]
                        mine == {k \in Stored : index[k].source = d}
                        ofId == {k \in Stored : k[1] = d.id} IN
                    /\ UNION {index[k].positions : k \in mine} = Text(d)
                    /\ \A k \in mine, l \in ofId \ mine :
                         l[2] > k[2] /\ provider = "azure_search"
  BY DEF IngestedIsComplete, Undisturbed
<1> DEFINE d == release[n]
           mine == {k \in Stored : index[k].source = d}
           ofId == {k \in Stored : k[1] = d.id}
<1>1. /\ DOMAIN release = 1..Len(release) /\ Len(release) \in Nat
      /\ d.id \in Id /\ IsContent(d) /\ n \in 1..file-1 /\ file = Len(release) + 1
  <2>1. /\ release \in Releases /\ file > Len(release) /\ file \in 1..(Len(release) + 1)
    BY DEF IngestionIInv, TypeOK, RunIsSound
  <2>2. DOMAIN release = 1..Len(release) /\ Len(release) \in Nat /\ d.id \in Id /\ IsContent(d)
    BY <2>1, ReleaseType
  <2> QED BY <2>1, <2>2
<1>2. Ingested(n)
  BY <1>1 DEF IngestionIInv, IngestedSoFar, Ingesting
<1>3. PICK list : /\ Chunked(d, list) /\ Len(list) \in 0..MaxChunks
                  /\ \A i \in 1..Len(list) : list[i] = index[<<d.id, i>>] /\ list[i] # Absent
  BY <1>2 DEF Ingested
<1>4. list \in Seq(ChunksOf(d)) /\ Positions(list) = Text(d)
  BY <1>1, <1>3, ChunksCoverTheText
<1>5. DOMAIN index = Id \X (1..MaxChunks)
  BY DEF IngestionIInv, TypeOK
<1>6. ASSUME NEW i \in 1..Len(list)
      PROVE  <<d.id, i>> \in mine /\ index[<<d.id, i>>] = list[i]
  <2>1. list[i].source = d
    <3>1. list[i] \in ChunksOf(d)
      BY <1>4
    <3> QED BY <3>1 DEF ChunksOf, Chunk
  <2>2. <<d.id, i>> \in DOMAIN index
    BY <1>1, <1>3, <1>5, SearchIsValid
  <2> QED BY <1>3, <2>1, <2>2 DEF Stored
<1>7. ASSUME NEW k \in mine
      PROVE  k = <<d.id, k[2]>> /\ k[2] \in 1..Len(list) /\ index[k] = list[k[2]]
  <2>1. k \in Id \X (1..MaxChunks) /\ k[1] = d.id
    BY <1>5 DEF IngestionIInv, TypeOK, Stored
  <2>2. PICK other : Chunked(d, other) /\ k[2] \in 1..Len(other) /\ index[k] = other[k[2]]
    BY DEF IngestionIInv, StoredAreChunks
  <2>3. other = list
    BY <1>3, <2>2, ChunkingIsAFunction
  <2> QED BY <2>1, <2>2, <2>3
<1>8. UNION {index[k].positions : k \in mine} = Text(d)
  <2>1. ASSUME NEW k \in mine PROVE index[k].positions \subseteq Positions(list)
    BY <1>7 DEF Positions
  <2>2. ASSUME NEW i \in 1..Len(list)
        PROVE  list[i].positions \subseteq UNION {index[k].positions : k \in mine}
    <3>1. <<d.id, i>> \in mine /\ index[<<d.id, i>>] = list[i]
      BY <1>6
    <3> HIDE DEF mine
    <3> QED BY <3>1
  <2>3. Positions(list) \subseteq UNION {index[k].positions : k \in mine}
    BY <2>2 DEF Positions
  <2> HIDE DEF mine
  <2> QED BY <1>4, <2>1, <2>3
<1>9. ASSUME NEW k \in mine, NEW l \in ofId \ mine
      PROVE  l[2] > k[2] /\ provider = "azure_search"
  <2>1. l \in Id \X (1..MaxChunks) /\ l[1] = d.id /\ index[l].source # d
    BY <1>5 DEF Stored
  <2>2. l = <<d.id, l[2]>> /\ l[2] \in Nat /\ l[2] >= 1
    BY <2>1, SearchIsValid
  <2>3. l[2] \notin 1..Len(list)
    BY <1>6, <2>2
  <2>4. l[2] > k[2]
    BY <1>3, <1>7, <2>2, <2>3, SearchIsValid
  <2>5. provider # "local"
    <3> SUFFICES ASSUME provider = "local" PROVE FALSE
      OBVIOUS
    <3>1. PICK m \in 1..file-1 : index[l].source = release[m]
      BY DEF IngestionIInv, LocalIsOwn, Ingesting
    <3>2. release[m].id = d.id /\ m \in DOMAIN release
      BY <1>1, <2>1, <3>1 DEF IngestionIInv, TypeOK
    <3>3. m = n
      BY <3>2 DEF Undisturbed
    <3> QED BY <2>1, <3>1, <3>3
  <2> QED
    BY <2>4, <2>5 DEF IngestionIInv, TypeOK
<1> QED
  BY <1>8, <1>9

(* Both invariants hold of every behaviour.                                *)
THEOREM Invariance == Spec => [](IInv /\ IngestionIInv)
<1>1. Init => IInv /\ IngestionIInv
  BY InitIsInvariant, InitIsIngestion
<1>2. IInv /\ IngestionIInv /\ [Next]_vars => (IInv /\ IngestionIInv)'
  BY ChunksStep, IndexStep, ScopeStep, NextIsIngestion DEF IInv
<1> QED
  BY <1>1, <1>2, PTL DEF Spec

(* The state is well formed: what is stored under a document's id was cut  *)
(* from one of that id, and no write goes beyond the last number           *)
(* (factory.py 14-51, azure_search.py 64-75).                              *)
THEOREM TypeCorrect == Spec => []TypeOK
<1>1. IngestionIInv => TypeOK
  BY DEF IngestionIInv
<1> QED
  BY <1>1, Invariance, PTL

(* For every set of releases, every chunk size and overlap, and any number *)
(* of runs, crashes and lost writes: a finished run leaves of each         *)
(* document that can be chunked and whose writes succeeded every word in   *)
(* the index, and of other editions only chunks numbered after its own     *)
(* (factory.py 14-62, ingest_azure_search.py 37-46, azure_search.py        *)
(* 174-202).                                                               *)
THEOREM FinishedRunsAreComplete == Spec => []IngestedIsComplete
BY DoneIsComplete, Invariance, PTL
=============================================================================
