----------------------------- MODULE Knowledge -----------------------------
(***************************************************************************)
(* The knowledge base: parsing (rag/ingestion.py), chunking and the build  *)
(* at startup (rag/factory.py), the offline ingestion                      *)
(* (scripts/ingest_azure_search.py), the two indexes (rag/index.py,        *)
(* rag/azure_search.py) and what retrieval and the groundedness report     *)
(* make of them (rag/retrieval.py, rag/synthesis.py, rag/groundedness.py). *)
(*                                                                         *)
(* The local index lives in the process that builds it and is searched     *)
(* when it is whole.  Azure's outlives the runs of the script, is searched *)
(* meanwhile, and nothing is ever deleted from it.                         *)
(***************************************************************************)
EXTENDS Integers, Sequences, FiniteSets, FiniteSetsExt

CONSTANTS
  Id,                   (* document ids                                    *)
  Role, Known,          (* roles a chunk may declare; _KNOWN_CHUNK_ROLES   *)
  Releases,             (* releases of the bundled files, in name order    *)
  Callers,              (* sets of roles a search may be made with         *)
  ChunkSize, Overlap, Limit,
  MaxChunks,            (* bound: a document whose chunking does not end   *)
  Absent

ASSUME ChunkingIsValid == ChunkSize \in Nat /\ Overlap \in Nat /\ Overlap < ChunkSize
ASSUME SearchIsValid ==
  Limit \in 1..5 /\ MaxChunks \in Nat /\ Known \subseteq Role /\ Callers \subseteq SUBSET Role

(* A content: positions 0 .. length - 1, those in `spaces` are blank.      *)
(* `safe`: parse_policy_document accepts it.                               *)
ASSUME ReleasesAreFiles ==
  \A r \in Releases : r \in Seq({r[n] : n \in DOMAIN r}) /\ \A n \in DOMAIN r :
    /\ r[n].id \in Id /\ r[n].roles \in SUBSET Role /\ r[n].safe \in BOOLEAN
    /\ r[n].length \in Nat /\ r[n].spaces \subseteq 0..(r[n].length - 1)
    /\ r[n].safe => r[n].roles # {}

VARIABLES
  provider,   (* the configured index                                      *)
  release,    (* the bundled files                                         *)
  pc, file, start, chunks,  (* the run that ingests them                   *)
  lost,       (* history: keys of this run that were not written           *)
  index,
  caller, hits, report      (* a search and its answer                     *)

run    == <<pc, file, start, chunks, lost>>
search == <<caller, hits, report>>
vars   == <<provider, release, run, index, search>>

-----------------------------------------------------------------------------
(* Python's slices and rfind: a negative bound counts from the end.        *)
Bound(d, i) == IF i < 0 THEN (IF d.length + i < 0 THEN 0 ELSE d.length + i) ELSE i
Slice(d, i, j) == {p \in 0..(d.length - 1) : Bound(d, i) <= p /\ p < Bound(d, j)}

Last(S)  == CHOOSE p \in S : \A q \in S : q <= p
First(S) == CHOOSE p \in S : \A q \in S : p <= q

(* A bug for the runs to catch: the first space of the window.             *)
FirstSpace(d, i, j) == IF d.spaces \cap Slice(d, i, j) = {} THEN -1 ELSE First(d.spaces \cap Slice(d, i, j))
RFind(d, i, j) == IF d.spaces \cap Slice(d, i, j) = {} THEN -1 ELSE Last(d.spaces \cap Slice(d, i, j))

(* The end of the chunk that starts at i, and the start of the next one.   *)
Cut(d, i) == IF i + ChunkSize < d.length THEN i + ChunkSize ELSE d.length
ChunkEnd(d, i) ==
  IF Cut(d, i) < d.length /\ RFind(d, i, Cut(d, i)) > i THEN RFind(d, i, Cut(d, i)) ELSE Cut(d, i)

(* A bug for the runs to catch: the overlap left out instead of repeated.  *)
SkipAhead(d, i) == ChunkEnd(d, i) + Overlap
NextStart(d, i) == ChunkEnd(d, i) - Overlap

(* Where a window has its only spaces within the overlap, the next start   *)
(* is no further on than this one.                                         *)
Chunkable(d) ==
  \A i \in 0..d.length : i + ChunkSize < d.length =>
    \/ \A p \in i+1..i+Overlap : p \notin d.spaces
    \/ \E p \in i+Overlap+1..i+ChunkSize-1 : p \in d.spaces

Text(d) == {p \in 0..(d.length - 1) : p \notin d.spaces}

(* A bug for the runs to catch: chunks numbered from 0.                    *)
KeyFromZero(d, n) == <<d.id, n - 1>>
Key(d, n) == <<d.id, n>>

Stored == {k \in DOMAIN index : index[k] # Absent}

Chunk(d, positions) == [source |-> d, roles |-> d.roles, positions |-> positions]

Contents == UNION {{r[n] : n \in DOMAIN r} : r \in Releases}
ASSUME AbsentIsNoChunk == \A d \in Contents : \A p \in SUBSET Text(d) : Chunk(d, p) # Absent

-----------------------------------------------------------------------------
Init ==
  /\ provider \in {"local", "azure_search"}
  /\ release \in Releases
  /\ pc = "idle" /\ file = 1 /\ start = 0 /\ chunks = <<>> /\ lost = {}
  /\ index = [k \in Id \X (1..MaxChunks) |-> Absent]
  /\ caller = {} /\ hits = {} /\ report = Absent

Running == {"open", "chunk", "add"}

(* The script, or the process that builds its own index, is started.       *)
Start ==
  /\ pc \notin Running
  /\ pc' = "open" /\ file' = 1 /\ lost' = {}
  /\ IF provider = "local"
       THEN /\ index' = [k \in DOMAIN index |-> Absent]
            /\ caller' = {} /\ hits' = {} /\ report' = Absent
       ELSE UNCHANGED <<index, search>>
  /\ UNCHANGED <<provider, release, start, chunks>>

Open ==
  /\ pc = "open"
  /\ pc' = CASE file > Len(release) -> "done"
              [] file <= Len(release) /\ release[file].safe -> "chunk"
              [] OTHER -> "aborted"
  /\ start' = 0 /\ chunks' = <<>>
  /\ UNCHANGED <<provider, release, file, lost, index, search>>

(* One turn of chunk_document's loop; a content is at least 20 long.       *)
ChunkStep ==
  /\ pc = "chunk"
  /\ Len(chunks) < MaxChunks
  /\ LET d == release[file]
         text == Slice(d, start, ChunkEnd(d, start)) \cap Text(d) IN
     /\ chunks' = IF text = {} THEN chunks ELSE Append(chunks, Chunk(d, text))
     /\ pc' = IF ChunkEnd(d, start) = d.length THEN "add" ELSE "chunk"
     /\ start' = NextStart(d, start)
  /\ UNCHANGED <<provider, release, file, lost, index, search>>

(* A bug for the runs to catch: roles the filter does not know let in.     *)
AnyRoles(c) == TRUE
RolesAreKnown(c) == c.roles \subseteq Known

Keys == {Key(release[file], n) : n \in DOMAIN chunks}
Written(keys) ==
  [k \in DOMAIN index \cup keys |->
     IF k \in keys THEN chunks[CHOOSE n \in DOMAIN chunks : Key(release[file], n) = k] ELSE index[k]]

Locals == start' = 0 /\ chunks' = <<>>
NextFile == pc' = "open" /\ file' = file + 1 /\ Locals
Leave(s) == pc' = s /\ file' = 1 /\ Locals

(* LocalVectorIndex.add: chunks before a duplicate stay.                   *)
AddLocal ==
  /\ pc = "add" /\ provider = "local"
  /\ IF Keys \cap Stored = {} THEN index' = Written(Keys) /\ NextFile ELSE UNCHANGED index /\ Leave("aborted")
  /\ UNCHANGED <<provider, release, lost, search>>

(* AzureSearchIndex.add: an unknown role raises before anything is sent;   *)
(* the request may raise after some writes; the results of the single      *)
(* writes are not looked at.                                               *)
AddAzure ==
  /\ pc = "add" /\ provider = "azure_search"
  /\ IF \A n \in DOMAIN chunks : RolesAreKnown(chunks[n])
       THEN \E keys \in SUBSET Keys :
              /\ index' = Written(keys)
              /\ lost' = lost \cup (Keys \ keys)
              /\ NextFile \/ Leave("aborted")
       ELSE UNCHANGED <<index, lost>> /\ Leave("aborted")
  /\ UNCHANGED <<provider, release, search>>

(* The run dies.                                                           *)
Crash ==
  /\ pc \in Running
  /\ Leave("idle")
  /\ UNCHANGED <<provider, release, lost, index, search>>

(* New files are installed between runs; a local index goes with its       *)
(* process.                                                                *)
Install(r) ==
  /\ pc \notin Running
  /\ release' = r
  /\ Leave("idle")
  /\ UNCHANGED <<provider, lost, index, search>>

-----------------------------------------------------------------------------
Searchable == provider = "azure_search" \/ pc = "done"

(* The filter of each index: build_role_filter, and the test of            *)
(* LocalVectorIndex.search.                                                *)
Filter(c, roles) ==
  IF provider = "azure_search" THEN c.roles \cap (Known \ roles) = {} ELSE c.roles \subseteq roles

Admitted(roles) == {k \in Stored : Filter(index[k], roles)}

(* AuthorizedRetriever.retrieve                                            *)
Search(roles, found) ==
  /\ Searchable
  /\ found \subseteq Admitted(roles) /\ Cardinality(found) <= Limit
  /\ caller' = roles
  /\ hits' = {[key |-> k, chunk |-> index[k]] : k \in found}
  /\ report' = Absent
  /\ UNCHANGED <<provider, release, run, index>>

(* The model answers with any citations; GroundednessEvaluator.evaluate.   *)
(* `supported`: enough of its terms are in the evidence.                   *)
Answer(cited, supported) ==
  /\ hits # {} /\ report = Absent
  /\ LET fabricated == cited \ {h.key : h \in hits} IN
     report' = [cited |-> cited, grounded |-> supported /\ cited # {} /\ fabricated = {}]
  /\ UNCHANGED <<provider, release, run, index, caller, hits>>

Next ==
  \/ Start \/ Open \/ ChunkStep \/ AddLocal \/ AddAzure \/ Crash
  \/ \E r \in Releases : Install(r)
  \/ \E roles \in Callers : \E found \in UNION {kSubset(n, Admitted(roles)) : n \in 0..Limit} : Search(roles, found)
  \/ \E cited \in SUBSET (Id \X {1}), supported \in BOOLEAN : Answer(cited, supported)

Spec == Init /\ [][Next]_vars

(* A running loop goes on.                                                 *)
FairSpec == Spec /\ WF_vars(ChunkStep)
-----------------------------------------------------------------------------
TypeOK ==
  /\ provider \in {"local", "azure_search"}
  /\ release \in Releases
  /\ pc \in Running \cup {"idle", "done", "aborted"}
  /\ file \in 1..(Len(release) + 1)
  /\ DOMAIN index = Id \X (1..MaxChunks)
  /\ \A k \in Stored : index[k].source \in Contents /\ index[k].source.id = k[1]
  /\ lost \subseteq DOMAIN index
  /\ caller \in SUBSET Role

(* A search never finds a chunk with a role its caller lacks, in either    *)
(* index, while the script replaces chunks under it; and an answer called  *)
(* grounded cites nothing but chunks its own caller was shown              *)
(* (azure_search.py 92-112 and 178-186, groundedness.py 80-101).           *)
AnswersStayInScope ==
  /\ \A h \in hits : h.chunk.roles \subseteq caller /\ h.chunk.roles = h.chunk.source.roles
  /\ report # Absent /\ report.grounded => report.cited # {} /\ report.cited \subseteq {h.key : h \in hits}

(* What a finished run leaves: of each document all of whose writes        *)
(* succeeded, every word is in a chunk, and the only chunks of other       *)
(* releases are those numbered after its own.  The script never deletes,   *)
(* so these keep the text and roles of the release they came from          *)
(* (factory.py 25-50, ingest_azure_search.py 39-46).                       *)
IngestedIsComplete ==
  pc = "done" =>
    \A n \in DOMAIN release :
      LET d == release[n]
          mine == {k \in Stored : index[k].source = d}
          ofId == {k \in Stored : k[1] = d.id} IN
      (Chunkable(d) /\ (\A m \in DOMAIN release : release[m].id = d.id => m = n) /\ ~ \E k \in lost : k[1] = d.id) =>
        /\ UNION {index[k].positions : k \in mine} = Text(d)
        /\ \A k \in mine, l \in ofId \ mine : l[2] > k[2] /\ provider = "azure_search"

(* chunk_document comes to an end for every text in which no window has    *)
(* its spaces within the overlap only (factory.py 25-50).                  *)
ChunkingEnds == (pc = "chunk" /\ Chunkable(release[file])) ~> pc # "chunk"
=============================================================================
