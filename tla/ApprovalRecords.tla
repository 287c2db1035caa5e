--------------------------- MODULE ApprovalRecords ---------------------------
(***************************************************************************)
(* The records and requests every approval store deals in: ApprovalRecord  *)
(* and the ApprovalStore protocol of state/store.py.  A record is reduced  *)
(* to its tenant, its status and the reviewer that decided it.             *)
(***************************************************************************)
CONSTANTS
  Client,    (* callers of the store: threads or processes, and reviewers  *)
  Id,        (* approval ids (uuid4), one per create_pending               *)
  Tenant,    (* registered tenants                                         *)
  Verdict,   (* what a reviewer can decide: approved or rejected           *)
  NoClient,  (* reviewer of an undecided record                            *)
  NoId,      (* the id list_pending is called with                         *)
  NoTenant   (* tenant of an absent record                                 *)

ASSUME NullsAreNew ==
  /\ NoClient \notin Client
  /\ NoId \notin Id
  /\ NoTenant \notin Tenant
  /\ Verdict \cap {"absent", "pending", "none"} = {}

Absent == [tenant |-> NoTenant, status |-> "absent", by |-> NoClient]
(* A record has a reviewer exactly when it is decided.                     *)
Row ==
  {Absent}
    \cup [tenant : Tenant, status : {"pending"}, by : {NoClient}]
    \cup [tenant : Tenant, status : Verdict, by : Client]

Request ==
  [op : {"create", "get"}, id : Id, tenant : Tenant, verdict : {"none"}, client : Client]
    \cup [op : {"decide"}, id : Id, tenant : Tenant, verdict : Verdict, client : Client]
ListRequest ==
  [op : {"list"}, id : {NoId}, tenant : Tenant, verdict : {"none"}, client : Client]

NoCall == [op |-> "none"]

(* A bug for the runs to catch: the reviewer is not recorded.              *)
DecidedByNobody(r) == [tenant |-> r.tenant, status |-> r.verdict, by |-> NoClient]

(* The record a create_pending makes and the one a decide leaves.          *)
Pending(r) == [tenant |-> r.tenant, status |-> "pending", by |-> NoClient]
Decided(r) == [tenant |-> r.tenant, status |-> r.verdict, by |-> r.client]
Written(r) == IF r.op = "create" THEN Pending(r) ELSE Decided(r)
=============================================================================
