-------------------------- MODULE MCApprovalStore --------------------------
(* ApprovalStore for TLC.  LimboBound keeps one request in limbo at a time. *)
EXTENDS ApprovalStore, Integers, FiniteSets, TLC

Symmetry == Permutations(Client) \cup Permutations(Id) \cup Permutations(Tenant)

LimboBound == Cardinality(limbo) <= 1
=============================================================================
