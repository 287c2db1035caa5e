------------------------- MODULE MCSqliteApprovals -------------------------
(* SqliteApprovals for TLC.                                                *)
EXTENDS SqliteApprovals, TLC

Symmetry == Permutations(Client) \cup Permutations(Id) \cup Permutations(Tenant)
=============================================================================
