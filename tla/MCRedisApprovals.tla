-------------------------- MODULE MCRedisApprovals --------------------------
(* RedisApprovals for TLC: clients, ids and tenants are interchangeable.    *)
EXTENDS RedisApprovals, TLC

Symmetry == Permutations(Client) \cup Permutations(Id) \cup Permutations(Tenant)
=============================================================================
