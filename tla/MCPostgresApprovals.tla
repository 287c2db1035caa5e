------------------------ MODULE MCPostgresApprovals ------------------------
(* PostgresApprovals for TLC: threads a1, a2 and connections ka1, ka2       *)
(* belong to process a, thread b1 and connection kb1 to process b; a        *)
(* configuration takes some of them.                                        *)
EXTENDS PostgresApprovals

CONSTANTS a, b, b1, kb1

MCProcessOf == [x \in Client \cup Conn |-> IF x \in {b1, kb1} THEN b ELSE a]

=============================================================================
