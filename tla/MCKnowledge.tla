---------------------------- MODULE MCKnowledge ----------------------------
(* Knowledge for TLC: a policy in a long and a short edition for different *)
(* roles, one with an unknown role, an unsafe file, a reused id, and a     *)
(* text whose chunking does not end.                                       *)
EXTENDS Knowledge

Content(id, roles, length, spaces) ==
  [id |-> id, roles |-> roles, safe |-> TRUE, length |-> length, spaces |-> spaces]

Long      == Content("POL-PAY-001", {"transactions"}, 9, {2, 5})
Short     == Content("POL-PAY-001", {"customer"}, 5, {2})
Second    == Content("POL-KYC-001", {"customer", "transactions"}, 4, {})
Reused    == Content("POL-PAY-001", {"customer", "transactions"}, 4, {})
OtherRole == Content("POL-KYC-001", {"fraud"}, 4, {1})
Unsafe    == [Second EXCEPT !.safe = FALSE]
Stuck     == Content("POL-KYC-001", {"customer"}, 9, {1})

MCReleases ==
  {<<Long, Second>>, <<Short, Reused>>, <<Short, OtherRole>>, <<Unsafe, Short>>, <<Short, Stuck>>}
MCCallers == {{"customer"}, {"customer", "transactions"}}
=============================================================================
