--------------------------- MODULE MCModelGateway ---------------------------
(* ModelGateway for TLC: one tenant with a ceiling of its own and one with  *)
(* the default; texts with overlapping and touching findings, with a        *)
(* blocked one, and with severities at, below and without a threshold.      *)
EXTENDS ModelGateway, TLC

CONSTANT bank

MCCeilings == [t \in {bank} |-> 3]
MCThresholds == [c \in {"Violence"} |-> 4]

Finds(type, start, end, score) == [type |-> type, start |-> start, end |-> end, score |-> score]
Text(cost, findings, violence, hate) ==
  [length |-> 9, cost |-> cost, findings |-> findings, severity |-> [c \in Category |-> IF c = "Hate" THEN hate ELSE violence]]

MCTexts ==
  {Text(1, {Finds("PERSON", 0, 3, 85), Finds("EMAIL", 2, 5, 100), Finds("URL", 2, 5, 50),
            Finds("PHONE", 3, 6, 40), Finds("UK_SORT_CODE", 6, 8, 70)}, 3, 6),
   Text(2, {}, 0, Missing),
   Text(1, {Finds("PERSON", 0, 3, 85), Finds("CARD", 4, 9, 100)}, 0, 0),
   Text(1, {}, Missing, 0)}
=============================================================================
