------------------------------ MODULE PiiGuard ------------------------------
(***************************************************************************)
(* The guards around a model: PresidioPiiDetector.scan (safety/pii.py) and *)
(* ContentSafetyPolicy (safety/content_safety.py) with the adapters'       *)
(* severities (safety/azure_content_safety.py).  What the analyzer and the *)
(* classifier find in a text is external: a text is what they find in it.  *)
(***************************************************************************)
EXTENDS Integers, FiniteSets

CONSTANTS
  Category,     (* of content safety                                       *)
  Thresholds,   (* of the categories that have one                         *)
  BlockEntities (* entity types that are blocked; others are masked        *)

Missing == -1   (* no severity in an analysis of Azure                     *)

ASSUME ThresholdsAreSeverities ==
  DOMAIN Thresholds \subseteq Category /\ \A c \in DOMAIN Thresholds : Thresholds[c] \in 0..7

(* `cost`: the preflight estimate for the masked text.                     *)
IsText(t) ==
  /\ t.length \in Nat /\ t.cost \in Nat
  /\ \A f \in t.findings : f.end \in 1..t.length /\ f.start \in 0..f.end-1 /\ f.score \in 0..100
  /\ DOMAIN t.severity = Category /\ \A c \in Category : t.severity[c] \in 0..7 \cup {Missing}

-----------------------------------------------------------------------------
PiiBlocked(t) == \E f \in t.findings : f.type \in BlockEntities

(* sorted by (start, -score)                                               *)
Before(f, g) == f.start < g.start \/ (f.start = g.start /\ f.score > g.score)

(* A bug for the runs to catch: a finding that touches the last one is     *)
(* skipped.                                                                *)
ClearOfClosed(f, g) == g.end < f.start
ClearOf(f, g) == g.end <= f.start

(* A finding is masked unless it starts within one that is.                *)
Masked(t) ==
  CHOOSE kept \in SUBSET t.findings :
    \A f \in t.findings : f \in kept <=> \A g \in kept : Before(g, f) => ClearOf(f, g)

Span(f) == f.start .. f.end-1

(* The positions of the text that are still there in sanitized_text.       *)
Sanitized(t) == 0..t.length-1 \ UNION {Span(f) : f \in Masked(t)}

-----------------------------------------------------------------------------
Threshold(c) == IF c \in DOMAIN Thresholds THEN Thresholds[c] ELSE 8
Severity(t, c) == IF t.severity[c] = Missing THEN 7 ELSE t.severity[c]
ContentBlocked(t) == \E c \in Category : Severity(t, c) >= Threshold(c)
=============================================================================
