--------------------------- MODULE MCTaskRevision ---------------------------
(* Small instances of TaskRevision: a strict guide and a lenient one. *)
EXTENDS TaskRevision

CONSTANTS strict, lenient

TwoGuides == {strict, lenient}
RoundsOf == [g \in Guides |-> IF g = strict THEN 0 ELSE 1]
NoHumanReview == {}
StrictHumanReview == {strict}
HoursOf == [g \in Guides |-> IF g = strict THEN 1 ELSE 2]
=============================================================================
