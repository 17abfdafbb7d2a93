--------------------------- MODULE MCThesisReview ---------------------------
(***************************************************************************)
(* ThesisReview on a small instance: two conditions, two metrics worth 1   *)
(* or 2, two articles of which the reviewer reads one.                     *)
(***************************************************************************)
EXTENDS ThesisReview, TLC

CONSTANTS q1, q2, pe, beta, c1, s1, s2

When(metric, operator, value) == [metric |-> metric, operator |-> operator, value |-> value]

Rows == [q \in {q1, q2} |-> IF q = q1 THEN When(pe, ">=", 2) ELSE When(beta, "<", 2)]
Gated    == [qmode |-> "ALL", cmode |-> "ALL", conditions |-> Rows, catalysts |-> {c1}]
QuantAny == [qmode |-> "ANY", cmode |-> "NONE_REQUIRED", conditions |-> Rows, catalysts |-> {}]
Created1 == {Gated, QuantAny}
Edited1  == {When(pe, "<", 2)}

Market(p, b) == [m \in {pe, beta} |-> IF m = pe THEN p ELSE b]
Markets1 == {Market(1, 2), Market(2, 2), Market(1, None)}

Confirms == [proposed |-> "confirmed", source |-> "primary"]
Denies   == [proposed |-> "invalidated", source |-> "primary"]
Verdicts1 == {Confirms, Denies}

Draft(q, m, op, v, confidence) ==
  [target |-> "quant", action |-> "update", id |-> q, metric |-> m, operator |-> op,
   value |-> v, description |-> None, article |-> 0, confidence |-> confidence]
Discovery == [target |-> "catalyst", action |-> "add", id |-> None, metric |-> None, operator |-> None,
   value |-> None, description |-> c1, article |-> 1, confidence |-> 50]
Removal == [Draft(q1, None, None, None, 80) EXCEPT !.action = "remove"]

Reviews1 == {{Draft(q1, pe, ">=", 1, 80), Draft(q2, beta, ">=", 2, 60), Discovery},
             {Draft(q1, pe, ">=", 2, 80), Draft(q2, pe, "<", 2, 70),
              Draft(q1, pe, "!=", 1, 90), Removal}}

Interchangeable == Permutations({s1, s2})
=============================================================================
