-------------------------- MODULE ThesisEvaluator --------------------------
(***************************************************************************)
(* pipeline/evaluator.py: one thesis, the readings of its enabled quant    *)
(* conditions and the states of its enabled catalysts, combined into a     *)
(* status.  A reading is "pass", "fail" or "unknown" (passes is True,      *)
(* False or None); readings and states are functions whose domains are the *)
(* enabled rows.  The wording of blocked_by and reason is left out.        *)
(***************************************************************************)
EXTENDS CatalystRules

Reading      == {"pass", "fail", "unknown"}
QuantMode    == {"ALL", "ANY"}
CatalystMode == {"ALL", "ANY", "NONE_REQUIRED"}
EvalStatus   == {"firing", "incomplete", "not_met"}

Read(readings, r) == \E q \in DOMAIN readings : readings[q] = r

(***************************************************************************)
(* _eval_quant: "ok", "unknown" or "fail".  A thesis with no enabled       *)
(* condition is not gated by the quant side in either mode; in ALL mode a  *)
(* definite failure dominates an unknown, in ANY mode a pass does.         *)
(***************************************************************************)
QuantOK(mode, readings) ==
  \/ DOMAIN readings = {}
  \/ mode = "ANY" /\ Read(readings, "pass")
  \/ mode = "ALL" /\ ~Read(readings, "fail") /\ ~Read(readings, "unknown")

\* Slip: in ALL mode an unknown reading hides a definite failure.
QuantUnknownHidesFailure(mode, readings) ==
  /\ ~QuantOK(mode, readings)
  /\ Read(readings, "unknown")

\* Slip: an unresolved reading counts as a failure.
QuantUnknownNever(mode, readings) == FALSE

QuantUnknown(mode, readings) ==
  /\ ~QuantOK(mode, readings)
  /\ Read(readings, "unknown")
  /\ mode = "ALL" => ~Read(readings, "fail")

EvalQuant(mode, readings) ==
  IF QuantOK(mode, readings) THEN "ok"
  ELSE IF QuantUnknown(mode, readings) THEN "unknown"
  ELSE "fail"

(***************************************************************************)
(* _eval_catalysts                                                         *)
(***************************************************************************)
EvalCatalysts(mode, states) ==
  \/ mode = "NONE_REQUIRED"
  \/ DOMAIN states = {}
  \/ mode = "ANY" /\ \E c \in DOMAIN states : IsMet(states[c])
  \/ mode = "ALL" /\ \A c \in DOMAIN states : IsMet(states[c])

(***************************************************************************)
(* evaluate: the signal is status = "firing".                              *)
(***************************************************************************)
\* Slip: the status is the quant side's own three-valued outcome.
EvaluateEchoesQuant(qmode, readings, cmode, states) ==
  LET quant == EvalQuant(qmode, readings)
  IN  IF quant = "ok" /\ EvalCatalysts(cmode, states) THEN "firing" ELSE quant

Evaluate(qmode, readings, cmode, states) ==
  LET quant == EvalQuant(qmode, readings)
      cats  == EvalCatalysts(cmode, states)
  IN  IF quant = "ok" /\ cats THEN "firing"
      ELSE IF quant = "unknown" /\ cats THEN "incomplete"
      ELSE "not_met"
=============================================================================
