--------------------------- MODULE EvaluatorDrift --------------------------
(***************************************************************************)
(* A thesis whose inputs drift between sweeps, and the status each sweep   *)
(* computes: the market moves a reading or takes it away, a catalyst       *)
(* changes state, the user enables or disables a row or changes a mode.    *)
(* Each step is one sweep and what changed since the one before.           *)
(***************************************************************************)
EXTENDS ThesisEvaluator

CONSTANTS Quants, Catalysts     \* the rows of the thesis

VARIABLES qmode, cmode,         \* Theses.quant_mode, Theses.catalyst_mode
          readings,             \* readings of the enabled quant conditions
          states,               \* states of the enabled catalysts
          status                \* the last evaluation's status

vars == <<qmode, cmode, readings, states, status>>

TypeOK == /\ qmode \in QuantMode
          /\ cmode \in CatalystMode
          /\ DOMAIN readings \subseteq Quants
          /\ readings \in [DOMAIN readings -> Reading]
          /\ DOMAIN states \subseteq Catalysts
          /\ states \in [DOMAIN states -> CatalystState]
          /\ status \in EvalStatus

\* The evaluation that ends every sweep.
Sweep == status' = Evaluate(qmode', readings', cmode', states')

Init == /\ qmode \in QuantMode
        /\ cmode \in CatalystMode
        /\ \E Q \in SUBSET Quants : readings \in [Q -> Reading]
        /\ \E C \in SUBSET Catalysts : states = [c \in C |-> "unconfirmed"]
        /\ status = Evaluate(qmode, readings, cmode, states)

\* The sweep reads the market anew and its verdicts may move the catalysts.
SweepFinds(found, judged) ==
  /\ readings' = found
  /\ states' = judged
  /\ UNCHANGED <<qmode, cmode>>
  /\ Sweep

\* The user changes the modes or the set of enabled rows.
RowsOrModesChange ==
  /\ qmode' \in QuantMode
  /\ cmode' \in CatalystMode
  /\ \E Q \in SUBSET Quants : readings' \in [Q -> Reading]
  /\ \E C \in SUBSET Catalysts :
       states' = [c \in C |-> IF c \in DOMAIN states THEN states[c] ELSE "unconfirmed"]
  /\ Sweep

Next == \/ \E found \in [DOMAIN readings -> Reading],
              judged \in [DOMAIN states -> CatalystState] : SweepFinds(found, judged)
        \/ RowsOrModesChange

Spec == Init /\ [][Next]_vars

-----------------------------------------------------------------------------
(***************************************************************************)
(* The reference the status is judged against: two-valued truth of the     *)
(* thesis once every unknown reading has been resolved one way or the      *)
(* other.  A side without rows does not gate the thesis.                   *)
(***************************************************************************)
Completions == {f \in [DOMAIN readings -> {"pass", "fail"}] :
                  \A q \in DOMAIN readings :
                    readings[q] # "unknown" => f[q] = readings[q]}

QuantHolds(f) ==
  \/ DOMAIN f = {}
  \/ qmode = "ALL" /\ \A q \in DOMAIN f : f[q] = "pass"
  \/ qmode = "ANY" /\ \E q \in DOMAIN f : f[q] = "pass"

CatalystsHold ==
  \/ cmode = "NONE_REQUIRED"
  \/ DOMAIN states = {}
  \/ cmode = "ALL" /\ \A c \in DOMAIN states : states[c] = "confirmed"
  \/ cmode = "ANY" /\ \E c \in DOMAIN states : states[c] = "confirmed"

ThesisHolds(f) == QuantHolds(f) /\ CatalystsHold

\* The thesis fires exactly when it is true however the missing data turns
\* out, and is "incomplete" exactly when the missing data could still make it
\* true and could still make it false (pipeline/evaluator.py:31-82, "The only
\* thing missing is data"); otherwise nothing missing matters and it is
\* "not_met".
StatusIsForced ==
  /\ status = "firing"  <=> \A f \in Completions : ThesisHolds(f)
  /\ status = "not_met" <=> \A f \in Completions : ~ThesisHolds(f)

\* When the only change is that a reading is lost, a firing thesis becomes
\* incomplete at worst, never silently "not_met", and no thesis starts firing
\* (pipeline/evaluator.py:7-10).
DataIsLost == /\ UNCHANGED <<qmode, cmode, states>>
              /\ DOMAIN readings' = DOMAIN readings
              /\ \A q \in DOMAIN readings : readings'[q] \in {readings[q], "unknown"}

LostDataIsNeverSilent ==
  [][DataIsLost => /\ status = "firing"  => status' # "not_met"
                   /\ status # "firing" => status' # "firing"]_vars
=============================================================================
