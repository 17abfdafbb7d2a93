--------------------------- MODULE CatalystTrail ---------------------------
(***************************************************************************)
(* The life of one catalyst that only the classifier moves: answer after   *)
(* answer is guarded, applied to the state and appended to the evidence    *)
(* trail (scheduler_service._process_thesis with                           *)
(* catalyst_repository.record_verdict).  Concurrent sweeps and edits by    *)
(* the user are the subject of module Sweep.                               *)
(***************************************************************************)
EXTENDS CatalystRules, Naturals, Sequences

CONSTANT MaxTrail   \* bound of the model: how many answers are recorded
ASSUME MaxTrailAssumption == MaxTrail \in Nat

VARIABLES state,    \* Catalyst.state
          evidence  \* Catalyst.evidence: the answers, oldest first

vars == <<state, evidence>>

TypeOK == /\ state \in CatalystState
          /\ evidence \in Seq(Answer)
          /\ Len(evidence) <= MaxTrail

Init == /\ state = "unconfirmed"
        /\ evidence = <<>>

\* One iteration of the verdict loop.
RecordVerdict(a) ==
  /\ Len(evidence) < MaxTrail
  /\ state' = Apply(state, ApplyGuards(a))
  /\ evidence' = Append(evidence, a)

Next == \E a \in Answer : RecordVerdict(a)

Spec == Init /\ [][Next]_vars

-----------------------------------------------------------------------------
(***************************************************************************)
(* What the rules promise, said of the raw answers and without the rules:  *)
(* an answer decides the catalyst when it quotes the article verbatim, the *)
(* article has a body, and its source is credible; it hints at it when it  *)
(* proposes good news with a verbatim quote and does not decide, or quotes *)
(* a headline-only article for anything at all.                            *)
(***************************************************************************)
Decides(a) == /\ a.quote = "verbatim"
              /\ a.body
              /\ a.source \in {"primary", "reporting"}
              /\ a.proposed \in {"confirmed", "invalidated"}

Hints(a) == /\ a.quote = "verbatim"
            /\ \/ a.proposed \in {"rumored", "confirmed"}
               \/ a.proposed = "invalidated" /\ ~a.body

LastDecisive(i) == /\ i \in DOMAIN evidence
                   /\ Decides(evidence[i])
                   /\ \A j \in DOMAIN evidence : j > i => ~Decides(evidence[j])

\* The state is always what the last deciding answer of the whole trail said;
\* before there is one, it is rumored exactly when some answer hinted.  So the
\* order of hints never matters, no rumor touches a decided catalyst, and
\* nothing without a traceable quote, a body and a credible source confirms or
\* invalidates (pipeline/llm.py:189-212 and pipeline/catalysts.py:80-125).
StateIsLastDecision ==
  /\ \A i \in DOMAIN evidence : LastDecisive(i) => state = evidence[i].proposed
  /\ (\A i \in DOMAIN evidence : ~Decides(evidence[i]))
       => state = IF \E i \in DOMAIN evidence : Hints(evidence[i])
                  THEN "rumored" ELSE "unconfirmed"
=============================================================================
