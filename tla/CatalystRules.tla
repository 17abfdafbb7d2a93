--------------------------- MODULE CatalystRules ---------------------------
(***************************************************************************)
(* How one classifier answer moves one catalyst: the guards that           *)
(* pipeline/llm.py puts between the model's raw answer and a verdict, and  *)
(* the state machine of pipeline/catalysts.py that a verdict drives.       *)
(*                                                                         *)
(* A raw answer is a record                                                *)
(*   proposed : what the model proposes,                                   *)
(*   source   : how the model rates the article's sourcing,                *)
(*   quote    : whether it gave a quote ("none"), one that is in the       *)
(*              article ("verbatim") or one that is not ("untraceable"),   *)
(*   body     : whether the article has a body or only a headline.         *)
(* A verdict is the pair [proposed, source] that survives the guards.      *)
(***************************************************************************)

CatalystState    == {"unconfirmed", "rumored", "confirmed", "invalidated"}
CatalystProposal == {"no_change", "rumored", "confirmed", "invalidated"}
SourceKind       == {"primary", "reporting", "speculation"}
CREDIBLE_SOURCES == {"primary", "reporting"}
QuoteKind        == {"none", "untraceable", "verbatim"}

Verdict == [proposed : CatalystProposal, source : SourceKind]
Answer  == [proposed : CatalystProposal, source : SourceKind,
            quote : QuoteKind, body : BOOLEAN]

Credible(v) == v.source \in CREDIBLE_SOURCES

(***************************************************************************)
(* llm._apply_guards                                                       *)
(***************************************************************************)
\* Slip: the headline-only guard caps a confirmation but not an invalidation.
ApplyGuardsCapsOnlyConfirmed(a) ==
  [proposed |-> IF a.proposed # "no_change" /\ a.quote # "verbatim" THEN "no_change"
                ELSE IF ~a.body /\ a.proposed = "confirmed" THEN "rumored"
                ELSE a.proposed,
   source   |-> a.source]

ApplyGuards(a) ==
  [proposed |-> IF a.proposed # "no_change" /\ a.quote # "verbatim" THEN "no_change"
                ELSE IF ~a.body /\ a.proposed \in {"confirmed", "invalidated"} THEN "rumored"
                ELSE a.proposed,
   source   |-> a.source]

(***************************************************************************)
(* catalysts.is_met and catalysts.apply                                    *)
(***************************************************************************)
IsMet(state) == state = "confirmed"

\* A speculative "confirmation" is really just a rumor.
Effective(v) == IF v.proposed = "confirmed" /\ ~Credible(v) THEN "rumored"
                                                           ELSE v.proposed

\* Slip: a rumor is let through from every state but confirmed, so that it
\* revives an invalidated catalyst.
ApplyRevives(state, v) ==
  CASE Effective(v) = "confirmed"                         -> "confirmed"
    [] Effective(v) = "invalidated" /\ Credible(v)        -> "invalidated"
    [] Effective(v) = "rumored" /\ state # "confirmed"    -> "rumored"
    [] OTHER                                              -> state

\* Slip: a deciding verdict's proposal is stored as the state, no_change too.
ApplyStoresProposal(state, v) ==
  CASE Effective(v) \in {"confirmed", "no_change"}         -> Effective(v)
    [] Effective(v) = "invalidated" /\ Credible(v)        -> "invalidated"
    [] Effective(v) = "rumored" /\ state = "unconfirmed"  -> "rumored"
    [] OTHER                                              -> state

\* The state after verdict v: only a credible source decides, and a rumor
\* only ever raises a catalyst nothing has been said about.
Apply(state, v) ==
  CASE Effective(v) = "confirmed"                         -> "confirmed"
    [] Effective(v) = "invalidated" /\ Credible(v)        -> "invalidated"
    [] Effective(v) = "rumored" /\ state = "unconfirmed"  -> "rumored"
    [] OTHER                                              -> state
=============================================================================
