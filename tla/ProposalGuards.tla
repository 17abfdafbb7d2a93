--------------------------- MODULE ProposalGuards ---------------------------
(***************************************************************************)
(* pipeline/proposals.py: what becomes of the drafts a reviewer writes     *)
(* about one thesis.  A draft names its target ("quant" or "catalyst") and *)
(* action ("add", "update" or "remove"), the row it is about, what that    *)
(* row should become, the article behind it (its place in the list shown,  *)
(* from 1; 0 is None) and a confidence in percent.  The rationale, which   *)
(* must only not be blank, is left out, and names are equal when their     *)
(* normal forms are.                                                       *)
(*                                                                         *)
(* A thesis is seen by its enabled rows: conditions is a function from     *)
(* their ids to [metric, operator, value], catalysts one from their ids to *)
(* descriptions, and live gives each condition the value it was judged on, *)
(* None when there was none.                                               *)
(***************************************************************************)
EXTENDS ThesisEvaluator, Integers, FiniteSets

CONSTANTS
  None,               \* no value, no id
  FETCHABLE_METRICS,  \* METRIC_MAP's metrics
  MAX_REFINEMENTS, MAX_DISCOVERIES

OPERATORS == {"<", "<=", ">", ">=", "=="}

\* The floors, in percent.
MIN_CONFIDENCE_REFINEMENT == 55
MIN_CONFIDENCE_DISCOVERY  == 45

\* _OPS
Holds(op, a, b) ==
  \/ op = "<"  /\ a < b
  \/ op = "<=" /\ a <= b
  \/ op = ">"  /\ a > b
  \/ op = ">=" /\ a >= b
  \/ op = "==" /\ a = b

\* evaluate_conditions: what a condition makes of the value found for it.
Resolve(condition, value) ==
  IF value = None \/ condition.operator \notin OPERATORS THEN "unknown"
  ELSE IF Holds(condition.operator, value, condition.value) THEN "pass" ELSE "fail"

IsDiscovery(p) == p.target = "catalyst" /\ p.action = "add"

Condition(p) == [metric |-> p.metric, operator |-> p.operator, value |-> p.value]

(***************************************************************************)
(* _reject_reason, guard by guard                                          *)
(***************************************************************************)
Confident(p) ==
  p.confidence >= IF IsDiscovery(p) THEN MIN_CONFIDENCE_DISCOVERY
                                    ELSE MIN_CONFIDENCE_REFINEMENT

\* Guard 1.
NamesARow(p, known) == p.action \in {"update", "remove"} => p.id \in known

\* Slip: the operator is taken on trust.
ResolvableMetric(p) == p.metric \in FETCHABLE_METRICS /\ p.value # None

\* Guard 2.
Resolvable(p) ==
  p.metric \in FETCHABLE_METRICS /\ p.operator \in OPERATORS /\ p.value # None

\* Slip: a condition that does not resolve is looked at, one that fails is not.
WeakensUnresolved(p, current, live) ==
  /\ p.metric = current.metric
  /\ Resolve(current, live) = "unknown" /\ Resolve(Condition(p), live) = "pass"

\* Guard 7, _weakens_into_firing: the condition fails on the value just judged
\* and the proposed one passes on it.
WeakensIntoFiring(p, current, live) ==
  /\ p.metric = current.metric
  /\ Resolve(current, live) = "fail" /\ Resolve(Condition(p), live) = "pass"

\* Guards 2, 3, 7 and 9.
QuantStands(p, conditions, live) ==
  /\ Resolvable(p)
  /\ p.action = "add" => \A c \in DOMAIN conditions : conditions[c].metric # p.metric
  /\ p.action = "update" =>
       /\ Condition(p) # conditions[p.id]
       /\ ~WeakensIntoFiring(p, conditions[p.id], live[p.id])

\* Guards 4 and 8, and 3 for a re-wording.
CatalystStands(p, catalysts, articles) ==
  /\ p.description # None
  /\ p.action = "update" => p.description # catalysts[p.id]
  /\ p.action = "add" => /\ \A c \in DOMAIN catalysts : catalysts[c] # p.description
                         /\ p.article \in 1..articles

Stands(p, conditions, catalysts, live, articles) ==
  LET known == IF p.target = "quant" THEN DOMAIN conditions ELSE DOMAIN catalysts IN
  /\ Confident(p)
  /\ NamesARow(p, known)
  /\ \/ p.action = "remove"
     \/ p.target = "quant" /\ QuantStands(p, conditions, live)
     \/ p.target = "catalyst" /\ CatalystStands(p, catalysts, articles)

\* Guard 6, a kind's quota: the `max' most confident; a tie may fall either way.
Top(drafts, max) ==
  {kept \in SUBSET drafts :
     /\ Cardinality(kept) = IF Cardinality(drafts) < max THEN Cardinality(drafts) ELSE max
     /\ \A p \in kept, q \in drafts \ kept : p.confidence >= q.confidence}

\* _apply_guards: what may remain of the drafts.
ApplyProposalGuards(drafts, conditions, catalysts, live, articles) ==
  LET standing    == {p \in drafts : Stands(p, conditions, catalysts, live, articles)}
      discoveries == {p \in standing : IsDiscovery(p)}
  IN {refined \union found : refined \in Top(standing \ discoveries, MAX_REFINEMENTS),
                             found \in Top(discoveries, MAX_DISCOVERIES)}
=============================================================================
