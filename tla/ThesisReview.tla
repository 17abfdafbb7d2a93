---------------------------- MODULE ThesisReview ----------------------------
(***************************************************************************)
(* The reviewer's turn at the end of a sweep (scheduler_service.py,        *)
(* _nothing_new_since and _generate_proposals): the change gate that       *)
(* decides whether a sweep has anything new for it, the review, and the    *)
(* updates of quant conditions the owner may approve from it.  Sweeps of   *)
(* one thesis may overlap, as the loop's and those that approved proposals *)
(* start do (api/v1/proposal.py:114, 146).                                 *)
(* The other suggestions and the answers' transactions are the matter of   *)
(* ProposalLifecycle.                                                      *)
(*                                                                         *)
(* Articles are numbered as they are published, so that a time is the      *)
(* number of articles published by then; the sources may list one late.    *)
(* Sweeps are numbered as their transactions start, which is the order of  *)
(* their evaluations' created_at.                                          *)
(***************************************************************************)
EXTENDS ProposalGuards

CONSTANTS
  Created,       \* the theses: modes, quant conditions and catalysts
  Edited,        \* what the owner may make of a condition
  Markets,       \* what the metrics may be worth when a sweep asks
  Tolerance,     \* _QUANT_DRIFT_REL_TOL, as a difference
  Verdicts,      \* what the classifier may answer
  Reviews,       \* the sets of drafts the reviewer may write
  MAX_ARTICLES,  \* articles the reviewer is shown
  Sessions,      \* sweeps in flight at once
  MaxArticles,   \* bound: articles published
  MaxSweeps,     \* bound: sweeps begun
  MaxEdits,      \* bound: the owner's edits
  NoEvaluation

ASSUME BoundsAssumption ==
  /\ MaxArticles \in Nat /\ MaxSweeps \in Nat /\ MaxEdits \in Nat
  /\ MAX_ARTICLES \in Nat /\ MAX_REFINEMENTS \in Nat /\ Tolerance \in Nat

\* What the requests are validated for (dto/theses.py): the modes are of their
\* enumerations, VALID_OPERATORS, a threshold is a number.  A metric is any string.
IsRow(c) == c.operator \in OPERATORS /\ c.value \in Int

ASSUME RequestsAssumption ==
  /\ \A t \in Created : /\ t.qmode \in QuantMode /\ t.cmode \in CatalystMode
                        /\ \A c \in DOMAIN t.conditions : IsRow(t.conditions[c])
  /\ \A e \in Edited : IsRow(e)

\* The reviewer's answer is a list; a draft's value is a number or null.
ASSUME ReviewsAssumption ==
  \A drafts \in Reviews : /\ IsFiniteSet(drafts)
                          /\ \A p \in drafts : p.value \in Int \union {None}

VARIABLES
  qmode, cmode,  \* the thesis's modes
  conditions,    \* its enabled quant conditions
  states,        \* the states of its enabled catalysts
  published,     \* articles published
  listed,        \* those the sources list
  begun,         \* sweeps begun
  sweep,         \* where each session's sweep is, and what it has found
  latest,        \* get_latest_evaluation
  offers,        \* pending updates: the sweep they are from, and the draft
  edits,         \* the owner's edits so far
  touched,       \* history: since the latest evaluation a condition changed, by
                 \*   anything but the approval of one of its own offers
  reviewed,      \* history: articles that reached the reviewer
  missed         \* history: articles a sweep had reason not to show it

thesis == <<qmode, cmode, conditions, states>>
news   == <<published, listed>>
queue  == <<offers, edits, touched>>
seen   == <<reviewed, missed>>
vars   == <<thesis, news, begun, sweep, latest, queue, seen>>

NoSweep == [pc |-> "none", number |-> 0, cutoff |-> 0,
            conditions |-> <<>>, states |-> <<>>, moved |-> {}, got |-> {},
            result |-> NoEvaluation, shown |-> {}, lost |-> {}, made |-> {}]

Init ==
  /\ \E t \in Created :
       /\ qmode = t.qmode /\ cmode = t.cmode
       /\ conditions = t.conditions
       /\ states = [c \in t.catalysts |-> "unconfirmed"]
  /\ published = 0 /\ listed = {}
  /\ begun = 0 /\ sweep = [s \in Sessions |-> NoSweep]
  /\ latest = NoEvaluation
  /\ offers = {} /\ edits = 0 /\ touched = FALSE
  /\ reviewed = {} /\ missed = {}

-----------------------------------------------------------------------------
Publish ==
  /\ published < MaxArticles
  /\ published' = published + 1
  /\ UNCHANGED <<thesis, listed, begun, sweep, latest, queue, seen>>

List(a) ==
  /\ a \in (1..published) \ listed
  /\ listed' = listed \union {a}
  /\ UNCHANGED <<thesis, published, begun, sweep, latest, queue, seen>>

-----------------------------------------------------------------------------
\* The sweep's transaction starts, and reads the thesis.
Begin(s) ==
  /\ sweep[s].pc = "none" /\ begun < MaxSweeps
  /\ begun' = begun + 1
  /\ sweep' = [sweep EXCEPT ![s] =
       [NoSweep EXCEPT !.pc = "began", !.number = begun + 1, !.cutoff = published,
                       !.conditions = conditions, !.states = states]]
  /\ UNCHANGED <<thesis, news, latest, queue, seen>>

\* The news and, for a thesis with catalysts, the verdicts on it.  A failed
\* fetch fails the sweep of a thesis with catalysts; for one without, it is the
\* reviewer that fetches, and goes on without articles.
Fetch(s) ==
  LET had == sweep[s].states IN
  /\ sweep[s].pc = "began"
  /\ \/ \E v \in [DOMAIN had -> Verdicts] :
          LET judged == IF listed = {} THEN had
                        ELSE [c \in DOMAIN had |-> Apply(had[c], v[c])]
          IN sweep' = [sweep EXCEPT ![s] =
               [@ EXCEPT !.pc = "fetched", !.got = listed, !.states = judged,
                         !.moved = {c \in DOMAIN had : judged[c] # had[c]}]]
     \/ /\ DOMAIN had = {}
        /\ sweep' = [sweep EXCEPT ![s] = [@ EXCEPT !.pc = "fetched"]]
  /\ UNCHANGED <<thesis, news, begun, latest, queue, seen>>

-----------------------------------------------------------------------------
\* Slip: a condition that passes now and failed then is no news.
DuplicatedValues(was, is) ==
  /\ DOMAIN was = DOMAIN is
  /\ \A c \in DOMAIN is :
       /\ (was[c].value = None) = (is[c].value = None)
       /\ is[c].value # None => /\ is[c].value - was[c].value <= Tolerance
                                /\ was[c].value - is[c].value <= Tolerance

\* is_duplicated_quant: the same conditions with the same outcomes, on values
\* within the tolerance of the previous sweep's.
DuplicatedQuant(was, is) ==
  /\ DOMAIN was = DOMAIN is
  /\ \A c \in DOMAIN is :
       /\ was[c].passes = is[c].passes
       /\ (was[c].value = None) = (is[c].value = None)
       /\ is[c].value # None => /\ is[c].value - was[c].value <= Tolerance
                                /\ was[c].value - is[c].value <= Tolerance

\* _nothing_new_since
NothingNew(previous, status, detail, got, moved) ==
  /\ previous # NoEvaluation /\ moved = {}
  /\ previous.status = status
  /\ \A a \in got : a <= previous.cutoff
  /\ DuplicatedQuant(previous.detail, detail)

\* Newest first, and as many as the reviewer reads.
Shown(got) == {a \in got : Cardinality({b \in got : b > a}) < MAX_ARTICLES}

\* Slip: the evaluation is dated when it is inserted.
InsertedAt(s) == published

\* created_at: func.now() is when the transaction started.
CreatedAt(s) == sweep[s].cutoff

\* What the quant side of an evaluation says of its conditions.
Outcomes(detail) == [c \in DOMAIN detail |-> detail[c].passes]

Live(detail) == [c \in DOMAIN detail |-> detail[c].value]

\* Updates that survive the guards; a suggestion that is pending already, or
\* whose insertion fails, is left out.
MayOffer(s, drafts, detail, shown) ==
  LET catalysts == [c \in DOMAIN sweep[s].states |-> c]
      pending   == {o.draft : o \in offers}
  IN {{p \in kept : p.target = "quant" /\ p.action = "update"} \ pending :
        kept \in ApplyProposalGuards(drafts, sweep[s].conditions, catalysts, Live(detail),
                                     Cardinality(shown))}

\* The evaluation and, unless nothing is new, the review; a review that fails
\* leaves no suggestion and does not stop the sweep.
Evaluation(s) ==
  /\ sweep[s].pc = "fetched"
  /\ \E value \in Markets :
       LET cs     == sweep[s].conditions
           detail == [c \in DOMAIN cs |-> [metric |-> cs[c].metric,
                                           value  |-> value[cs[c].metric],
                                           passes |-> Resolve(cs[c], value[cs[c].metric])]]
           status == Evaluate(qmode, Outcomes(detail), cmode, sweep[s].states)
           got    == sweep[s].got
           quiet  == NothingNew(latest, status, detail, got, sweep[s].moved)
           result == [number |-> sweep[s].number, cutoff |-> CreatedAt(s),
                      status |-> status, detail |-> detail, states |-> sweep[s].states,
                      asked  |-> IF quiet THEN latest.asked
                                 ELSE [status |-> status, outcomes |-> Outcomes(detail)]]
           Ends(shown, lost, made) ==
             sweep' = [sweep EXCEPT ![s] =
               [@ EXCEPT !.pc = "evaluated", !.result = result,
                         !.shown = shown, !.lost = lost, !.made = made]]
       IN \/ quiet /\ Ends({}, {}, {})
          \/ ~quiet /\ Ends({}, got, {})
          \/ /\ ~quiet
             /\ \E drafts \in Reviews :
                  \E made \in MayOffer(s, drafts, detail, Shown(got)) :
                    Ends(Shown(got), got \ Shown(got), made)
  /\ UNCHANGED <<thesis, news, begun, latest, queue, seen>>

Commit(s) ==
  LET r == sweep[s].result IN
  /\ sweep[s].pc = "evaluated"
  /\ states' = [c \in DOMAIN states |->
                  IF c \in sweep[s].moved THEN sweep[s].states[c] ELSE states[c]]
  /\ IF latest # NoEvaluation /\ latest.number > r.number
     THEN UNCHANGED <<latest, touched>>
     ELSE latest' = r /\ touched' = (conditions # sweep[s].conditions)
  /\ offers' = offers \union {[by |-> r.number, draft |-> p] : p \in sweep[s].made}
  /\ reviewed' = reviewed \union sweep[s].shown
  /\ missed' = missed \union sweep[s].lost \union ((1..sweep[s].cutoff) \ sweep[s].got)
  /\ sweep' = [sweep EXCEPT ![s] = NoSweep]
  /\ UNCHANGED <<qmode, cmode, conditions, news, begun, edits>>

\* Whatever fails rolls the sweep back.
SweepFails(s) ==
  /\ sweep[s].pc # "none"
  /\ sweep' = [sweep EXCEPT ![s] = NoSweep]
  /\ UNCHANGED <<thesis, news, begun, latest, queue, seen>>

-----------------------------------------------------------------------------
\* The owner approves an update: the condition changes, and the other updates
\* of it are superseded.
Approve(o) ==
  /\ o \in offers
  /\ conditions' = [conditions EXCEPT ![o.draft.id] = Condition(o.draft)]
  /\ offers' = {x \in offers : x.draft.id # o.draft.id}
  /\ touched' = \/ touched \/ o.by # latest.number
                \/ o.draft.metric # conditions[o.draft.id].metric
  /\ UNCHANGED <<qmode, cmode, states, news, begun, sweep, latest, edits, seen>>

EditCondition(c) ==
  /\ edits < MaxEdits
  /\ \E other \in Edited : conditions' = [conditions EXCEPT ![c] = other]
  /\ edits' = edits + 1
  /\ touched' = TRUE
  /\ UNCHANGED <<qmode, cmode, states, news, begun, sweep, latest, offers, seen>>

Next ==
  \/ Publish \/ \E a \in 1..MaxArticles : List(a)
  \/ \E s \in Sessions : Begin(s) \/ Fetch(s) \/ Evaluation(s) \/ Commit(s) \/ SweepFails(s)
  \/ \E o \in offers : Approve(o)
  \/ \E c \in DOMAIN conditions : EditCondition(c)

Spec == Init /\ [][Next]_vars

-----------------------------------------------------------------------------
(***************************************************************************)
(* Properties                                                              *)
(***************************************************************************)
Mode == {"none", "began", "fetched", "evaluated"}

\* The metrics the owner asked for, fetchable or not.
OwnMetrics == {e.metric : e \in Edited} \union
              UNION {{t.conditions[c].metric : c \in DOMAIN t.conditions} : t \in Created}

\* The rows, the articles and the sweeps stay in their types: whatever is
\* approved, every condition the owner has not written can be resolved
\* (proposals.py:17-19, 365-372).
TypeOK ==
  /\ qmode \in QuantMode /\ cmode \in CatalystMode
  /\ \A c \in DOMAIN conditions : /\ conditions[c].metric \in FETCHABLE_METRICS \union OwnMetrics
                                  /\ IsRow(conditions[c])
  /\ offers \subseteq [by : 1..MaxSweeps, draft : UNION Reviews]
  /\ states \in [DOMAIN states -> CatalystState]
  /\ published \in 0..MaxArticles /\ listed \subseteq 1..published
  /\ \A s \in Sessions :
       /\ sweep[s].pc \in Mode
       /\ Cardinality(sweep[s].made) <= MAX_REFINEMENTS
       /\ Cardinality(sweep[s].shown) <= MAX_ARTICLES
  /\ latest # NoEvaluation => latest.status \in EvalStatus
  /\ reviewed \subseteq listed /\ missed \subseteq 1..published

\* No news slips past the reviewer: an article published before the latest
\* evaluation began has been shown to it, unless a sweep listed it late, lost it
\* to a failed fetch or review, or had newer ones to show (scheduler_service.py:
\* 101-124, 311-350, "literally nothing moved since the last sweep").
NewsReachesReviewer ==
  latest # NoEvaluation => 1..latest.cutoff \subseteq reviewed \union missed

\* The thesis stands as it did when the reviewer was last asked, however many
\* sweeps have been gated since and whichever of them overlapped: its status
\* and what its conditions come to are the same (scheduler_service.py:107-144).
ReviewerAskedOfThis ==
  latest # NoEvaluation =>
    latest.asked = [status |-> latest.status, outcomes |-> Outcomes(latest.detail)]

\* Approving suggestions, any of them in any order, does not by itself make a
\* thesis fire on the values they were made for: "a proposal must never weaken
\* a thesis into firing" is kept by judging each update alone (proposals.py:
\* 27-29, 391-393).  A change of metric, a stale offer and a removal are exempt.
ApprovalsAloneDoNotFire ==
  latest # NoEvaluation /\ ~touched /\ latest.status # "firing" =>
    Evaluate(qmode,
             [c \in DOMAIN conditions |-> Resolve(conditions[c], latest.detail[c].value)],
             cmode, latest.states) # "firing"
=============================================================================
