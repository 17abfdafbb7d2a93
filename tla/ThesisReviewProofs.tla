------------------------- MODULE ThesisReviewProofs -------------------------
(***************************************************************************)
(* Proofs about ThesisReview for any number of articles, sweeps and        *)
(* sessions, any caps and any drafts.                                      *)
(***************************************************************************)
EXTENDS ThesisReview, FiniteSetTheorems, TLAPS

\* A record with a session's fields, whatever their values.
IsSession(r) ==
  r \in [pc : {r.pc}, number : {r.number}, cutoff : {r.cutoff},
         conditions : {r.conditions}, states : {r.states}, moved : {r.moved},
         got : {r.got}, result : {r.result}, shown : {r.shown}, lost : {r.lost},
         made : {r.made}]

\* What a session in its last step will have accounted for once it commits.
Accounted(r) == r.shown \union r.lost \union ((1..r.cutoff) \ r.got)

AskedOfThis(e) == e.asked = [status |-> e.status, outcomes |-> Outcomes(e.detail)]

Inv ==
  /\ sweep = [s \in Sessions |-> sweep[s]]
  /\ \A s \in Sessions : IsSession(sweep[s]) /\ sweep[s].cutoff \in Nat
  /\ published \in Nat
  /\ latest # NoEvaluation => latest.cutoff \in Nat
  /\ NewsReachesReviewer
  /\ ReviewerAskedOfThis
  /\ \A s \in Sessions : sweep[s].pc = "evaluated" =>
       /\ sweep[s].result.cutoff = sweep[s].cutoff
       /\ 1..sweep[s].cutoff \subseteq reviewed \union missed \union Accounted(sweep[s])
       /\ AskedOfThis(sweep[s].result)

\* The session once its news and verdicts are in.
LEMMA FetchedRecord ==
  ASSUME NEW r, IsSession(r), NEW g, NEW j, NEW m
  PROVE  [r EXCEPT !.pc = "fetched", !.got = g, !.states = j, !.moved = m] =
           [pc |-> "fetched", number |-> r.number, cutoff |-> r.cutoff,
            conditions |-> r.conditions, states |-> j, moved |-> m, got |-> g,
            result |-> r.result, shown |-> r.shown, lost |-> r.lost, made |-> r.made]
<1>. DEFINE t == [r EXCEPT !.pc = "fetched", !.got = g, !.states = j, !.moved = m]
<1>1. t \in [pc : {"fetched"}, number : {r.number}, cutoff : {r.cutoff},
              conditions : {r.conditions}, states : {j}, moved : {m}, got : {g},
              result : {r.result}, shown : {r.shown}, lost : {r.lost}, made : {r.made}]
  BY DEF IsSession
<1>. HIDE DEF t
<1>2. t = [pc |-> "fetched", number |-> r.number, cutoff |-> r.cutoff,
           conditions |-> r.conditions, states |-> j, moved |-> m, got |-> g,
           result |-> r.result, shown |-> r.shown, lost |-> r.lost, made |-> r.made]
  BY <1>1
<1>. QED
  BY <1>2 DEF t

\* The session of a thesis without catalysts whose reviewer got no articles.
LEMMA UnfetchedRecord ==
  ASSUME NEW r, IsSession(r)
  PROVE  [r EXCEPT !.pc = "fetched"] =
           [pc |-> "fetched", number |-> r.number, cutoff |-> r.cutoff,
            conditions |-> r.conditions, states |-> r.states, moved |-> r.moved,
            got |-> r.got, result |-> r.result, shown |-> r.shown, lost |-> r.lost,
            made |-> r.made]
<1>. DEFINE t == [r EXCEPT !.pc = "fetched"]
<1>1. t \in [pc : {"fetched"}, number : {r.number}, cutoff : {r.cutoff},
              conditions : {r.conditions}, states : {r.states}, moved : {r.moved},
              got : {r.got}, result : {r.result}, shown : {r.shown}, lost : {r.lost},
              made : {r.made}]
  BY DEF IsSession
<1>. HIDE DEF t
<1>2. t = [pc |-> "fetched", number |-> r.number, cutoff |-> r.cutoff,
           conditions |-> r.conditions, states |-> r.states, moved |-> r.moved,
           got |-> r.got, result |-> r.result, shown |-> r.shown, lost |-> r.lost,
           made |-> r.made]
  BY <1>1
<1>. QED
  BY <1>2 DEF t

\* The session once it has evaluated and its reviewer has answered.
LEMMA EvaluatedRecord ==
  ASSUME NEW r, IsSession(r), NEW e, NEW x, NEW l, NEW m
  PROVE  [r EXCEPT !.pc = "evaluated", !.result = e, !.shown = x, !.lost = l, !.made = m] =
           [pc |-> "evaluated", number |-> r.number, cutoff |-> r.cutoff,
            conditions |-> r.conditions, states |-> r.states, moved |-> r.moved,
            got |-> r.got, result |-> e, shown |-> x, lost |-> l, made |-> m]
<1>. DEFINE t == [r EXCEPT !.pc = "evaluated", !.result = e, !.shown = x, !.lost = l, !.made = m]
<1>1. t \in [pc : {"evaluated"}, number : {r.number}, cutoff : {r.cutoff},
              conditions : {r.conditions}, states : {r.states}, moved : {r.moved},
              got : {r.got}, result : {e}, shown : {x}, lost : {l}, made : {m}]
  BY DEF IsSession
<1>. HIDE DEF t
<1>2. t = [pc |-> "evaluated", number |-> r.number, cutoff |-> r.cutoff,
           conditions |-> r.conditions, states |-> r.states, moved |-> r.moved,
           got |-> r.got, result |-> e, shown |-> x, lost |-> l, made |-> m]
  BY <1>1
<1>. QED
  BY <1>2 DEF t

\* No session has begun, and no evaluation is there to speak of.
LEMMA InitHolds == Init => Inv
  BY DEF Init, Inv, NoSweep, IsSession, NewsReachesReviewer, ReviewerAskedOfThis

-----------------------------------------------------------------------------
\* What a step must establish of the one session it moves, when nothing is
\* committed by it.
LEMMA SessionStep ==
  ASSUME Inv, NEW s \in Sessions, NEW r, sweep' = [sweep EXCEPT ![s] = r],
         IsSession(r), r.cutoff \in Nat,
         r.pc = "evaluated" =>
           /\ r.result.cutoff = r.cutoff
           /\ 1..r.cutoff \subseteq reviewed \union missed \union Accounted(r)
           /\ AskedOfThis(r.result),
         published' = published, UNCHANGED <<latest, seen>>
  PROVE  Inv'
<1>1. sweep' = [x \in Sessions |-> IF x = s THEN r ELSE sweep[x]]
  BY DEF Inv
<1>2. \A x \in Sessions : sweep'[x] = IF x = s THEN r ELSE sweep[x]
  BY <1>1
<1>3. sweep' = [x \in Sessions |-> sweep'[x]]
  BY <1>1
<1>4. \A x \in Sessions : IsSession(sweep'[x]) /\ sweep'[x].cutoff \in Nat
  BY <1>2 DEF Inv
<1>5. /\ published' \in Nat
      /\ latest' # NoEvaluation => latest'.cutoff \in Nat
      /\ NewsReachesReviewer' /\ ReviewerAskedOfThis'
  BY DEF Inv, NewsReachesReviewer, ReviewerAskedOfThis, seen, Outcomes
<1>6. \A x \in Sessions : sweep'[x].pc = "evaluated" =>
        /\ sweep'[x].result.cutoff = sweep'[x].cutoff
        /\ 1..sweep'[x].cutoff \subseteq reviewed' \union missed' \union Accounted(sweep'[x])
        /\ AskedOfThis(sweep'[x].result)
  BY <1>2 DEF Inv, seen
<1>. QED
  BY <1>3, <1>4, <1>5, <1>6 DEF Inv, IsSession, Accounted, AskedOfThis, Outcomes

\* A session that begins has nothing to account for yet.
LEMMA BeginKeeps == ASSUME Inv, NEW s \in Sessions, Begin(s) PROVE Inv'
<1>. DEFINE r == [NoSweep EXCEPT !.pc = "began", !.number = begun + 1, !.cutoff = published,
                                 !.conditions = conditions, !.states = states]
<1>1. /\ IsSession(r) /\ r.cutoff = published /\ r.pc = "began"
  BY DEF NoSweep, IsSession
<1>2. published \in Nat
  BY DEF Inv
<1>3. sweep' = [sweep EXCEPT ![s] = r] /\ published' = published /\ UNCHANGED <<latest, seen>>
  BY DEF Begin, news
<1>. HIDE DEF r
<1>. QED
  BY <1>1, <1>2, <1>3, SessionStep

\* A session that has fetched has still nothing to account for.
LEMMA FetchKeeps == ASSUME Inv, NEW s \in Sessions, Fetch(s) PROVE Inv'
<1>1. IsSession(sweep[s]) /\ sweep[s].cutoff \in Nat /\ sweep = [x \in Sessions |-> sweep[x]]
  BY DEF Inv
<1>2. published' = published /\ UNCHANGED <<latest, seen>>
  BY DEF Fetch, news
<1>3. \E r : /\ sweep' = [sweep EXCEPT ![s] = r]
             /\ IsSession(r) /\ r.cutoff = sweep[s].cutoff /\ r.pc = "fetched"
  <2>1. ASSUME NEW g, NEW j, NEW m,
               sweep' = [sweep EXCEPT ![s] =
                 [@ EXCEPT !.pc = "fetched", !.got = g, !.states = j, !.moved = m]]
        PROVE  \E r : /\ sweep' = [sweep EXCEPT ![s] = r]
                      /\ IsSession(r) /\ r.cutoff = sweep[s].cutoff /\ r.pc = "fetched"
    <3>. DEFINE r == [sweep[s] EXCEPT !.pc = "fetched", !.got = g, !.states = j, !.moved = m]
    <3>1. sweep' = [sweep EXCEPT ![s] = r]
      BY <2>1
    <3>2. IsSession(r) /\ r.cutoff = sweep[s].cutoff /\ r.pc = "fetched"
      BY <1>1, FetchedRecord DEF IsSession
    <3>. QED
      BY <3>1, <3>2
  <2>2. ASSUME sweep' = [sweep EXCEPT ![s] = [@ EXCEPT !.pc = "fetched"]]
        PROVE  \E r : /\ sweep' = [sweep EXCEPT ![s] = r]
                      /\ IsSession(r) /\ r.cutoff = sweep[s].cutoff /\ r.pc = "fetched"
    <3>. DEFINE r == [sweep[s] EXCEPT !.pc = "fetched"]
    <3>1. sweep' = [sweep EXCEPT ![s] = r]
      BY <2>2
    <3>2. IsSession(r) /\ r.cutoff = sweep[s].cutoff /\ r.pc = "fetched"
      BY <1>1, UnfetchedRecord DEF IsSession
    <3>. QED
      BY <3>1, <3>2
  <2>. QED
    BY <2>1, <2>2 DEF Fetch
<1>. QED
  BY <1>1, <1>2, <1>3, SessionStep

\* A gated sweep takes over what the reviewer was asked, and its articles were
\* accounted for by the evaluation it repeats (scheduler_service.py:101-144).
LEMMA QuietEvaluation ==
  ASSUME Inv, NEW status, NEW detail, NEW got, NEW moved,
         NothingNew(latest, status, detail, got, moved)
  PROVE  /\ latest.asked = [status |-> status, outcomes |-> Outcomes(detail)]
         /\ \A n \in Nat : (1..n) \intersect got \subseteq reviewed \union missed
<1>1. /\ latest # NoEvaluation /\ latest.status = status
      /\ \A a \in got : a <= latest.cutoff
      /\ DuplicatedQuant(latest.detail, detail)
  BY DEF NothingNew
<1>2. Outcomes(latest.detail) = Outcomes(detail)
  BY <1>1 DEF DuplicatedQuant, Outcomes
<1>3. latest.asked = [status |-> status, outcomes |-> Outcomes(detail)]
  BY <1>1, <1>2 DEF Inv, ReviewerAskedOfThis
<1>4. latest.cutoff \in Nat /\ 1..latest.cutoff \subseteq reviewed \union missed
  BY <1>1 DEF Inv, NewsReachesReviewer
<1>. QED
  BY <1>1, <1>3, <1>4

\* An evaluation accounts for its articles: gated, shown or lost.
LEMMA EvaluationKeeps == ASSUME Inv, NEW s \in Sessions, Evaluation(s) PROVE Inv'
<1>1. IsSession(sweep[s]) /\ sweep[s].cutoff \in Nat /\ sweep = [x \in Sessions |-> sweep[x]]
  BY DEF Inv
<1>2. published' = published /\ UNCHANGED <<latest, seen>>
  BY DEF Evaluation, news
<1>3. PICK value \in Markets : Evaluation(s)!2!(value)
  BY DEF Evaluation
<1>. DEFINE got    == sweep[s].got
            cs     == sweep[s].conditions
            detail == [c \in DOMAIN cs |-> [metric |-> cs[c].metric,
                                            value  |-> value[cs[c].metric],
                                            passes |-> Resolve(cs[c], value[cs[c].metric])]]
            status == Evaluate(qmode, Outcomes(detail), cmode, sweep[s].states)
            quiet  == NothingNew(latest, status, detail, got, sweep[s].moved)
            result == [number |-> sweep[s].number, cutoff |-> CreatedAt(s),
                       status |-> status, detail |-> detail, states |-> sweep[s].states,
                       asked  |-> IF quiet THEN latest.asked
                                  ELSE [status |-> status, outcomes |-> Outcomes(detail)]]
            Ended(x, l, m) == [sweep[s] EXCEPT !.pc = "evaluated", !.result = result,
                                 !.shown = x, !.lost = l, !.made = m]
<1>4. \E x, l, m : /\ sweep' = [sweep EXCEPT ![s] = Ended(x, l, m)]
                   /\ quiet \/ got \subseteq x \union l
  <2>. DEFINE Ends(x, l, m) == sweep' = [sweep EXCEPT ![s] = Ended(x, l, m)]
  <2>1. \/ quiet /\ Ends({}, {}, {})
        \/ Ends({}, got, {})
        \/ \E m : Ends(Shown(got), got \ Shown(got), m)
    BY <1>3
  <2>. HIDE DEF Ended, quiet
  <2>2. got \subseteq Shown(got) \union (got \ Shown(got))
    OBVIOUS
  <2>. QED
    BY <2>1, <2>2
<1>5. result.cutoff = sweep[s].cutoff /\ AskedOfThis(result)
  <2>1. quiet => latest.asked = [status |-> status, outcomes |-> Outcomes(detail)]
    BY QuietEvaluation
  <2>. HIDE DEF detail, status, quiet
  <2>. QED
    BY <2>1 DEF AskedOfThis, CreatedAt
<1>6. quiet => (1..sweep[s].cutoff) \intersect got \subseteq reviewed \union missed
  BY <1>1, QuietEvaluation
<1>. HIDE DEF result, quiet
<1>7. PICK x, l, m : /\ sweep' = [sweep EXCEPT ![s] = Ended(x, l, m)]
                     /\ quiet \/ got \subseteq x \union l
  BY <1>4
<1>. DEFINE r == Ended(x, l, m)
<1>8. /\ IsSession(r) /\ r.cutoff = sweep[s].cutoff /\ r.got = got
      /\ r.result = result /\ r.shown = x /\ r.lost = l
  BY <1>1, EvaluatedRecord DEF IsSession
<1>. HIDE DEF r
<1>9. 1..r.cutoff \subseteq reviewed \union missed \union Accounted(r)
  BY <1>6, <1>7, <1>8 DEF Accounted
<1>10. sweep' = [sweep EXCEPT ![s] = r]
  BY <1>7 DEF r
<1>. QED
  BY <1>1, <1>2, <1>5, <1>8, <1>9, <1>10, SessionStep

\* A sweep that fails leaves no account behind.
LEMMA SweepFailsKeeps == ASSUME Inv, NEW s \in Sessions, SweepFails(s) PROVE Inv'
<1>. DEFINE r == NoSweep
<1>1. IsSession(r) /\ r.cutoff \in Nat /\ r.pc = "none"
  BY DEF NoSweep, IsSession
<1>2. /\ sweep' = [sweep EXCEPT ![s] = r] /\ published' = published
      /\ UNCHANGED <<latest, seen>>
  BY DEF SweepFails, news
<1>. HIDE DEF r
<1>. QED
  BY <1>1, <1>2, SessionStep

\* What the session accounted for becomes the record of the latest evaluation.
LEMMA CommitKeeps == ASSUME Inv, NEW s \in Sessions, Commit(s) PROVE Inv'
<1>. DEFINE r == NoSweep
<1>1. IsSession(r) /\ r.cutoff \in Nat /\ r.pc = "none"
  BY DEF NoSweep, IsSession
<1>2. /\ sweep[s].pc = "evaluated" /\ published' = published
      /\ sweep' = [sweep EXCEPT ![s] = r]
      /\ latest' = latest \/ latest' = sweep[s].result
      /\ reviewed' = reviewed \union sweep[s].shown
      /\ missed' = missed \union sweep[s].lost \union ((1..sweep[s].cutoff) \ sweep[s].got)
  BY DEF Commit, news
<1>. HIDE DEF r
<1>3. sweep' = [x \in Sessions |-> IF x = s THEN r ELSE sweep[x]]
  BY <1>2 DEF Inv
<1>4. /\ sweep[s].cutoff \in Nat /\ sweep[s].result.cutoff = sweep[s].cutoff
      /\ AskedOfThis(sweep[s].result)
      /\ 1..sweep[s].cutoff \subseteq reviewed' \union missed'
  BY <1>2 DEF Inv, Accounted
<1>5. /\ latest' # NoEvaluation => latest'.cutoff \in Nat
      /\ NewsReachesReviewer' /\ ReviewerAskedOfThis'
  BY <1>2, <1>4 DEF Inv, NewsReachesReviewer, ReviewerAskedOfThis, AskedOfThis, Outcomes
<1>6. \A x \in Sessions : IsSession(sweep'[x]) /\ sweep'[x].cutoff \in Nat
  BY <1>1, <1>3 DEF Inv
<1>7. \A x \in Sessions : sweep'[x].pc = "evaluated" =>
        /\ sweep'[x].result.cutoff = sweep'[x].cutoff
        /\ 1..sweep'[x].cutoff \subseteq reviewed' \union missed' \union Accounted(sweep'[x])
        /\ AskedOfThis(sweep'[x].result)
  BY <1>1, <1>2, <1>3 DEF Inv
<1>8. sweep' = [x \in Sessions |-> sweep'[x]] /\ published' \in Nat
  BY <1>2, <1>3 DEF Inv
<1>. QED
  BY <1>5, <1>6, <1>7, <1>8 DEF Inv, IsSession, Accounted, AskedOfThis, Outcomes

-----------------------------------------------------------------------------
\* The invariant is inductive: one case per action.
LEMMA StepKeeps == Inv /\ [Next]_vars => Inv'
<1> SUFFICES ASSUME Inv, [Next]_vars PROVE Inv'
  OBVIOUS
<1>1. ASSUME published' \in Nat, UNCHANGED <<sweep, latest, seen>> PROVE Inv'
  BY <1>1 DEF Inv, NewsReachesReviewer, ReviewerAskedOfThis, seen, IsSession, Accounted,
              AskedOfThis, Outcomes
<1>2. CASE Publish
  BY <1>1, <1>2 DEF Publish, Inv
<1>3. ASSUME NEW a \in 1..MaxArticles, List(a) PROVE Inv'
  BY <1>1, <1>3 DEF List, Inv
<1>4. ASSUME NEW s \in Sessions,
             Begin(s) \/ Fetch(s) \/ Evaluation(s) \/ Commit(s) \/ SweepFails(s)
      PROVE  Inv'
  BY <1>4, BeginKeeps, FetchKeeps, EvaluationKeeps, CommitKeeps, SweepFailsKeeps
<1>5. ASSUME NEW o \in offers, Approve(o) PROVE Inv'
  BY <1>1, <1>5 DEF Approve, news, Inv
<1>6. ASSUME NEW c \in DOMAIN conditions, EditCondition(c) PROVE Inv'
  BY <1>1, <1>6 DEF EditCondition, news, Inv
<1>7. CASE UNCHANGED vars
  BY <1>1, <1>7 DEF vars, news, Inv
<1>. QED
  BY <1>2, <1>3, <1>4, <1>5, <1>6, <1>7 DEF Next

\* The strengthened invariant: besides what is promised of the latest
\* evaluation, what a session about to commit accounts for.
THEOREM Invariance == Spec => []Inv
<1>. QED
  BY InitHolds, StepKeeps, PTL DEF Spec

\* No article published before the latest evaluation began slips past the
\* reviewer without a cause, for any number of overlapping sweeps
\* (scheduler_service.py:101-124, 311-350).
THEOREM NewsIsReviewed == Spec => []NewsReachesReviewer
<1>. QED
  BY Invariance, PTL DEF Inv

\* However many sweeps are gated, status and outcomes are those the reviewer
\* was last asked about (scheduler_service.py:107-144).
THEOREM WorldIsReviewed == Spec => []ReviewerAskedOfThis
<1>. QED
  BY Invariance, PTL DEF Inv

-----------------------------------------------------------------------------
(***************************************************************************)
(* Approvals.  An offer is judged on the rows and values its own sweep     *)
(* read; what makes the judgement hold when it is approved is that it      *)
(* still speaks of the latest evaluation's readings.                       *)
(***************************************************************************)
Comparable(cs) == \A c \in DOMAIN cs : cs[c].operator \in OPERATORS

\* No condition does better on the values of an evaluation than it did there.
NoBetter(cs, detail) ==
  /\ DOMAIN detail = DOMAIN cs
  /\ \A c \in DOMAIN cs :
       /\ detail[c].metric = cs[c].metric
       /\ Resolve(cs[c], detail[c].value) = "pass" => detail[c].passes = "pass"

\* An update of a condition's threshold would not make it do better either.
Harmless(p, detail) ==
  /\ p.operator \in OPERATORS
  /\ p.id \in DOMAIN detail
  /\ p.metric = detail[p.id].metric =>
       (Resolve(Condition(p), detail[p.id].value) = "pass" => detail[p.id].passes = "pass")

Concluded(e, q, m) == e.status = Evaluate(q, Outcomes(e.detail), m, e.states)

\* A sweep that has evaluated, and the offers it is about to make.
Ready(r, q, m) ==
  /\ r.result.number = r.number
  /\ NoBetter(r.conditions, r.result.detail)
  /\ Concluded(r.result, q, m)
  /\ \A p \in r.made : Harmless(p, r.result.detail)

RowsInv == touched \in BOOLEAN /\ begun \in Nat /\ Comparable(conditions)

SweepsInv ==
  /\ \A s \in Sessions : sweep[s].pc # "none" =>
       /\ sweep[s].number \in 1..begun
       /\ Comparable(sweep[s].conditions)
       /\ \A o \in offers : o.by # sweep[s].number
       /\ \A x \in Sessions \ {s} : sweep[x].pc # "none" => sweep[x].number # sweep[s].number
  /\ \A s \in Sessions : sweep[s].pc = "evaluated" => Ready(sweep[s], qmode, cmode)

OffersInv == \A o \in offers : o.by \in 1..begun /\ o.draft.operator \in OPERATORS

LatestInv ==
  latest # NoEvaluation =>
    /\ latest.number \in Nat
    /\ Concluded(latest, qmode, cmode)
    /\ \A o \in offers : o.by = latest.number => Harmless(o.draft, latest.detail)
    /\ ~touched => NoBetter(conditions, latest.detail)

ApprovalInv == RowsInv /\ SweepsInv /\ OffersInv /\ LatestInv

\* A condition that does no better than before cannot make a thesis fire that
\* did not (evaluator.py:85-139).
LEMMA NoBetterDoesNotFire ==
  ASSUME NEW cs, NEW detail, NoBetter(cs, detail), NEW q, NEW m, NEW st,
         Evaluate(q, Outcomes(detail), m, st) # "firing"
  PROVE  Evaluate(q, [c \in DOMAIN cs |-> Resolve(cs[c], detail[c].value)], m, st) # "firing"
<1>. DEFINE was == Outcomes(detail)
            is  == [c \in DOMAIN cs |-> Resolve(cs[c], detail[c].value)]
<1>1. /\ DOMAIN was = DOMAIN cs /\ DOMAIN is = DOMAIN cs
      /\ \A c \in DOMAIN cs : is[c] = "pass" => was[c] = "pass"
  BY DEF NoBetter, Outcomes
<1>2. \A c \in DOMAIN cs : is[c] \in {"pass", "fail", "unknown"}
  BY DEF Resolve
<1>3. EvalQuant(q, was) # "ok" \/ ~EvalCatalysts(m, st)
  BY DEF Evaluate
<1>4. EvalQuant(q, is) = "ok" => EvalQuant(q, was) = "ok"
  <2>. HIDE DEF was, is
  <2>1. EvalQuant(q, is) = "ok" => QuantOK(q, is)
    BY DEF EvalQuant
  <2>2. QuantOK(q, is) => QuantOK(q, was)
    BY <1>1, <1>2 DEF QuantOK, Read
  <2>. QED
    BY <2>1, <2>2 DEF EvalQuant
<1>. HIDE DEF was, is
<1>5. Evaluate(q, is, m, st) = "firing" => EvalQuant(q, is) = "ok" /\ EvalCatalysts(m, st)
  BY DEF Evaluate
<1>. QED
  BY <1>3, <1>4, <1>5 DEF is

\* The drafts that are left passed every guard, and no more of them are changes
\* to rows than guard 6 lets through (proposals.py:314-330).
LEMMA KeptDrafts ==
  ASSUME NEW drafts, IsFiniteSet(drafts), NEW conds, NEW cats, NEW live, NEW n,
         NEW kept \in ApplyProposalGuards(drafts, conds, cats, live, n)
  PROVE  /\ \A p \in kept : p \in drafts /\ Stands(p, conds, cats, live, n)
         /\ \E a : /\ IsFiniteSet(a) /\ Cardinality(a) <= MAX_REFINEMENTS
                  /\ \A p \in kept : IsDiscovery(p) \/ p \in a
<1>1. PICK standing : standing = {x \in drafts : Stands(x, conds, cats, live, n)}
  OBVIOUS
<1>2. PICK found : found = {x \in standing : IsDiscovery(x)}
  OBVIOUS
<1>3. \E a \in Top(standing \ found, MAX_REFINEMENTS), b \in Top(found, MAX_DISCOVERIES) :
        kept = a \union b
  BY <1>1, <1>2, SMTT(30) DEF ApplyProposalGuards
<1>4. PICK a \in Top(standing \ found, MAX_REFINEMENTS), b \in Top(found, MAX_DISCOVERIES) :
        kept = a \union b
  BY <1>3
<1>5. a \subseteq standing \ found /\ b \subseteq found
  BY DEF Top
<1>6. standing \subseteq drafts /\ found \subseteq standing
  BY <1>1, <1>2
<1>7. IsFiniteSet(a) /\ IsFiniteSet(standing \ found)
  <2>1. IsFiniteSet(standing \ found)
    BY <1>6, FS_Subset
  <2>. QED
    BY <1>5, <2>1, FS_Subset
<1>8. Cardinality(a) <= MAX_REFINEMENTS
  <2>1. Cardinality(a) = IF Cardinality(standing \ found) < MAX_REFINEMENTS
                         THEN Cardinality(standing \ found) ELSE MAX_REFINEMENTS
    BY DEF Top
  <2>2. Cardinality(standing \ found) \in Nat /\ MAX_REFINEMENTS \in Nat
    BY <1>7, FS_CardinalityType, BoundsAssumption
  <2>. QED
    BY <2>1, <2>2
<1>9. \A p \in kept : p \in drafts /\ Stands(p, conds, cats, live, n)
  <2>1. kept \subseteq standing
    BY <1>4, <1>5, <1>6
  <2>. QED
    BY <1>1, <2>1
<1>10. \A p \in kept : IsDiscovery(p) \/ p \in a
  BY <1>2, <1>4, <1>5
<1>. QED
  BY <1>7, <1>8, <1>9, <1>10

\* What guards 1, 2 and 7 leave of the drafts is harmless on the values of the
\* evaluation they were reviewed with (proposals.py:347-351, 364-393).
LEMMA OffersAreHarmless ==
  ASSUME NEW s \in Sessions, NEW drafts, IsFiniteSet(drafts), NEW shown, NEW detail, NEW value,
         Comparable(sweep[s].conditions),
         detail = [c \in DOMAIN sweep[s].conditions |->
                    [metric |-> sweep[s].conditions[c].metric,
                     value  |-> value[sweep[s].conditions[c].metric],
                     passes |-> Resolve(sweep[s].conditions[c],
                                        value[sweep[s].conditions[c].metric])]],
         NEW made \in MayOffer(s, drafts, detail, shown), NEW p \in made
  PROVE  Harmless(p, detail)
<1>. DEFINE cs == sweep[s].conditions
            catalysts == [c \in DOMAIN sweep[s].states |-> c]
<1>1. /\ p \in drafts /\ p.target = "quant" /\ p.action = "update"
      /\ Stands(p, cs, catalysts, Live(detail), Cardinality(shown))
  <2>1. PICK kept \in ApplyProposalGuards(drafts, cs, catalysts, Live(detail), Cardinality(shown)) :
          p \in kept /\ p.target = "quant" /\ p.action = "update"
    BY DEF MayOffer
  <2>. HIDE DEF cs, catalysts
  <2>. QED
    BY <2>1, KeptDrafts
<1>2. p.id \in DOMAIN cs /\ QuantStands(p, cs, Live(detail))
  BY <1>1 DEF Stands, NamesARow
<1>3. p.operator \in OPERATORS /\ ~WeakensIntoFiring(p, cs[p.id], Live(detail)[p.id])
  BY <1>1, <1>2 DEF QuantStands, Resolvable
<1>4. /\ DOMAIN detail = DOMAIN cs /\ Live(detail)[p.id] = detail[p.id].value
      /\ detail[p.id].metric = cs[p.id].metric
      /\ detail[p.id].passes = Resolve(cs[p.id], detail[p.id].value)
  BY <1>2 DEF Live
<1>5. Resolve(Condition(p), detail[p.id].value) = "pass" => detail[p.id].value # None
  BY DEF Resolve
<1>6. detail[p.id].value # None => detail[p.id].passes \in {"pass", "fail"}
  BY <1>2, <1>4 DEF Resolve, Comparable
<1>7. /\ p.metric = cs[p.id].metric
      /\ Resolve(Condition(p), Live(detail)[p.id]) = "pass"
      => Resolve(cs[p.id], Live(detail)[p.id]) # "fail"
  BY <1>3 DEF WeakensIntoFiring
<1>. QED
  BY <1>2, <1>3, <1>4, <1>5, <1>6, <1>7 DEF Harmless

\* Nothing has been offered; the rows are as they were asked for.
LEMMA ApprovalInit == Init => ApprovalInv
<1>. SUFFICES ASSUME Init PROVE ApprovalInv
  OBVIOUS
<1>1. RowsInv
  BY RequestsAssumption DEF Init, IsRow, RowsInv, Comparable
<1>2. \A s \in Sessions : sweep[s].pc = "none"
  BY DEF Init, NoSweep
<1>. QED
  BY <1>1, <1>2 DEF Init, ApprovalInv, SweepsInv, OffersInv, LatestInv

-----------------------------------------------------------------------------
\* What a step must establish of the one session it moves, when no row, no
\* evaluation and no offer changes.
LEMMA ApprovalSessionStep ==
  ASSUME Inv, ApprovalInv, NEW s \in Sessions, NEW r, sweep' = [sweep EXCEPT ![s] = r],
         begun' \in Nat, begun <= begun',
         UNCHANGED <<qmode, cmode, conditions, latest, offers, touched>>,
         r.pc # "none" =>
           /\ r.number \in 1..begun' /\ Comparable(r.conditions)
           /\ \A o \in offers : o.by # r.number
           /\ \A x \in Sessions \ {s} : sweep[x].pc # "none" => sweep[x].number # r.number,
         r.pc = "evaluated" => Ready(r, qmode, cmode)
  PROVE  ApprovalInv'
<1>1. \A x \in Sessions : sweep'[x] = IF x = s THEN r ELSE sweep[x]
  BY DEF Inv
<1>2. RowsInv' /\ OffersInv'
  BY DEF ApprovalInv, RowsInv, OffersInv
<1>3. LatestInv'
  BY DEF ApprovalInv, LatestInv
<1>4. \A x \in Sessions : sweep'[x].pc # "none" =>
        /\ sweep'[x].number \in 1..begun'
        /\ Comparable(sweep'[x].conditions)
        /\ \A o \in offers' : o.by # sweep'[x].number
        /\ \A y \in Sessions \ {x} : sweep'[y].pc # "none" => sweep'[y].number # sweep'[x].number
  BY <1>1 DEF ApprovalInv, SweepsInv, RowsInv
<1>5. \A x \in Sessions : sweep'[x].pc = "evaluated" => Ready(sweep'[x], qmode', cmode')
  BY <1>1 DEF ApprovalInv, SweepsInv
<1>. QED
  BY <1>2, <1>3, <1>4, <1>5 DEF ApprovalInv, SweepsInv

\* A sweep that begins has a number no offer and no other sweep has.
LEMMA BeginApproval == ASSUME Inv, ApprovalInv, NEW s \in Sessions, Begin(s) PROVE ApprovalInv'
<1>. DEFINE r == [NoSweep EXCEPT !.pc = "began", !.number = begun + 1, !.cutoff = published,
                                 !.conditions = conditions, !.states = states]
<1>1. r.pc = "began" /\ r.number = begun + 1 /\ r.conditions = conditions
  BY DEF NoSweep
<1>2. sweep' = [sweep EXCEPT ![s] = r]
  BY DEF Begin
<1>. HIDE DEF r
<1>3. begun \in Nat /\ begun' = begun + 1 /\ Comparable(conditions)
  BY DEF Begin, ApprovalInv, RowsInv
<1>4. \A o \in offers : o.by # r.number
  BY <1>1, <1>3 DEF ApprovalInv, OffersInv
<1>5. \A x \in Sessions \ {s} : sweep[x].pc # "none" => sweep[x].number # r.number
  BY <1>1, <1>3 DEF ApprovalInv, SweepsInv
<1>6. /\ begun' \in Nat /\ begun <= begun' /\ r.number \in 1..begun'
      /\ UNCHANGED <<qmode, cmode, conditions, latest, offers, touched>>
  BY <1>1, <1>3 DEF Begin, thesis, queue
<1>. QED
  BY <1>1, <1>2, <1>3, <1>4, <1>5, <1>6, ApprovalSessionStep

\* A session that goes on keeps its number and the rows it read.
LEMMA SameSweepStep ==
  ASSUME Inv, ApprovalInv, NEW s \in Sessions, NEW r, sweep' = [sweep EXCEPT ![s] = r],
         sweep[s].pc # "none",
         r.number = sweep[s].number, r.conditions = sweep[s].conditions,
         UNCHANGED <<qmode, cmode, conditions, begun, latest, offers, touched>>,
         r.pc = "evaluated" => Ready(r, qmode, cmode)
  PROVE  ApprovalInv'
<1>1. /\ r.number \in 1..begun /\ Comparable(r.conditions)
      /\ \A o \in offers : o.by # r.number
      /\ \A x \in Sessions \ {s} : sweep[x].pc # "none" => sweep[x].number # r.number
  BY DEF ApprovalInv, SweepsInv
<1>2. begun' \in Nat /\ begun' = begun /\ begun <= begun'
  BY DEF ApprovalInv, RowsInv
<1>. QED
  BY <1>1, <1>2, ApprovalSessionStep

\* Fetching changes neither number nor rows.
LEMMA FetchApproval == ASSUME Inv, ApprovalInv, NEW s \in Sessions, Fetch(s) PROVE ApprovalInv'
<1>1. IsSession(sweep[s]) /\ sweep[s].pc # "none"
  BY DEF Inv, Fetch
<1>2. UNCHANGED <<qmode, cmode, conditions, begun, latest, offers, touched>>
  BY DEF Fetch, thesis, queue
<1>3. \E r : /\ sweep' = [sweep EXCEPT ![s] = r] /\ r.pc = "fetched"
             /\ r.number = sweep[s].number /\ r.conditions = sweep[s].conditions
  <2>1. ASSUME NEW g, NEW j, NEW m,
               sweep' = [sweep EXCEPT ![s] =
                 [@ EXCEPT !.pc = "fetched", !.got = g, !.states = j, !.moved = m]]
        PROVE  \E r : /\ sweep' = [sweep EXCEPT ![s] = r] /\ r.pc = "fetched"
                      /\ r.number = sweep[s].number /\ r.conditions = sweep[s].conditions
    <3>. DEFINE r == [sweep[s] EXCEPT !.pc = "fetched", !.got = g, !.states = j, !.moved = m]
    <3>1. sweep' = [sweep EXCEPT ![s] = r]
      BY <2>1
    <3>2. r.pc = "fetched" /\ r.number = sweep[s].number /\ r.conditions = sweep[s].conditions
      BY <1>1, FetchedRecord
    <3>. QED
      BY <3>1, <3>2
  <2>2. ASSUME sweep' = [sweep EXCEPT ![s] = [@ EXCEPT !.pc = "fetched"]]
        PROVE  \E r : /\ sweep' = [sweep EXCEPT ![s] = r] /\ r.pc = "fetched"
                      /\ r.number = sweep[s].number /\ r.conditions = sweep[s].conditions
    <3>. DEFINE r == [sweep[s] EXCEPT !.pc = "fetched"]
    <3>1. sweep' = [sweep EXCEPT ![s] = r]
      BY <2>2
    <3>2. r.pc = "fetched" /\ r.number = sweep[s].number /\ r.conditions = sweep[s].conditions
      BY <1>1, UnfetchedRecord
    <3>. QED
      BY <3>1, <3>2
  <2>3. \/ \E g, j, m : sweep' = [sweep EXCEPT ![s] =
           [@ EXCEPT !.pc = "fetched", !.got = g, !.states = j, !.moved = m]]
        \/ sweep' = [sweep EXCEPT ![s] = [@ EXCEPT !.pc = "fetched"]]
    BY Zenon DEF Fetch
  <2>. QED
    BY <2>1, <2>2, <2>3
<1>. QED
  BY <1>1, <1>2, <1>3, SameSweepStep

\* The offers an evaluation makes are harmless on its own readings.
LEMMA EvaluationApproval ==
  ASSUME Inv, ApprovalInv, NEW s \in Sessions, Evaluation(s) PROVE ApprovalInv'
<1>1. IsSession(sweep[s]) /\ sweep[s].pc # "none" /\ Comparable(sweep[s].conditions)
  BY DEF Inv, Evaluation, ApprovalInv, SweepsInv
<1>2. UNCHANGED <<qmode, cmode, conditions, begun, latest, offers, touched>>
  BY DEF Evaluation, thesis, queue
<1>3. PICK value \in Markets : Evaluation(s)!2!(value)
  BY DEF Evaluation
<1>. DEFINE got    == sweep[s].got
            cs     == sweep[s].conditions
            detail == [c \in DOMAIN cs |-> [metric |-> cs[c].metric,
                                            value  |-> value[cs[c].metric],
                                            passes |-> Resolve(cs[c], value[cs[c].metric])]]
            status == Evaluate(qmode, Outcomes(detail), cmode, sweep[s].states)
            quiet  == NothingNew(latest, status, detail, got, sweep[s].moved)
            result == [number |-> sweep[s].number, cutoff |-> CreatedAt(s),
                       status |-> status, detail |-> detail, states |-> sweep[s].states,
                       asked  |-> IF quiet THEN latest.asked
                                  ELSE [status |-> status, outcomes |-> Outcomes(detail)]]
            Ended(x, l, m) == [sweep[s] EXCEPT !.pc = "evaluated", !.result = result,
                                 !.shown = x, !.lost = l, !.made = m]
<1>4. \E x, l, m : /\ sweep' = [sweep EXCEPT ![s] = Ended(x, l, m)]
                   /\ \A p \in m : Harmless(p, detail)
  <2>. DEFINE Ends(x, l, m) == sweep' = [sweep EXCEPT ![s] = Ended(x, l, m)]
  <2>1. \/ Ends({}, {}, {})
        \/ Ends({}, got, {})
        \/ \E drafts \in Reviews : \E m \in MayOffer(s, drafts, detail, Shown(got)) :
             Ends(Shown(got), got \ Shown(got), m)
    BY <1>3
  <2>2. \A drafts \in Reviews : \A m \in MayOffer(s, drafts, detail, Shown(got)) :
          \A p \in m : Harmless(p, detail)
    BY <1>1, OffersAreHarmless, ReviewsAssumption
  <2>. HIDE DEF Ended, detail
  <2>. QED
    BY <2>1, <2>2
<1>5. NoBetter(cs, detail)
  BY DEF NoBetter
<1>6. result.number = sweep[s].number /\ result.detail = detail /\ Concluded(result, qmode, cmode)
  <2>. HIDE DEF detail, quiet
  <2>. QED
    BY DEF Concluded
<1>. HIDE DEF result, quiet, detail
<1>7. PICK x, l, m : /\ sweep' = [sweep EXCEPT ![s] = Ended(x, l, m)]
                     /\ \A p \in m : Harmless(p, detail)
  BY <1>4
<1>. DEFINE r == Ended(x, l, m)
<1>8. /\ r.number = sweep[s].number /\ r.conditions = sweep[s].conditions
      /\ r.result = result /\ r.made = m
  <2>1. PICK w : w = sweep[s]
    OBVIOUS
  <2>2. r = [w EXCEPT !.pc = "evaluated", !.result = result, !.shown = x, !.lost = l, !.made = m]
    BY <2>1
  <2>. HIDE DEF r
  <2>3. IsSession(w)
    BY <1>1, <2>1
  <2>4. r = [pc |-> "evaluated", number |-> w.number, cutoff |-> w.cutoff,
             conditions |-> w.conditions, states |-> w.states, moved |-> w.moved,
             got |-> w.got, result |-> result, shown |-> x, lost |-> l, made |-> m]
    BY <2>2, <2>3, EvaluatedRecord
  <2>. QED
    BY <2>1, <2>4
<1>9. sweep' = [sweep EXCEPT ![s] = r]
  BY <1>7
<1>. HIDE DEF r
<1>10. Ready(r, qmode, cmode)
  BY <1>5, <1>6, <1>7, <1>8 DEF Ready
<1>. QED
  BY <1>1, <1>2, <1>8, <1>9, <1>10, SameSweepStep

\* A sweep that fails offers nothing.
LEMMA FailureApproval ==
  ASSUME Inv, ApprovalInv, NEW s \in Sessions, SweepFails(s) PROVE ApprovalInv'
<1>. DEFINE r == NoSweep
<1>1. r.pc = "none"
  BY DEF NoSweep
<1>2. /\ sweep' = [sweep EXCEPT ![s] = r] /\ begun' \in Nat /\ begun <= begun'
      /\ UNCHANGED <<qmode, cmode, conditions, latest, offers, touched>>
  BY DEF SweepFails, thesis, queue, ApprovalInv, RowsInv
<1>. HIDE DEF r
<1>. QED
  BY <1>1, <1>2, ApprovalSessionStep

\* The offers of a sweep that commits late are not of the latest evaluation,
\* and a later approval of one counts as a change (scheduler_service.py:95-99).
LEMMA CommitApproval == ASSUME Inv, ApprovalInv, NEW s \in Sessions, Commit(s) PROVE ApprovalInv'
<1>. DEFINE e == sweep[s].result
            n == sweep[s].number
            made == {[by |-> e.number, draft |-> p] : p \in sweep[s].made}
<1>1. /\ sweep[s].pc = "evaluated" /\ Ready(sweep[s], qmode, cmode) /\ e.number = n /\ n \in 1..begun
      /\ begun \in Nat
      /\ \A o \in offers : o.by # n
      /\ \A x \in Sessions \ {s} : sweep[x].pc # "none" => sweep[x].number # n
  BY DEF Commit, ApprovalInv, SweepsInv, RowsInv, Ready
<1>2. /\ offers' = offers \union made /\ begun' = begun
      /\ conditions' = conditions /\ qmode' = qmode /\ cmode' = cmode
  BY DEF Commit
<1>3. \A x \in Sessions : sweep'[x] = IF x = s THEN NoSweep ELSE sweep[x]
  BY DEF Commit, Inv
<1>4. \A o \in made : o.by = n /\ Harmless(o.draft, e.detail)
  BY <1>1 DEF Ready
<1>. HIDE DEF made
<1>5. RowsInv' /\ OffersInv'
  <2>1. touched' \in BOOLEAN
    BY DEF Commit, ApprovalInv, RowsInv
  <2>2. OffersInv'
    BY <1>1, <1>2, <1>4 DEF ApprovalInv, OffersInv, Harmless
  <2>. QED
    BY <1>2, <2>1, <2>2 DEF ApprovalInv, RowsInv, Comparable
<1>6. LatestInv'
  <2>1. CASE latest # NoEvaluation /\ latest.number > e.number
    <3>1. latest' = latest /\ touched' = touched /\ latest.number \in Nat
      BY <2>1 DEF Commit, ApprovalInv, LatestInv
    <3>2. \A o \in offers' : o.by = latest.number => Harmless(o.draft, latest.detail)
      BY <1>1, <1>2, <1>4, <2>1, <3>1 DEF ApprovalInv, LatestInv
    <3>. QED
      BY <1>2, <2>1, <3>1, <3>2 DEF ApprovalInv, LatestInv
  <2>2. CASE ~(latest # NoEvaluation /\ latest.number > e.number)
    <3>1. latest' = e /\ (~touched' => conditions = sweep[s].conditions)
      BY <2>2 DEF Commit
    <3>2. Concluded(e, qmode, cmode) /\ NoBetter(sweep[s].conditions, e.detail) /\ e.number \in Nat
      BY <1>1 DEF Ready
    <3>3. \A o \in offers' : o.by = e.number => Harmless(o.draft, e.detail)
      BY <1>1, <1>2, <1>4
    <3>4. ~touched' => NoBetter(conditions, e.detail)
      BY <3>1, <3>2
    <3>. HIDE DEF e
    <3>. QED
      BY <1>2, <3>1, <3>2, <3>3, <3>4 DEF LatestInv
  <2>. QED
    BY <2>1, <2>2
<1>7. NoSweep.pc = "none"
  BY DEF NoSweep
<1>8. \A x \in Sessions : sweep'[x].pc # "none" => x # s /\ sweep'[x] = sweep[x]
  BY <1>3, <1>7
<1>9. \A x \in Sessions : sweep'[x].pc # "none" =>
        /\ sweep'[x].number \in 1..begun'
        /\ Comparable(sweep'[x].conditions)
        /\ \A o \in offers' : o.by # sweep'[x].number
        /\ \A y \in Sessions \ {x} : sweep'[y].pc # "none" => sweep'[y].number # sweep'[x].number
  BY <1>1, <1>2, <1>4, <1>8 DEF ApprovalInv, SweepsInv
<1>10. \A x \in Sessions : sweep'[x].pc = "evaluated" => Ready(sweep'[x], qmode', cmode')
  <2>1. "evaluated" # "none"
    OBVIOUS
  <2>. QED
    BY <1>2, <1>8, <2>1 DEF ApprovalInv, SweepsInv
<1>. QED
  BY <1>5, <1>6, <1>9, <1>10 DEF ApprovalInv, SweepsInv

\* Sweeps do not look at what the owner does to the rows meanwhile.
LEMMA RowsChangeKeepsSweeps ==
  ASSUME Inv, ApprovalInv, offers' \subseteq offers,
         UNCHANGED <<qmode, cmode, begun, sweep>>
  PROVE  SweepsInv' /\ OffersInv'
<1>1. \A s \in Sessions : sweep'[s].pc # "none" =>
        /\ sweep'[s].number \in 1..begun'
        /\ Comparable(sweep'[s].conditions)
        /\ \A o \in offers' : o.by # sweep'[s].number
        /\ \A x \in Sessions \ {s} : sweep'[x].pc # "none" => sweep'[x].number # sweep'[s].number
  BY DEF ApprovalInv, SweepsInv
<1>2. \A s \in Sessions : sweep'[s].pc = "evaluated" => Ready(sweep'[s], qmode', cmode')
  BY DEF ApprovalInv, SweepsInv
<1>3. OffersInv'
  BY DEF ApprovalInv, OffersInv
<1>. QED
  BY <1>1, <1>2, <1>3 DEF SweepsInv

\* Approving an offer of the latest evaluation keeps every condition from doing
\* better there; approving any other counts as a change (proposals.py:391-393).
LEMMA ApproveApproval ==
  ASSUME Inv, ApprovalInv, NEW o \in offers, Approve(o) PROVE ApprovalInv'
<1>. DEFINE c == o.draft.id
            other == Condition(o.draft)
<1>1. /\ DOMAIN conditions' = DOMAIN conditions
      /\ \A x \in DOMAIN conditions : conditions'[x] = IF x = c THEN other ELSE conditions[x]
  BY DEF Approve
<1>2. /\ offers' \subseteq offers
      /\ UNCHANGED <<qmode, cmode, begun, sweep, latest>>
  BY DEF Approve
<1>3. SweepsInv' /\ OffersInv'
  BY <1>2, RowsChangeKeepsSweeps
<1>4. RowsInv'
  <2>1. other.operator \in OPERATORS
    BY DEF ApprovalInv, OffersInv, Condition
  <2>2. touched' \in BOOLEAN
    BY DEF Approve
  <2>. HIDE DEF c, other
  <2>. QED
    BY <1>1, <1>2, <2>1, <2>2 DEF ApprovalInv, RowsInv, Comparable
<1>5. ASSUME latest # NoEvaluation, ~touched' PROVE NoBetter(conditions', latest.detail)
  <2>1. ~touched /\ o.by = latest.number /\ o.draft.metric = conditions[c].metric
    BY <1>5 DEF Approve
  <2>2. NoBetter(conditions, latest.detail) /\ Harmless(o.draft, latest.detail)
    BY <1>5, <2>1 DEF ApprovalInv, LatestInv
  <2>3. /\ c \in DOMAIN conditions /\ other.metric = latest.detail[c].metric
        /\ Resolve(other, latest.detail[c].value) = "pass" => latest.detail[c].passes = "pass"
    BY <2>1, <2>2 DEF NoBetter, Harmless, Condition
  <2>. HIDE DEF c, other
  <2>. QED
    BY <1>1, <2>2, <2>3 DEF NoBetter
<1>6. LatestInv'
  BY <1>2, <1>5 DEF ApprovalInv, LatestInv
<1>. QED
  BY <1>3, <1>4, <1>6 DEF ApprovalInv

\* The owner's edit is a change, and its row can be compared.
LEMMA EditApproval ==
  ASSUME Inv, ApprovalInv, NEW c \in DOMAIN conditions, EditCondition(c) PROVE ApprovalInv'
<1>1. PICK e \in Edited : conditions' = [conditions EXCEPT ![c] = e]
  BY DEF EditCondition
<1>2. /\ offers' = offers /\ touched' = TRUE
      /\ UNCHANGED <<qmode, cmode, begun, sweep, latest>>
  BY DEF EditCondition
<1>3. SweepsInv' /\ OffersInv'
  BY <1>2, RowsChangeKeepsSweeps
<1>4. RowsInv'
  BY <1>1, <1>2, RequestsAssumption DEF IsRow, ApprovalInv, RowsInv, Comparable
<1>5. LatestInv'
  BY <1>2 DEF ApprovalInv, LatestInv
<1>. QED
  BY <1>3, <1>4, <1>5 DEF ApprovalInv

\* The invariant of approvals is inductive beside Inv: one case per action.
LEMMA ApprovalStep == Inv /\ ApprovalInv /\ [Next]_vars => ApprovalInv'
<1> SUFFICES ASSUME Inv, ApprovalInv, [Next]_vars PROVE ApprovalInv'
  OBVIOUS
<1>1. ASSUME UNCHANGED <<thesis, begun, sweep, latest, queue>> PROVE ApprovalInv'
  <2>1. RowsInv' /\ SweepsInv'
    BY <1>1 DEF ApprovalInv, RowsInv, SweepsInv, thesis, queue
  <2>2. OffersInv' /\ LatestInv'
    BY <1>1 DEF ApprovalInv, OffersInv, LatestInv, thesis, queue
  <2>. QED
    BY <2>1, <2>2 DEF ApprovalInv
<1>2. CASE Publish
  BY <1>1, <1>2 DEF Publish
<1>3. ASSUME NEW a \in 1..MaxArticles, List(a) PROVE ApprovalInv'
  BY <1>1, <1>3 DEF List
<1>4. ASSUME NEW s \in Sessions,
             Begin(s) \/ Fetch(s) \/ Evaluation(s) \/ Commit(s) \/ SweepFails(s)
      PROVE  ApprovalInv'
  BY <1>4, BeginApproval, FetchApproval, EvaluationApproval, CommitApproval, FailureApproval
<1>5. ASSUME NEW o \in offers, Approve(o) PROVE ApprovalInv'
  BY <1>5, ApproveApproval
<1>6. ASSUME NEW c \in DOMAIN conditions, EditCondition(c) PROVE ApprovalInv'
  BY <1>6, EditApproval
<1>7. CASE UNCHANGED vars
  BY <1>1, <1>7 DEF vars
<1>. QED
  BY <1>2, <1>3, <1>4, <1>5, <1>6, <1>7 DEF Next

\* Approving a sweep's own updates, any of them, in any order and between any
\* other steps, does not make a thesis fire on the values the latest evaluation
\* found (proposals.py:27-29, 391-393), for any conditions, drafts and sweeps.
THEOREM ApprovalsDoNotFire == Spec => []ApprovalsAloneDoNotFire
<1>1. ApprovalInv => ApprovalsAloneDoNotFire
  <2>. SUFFICES ASSUME ApprovalInv, latest # NoEvaluation, ~touched, latest.status # "firing"
                PROVE  Evaluate(qmode,
                                [c \in DOMAIN conditions |->
                                   Resolve(conditions[c], latest.detail[c].value)],
                                cmode, latest.states) # "firing"
    BY DEF ApprovalsAloneDoNotFire
  <2>1. NoBetter(conditions, latest.detail) /\ Concluded(latest, qmode, cmode)
    BY DEF ApprovalInv, LatestInv
  <2>. QED
    BY <2>1, NoBetterDoesNotFire DEF Concluded
<1>. QED
  BY <1>1, Invariance, ApprovalInit, ApprovalStep, PTL DEF Spec

-----------------------------------------------------------------------------
(***************************************************************************)
(* Types: the rows an approval may write, and what a session carries.      *)
(***************************************************************************)
ResolvableDraft(p) ==
  p \in UNION Reviews /\ p.metric \in FETCHABLE_METRICS /\ p.operator \in OPERATORS /\ p.value \in Int

SessionTyped(r) ==
  /\ r.pc \in Mode
  /\ r.cutoff <= published /\ r.got \subseteq listed
  /\ r.shown \subseteq r.got /\ r.lost \subseteq r.got
  /\ Cardinality(r.shown) <= MAX_ARTICLES /\ Cardinality(r.made) <= MAX_REFINEMENTS
  /\ \A p \in r.made : ResolvableDraft(p)
  /\ r.pc # "none" => r.states \in [DOMAIN states -> CatalystState]

RowsTyped ==
  /\ qmode \in QuantMode /\ cmode \in CatalystMode
  /\ \A c \in DOMAIN conditions : /\ conditions[c].metric \in FETCHABLE_METRICS \union OwnMetrics
                                  /\ IsRow(conditions[c])
  /\ states \in [DOMAIN states -> CatalystState]
  /\ \A o \in offers : o = [by |-> o.by, draft |-> o.draft] /\ ResolvableDraft(o.draft)
  /\ begun <= MaxSweeps

NewsTyped ==
  /\ published \in 0..MaxArticles /\ listed \subseteq 1..published
  /\ reviewed \subseteq listed /\ missed \subseteq 1..published

TypeInv == RowsTyped /\ NewsTyped /\ \A s \in Sessions : SessionTyped(sweep[s])

\* The reviewer is shown no more articles than it reads: an article shown is
\* known by the number of newer ones (scheduler_service.py:311-350).
LEMMA ShownIsCapped ==
  ASSUME NEW got, IsFiniteSet(got), got \subseteq Nat
  PROVE  Cardinality(Shown(got)) <= MAX_ARTICLES
<1>1. PICK newer : newer = [a \in got |-> {b \in got : b > a}]
  OBVIOUS
<1>2. PICK rank : rank = [a \in got |-> Cardinality(newer[a])]
  OBVIOUS
<1>3. PICK shown : shown = Shown(got)
  OBVIOUS
<1>4. \A a \in got : newer[a] \subseteq got /\ \A b \in got : b \in newer[a] <=> b > a
  BY <1>1
<1>5. \A a \in got : IsFiniteSet(newer[a]) /\ rank[a] \in Nat /\ rank[a] = Cardinality(newer[a])
  <2>1. \A a \in got : IsFiniteSet(newer[a])
    BY <1>4, FS_Subset
  <2>. QED
    BY <1>2, <2>1, FS_CardinalityType
<1>6. \A a \in shown : a \in got /\ rank[a] < MAX_ARTICLES
  BY <1>1, <1>2, <1>3 DEF Shown
<1>7. \A a, b \in got : a < b => rank[a] # rank[b]
  <2>. SUFFICES ASSUME NEW a \in got, NEW b \in got, a < b PROVE rank[a] # rank[b]
    OBVIOUS
  <2>1. b \in newer[a] /\ b \notin newer[b]
    BY <1>4
  <2>2. newer[b] \subseteq newer[a]
    <3>. SUFFICES ASSUME NEW c \in newer[b] PROVE c \in newer[a]
      OBVIOUS
    <3>1. c \in got /\ c > b
      BY <1>4
    <3>2. a \in Nat /\ b \in Nat /\ c \in Nat
      BY <3>1
    <3>. QED
      BY <1>4, <3>1, <3>2
  <2>. QED
    BY <1>5, <2>1, <2>2, FS_Subset
<1>8. MAX_ARTICLES \in Nat
  BY BoundsAssumption
<1>9. PICK N : N = 0..(MAX_ARTICLES - 1)
  OBVIOUS
<1>10. PICK f : f = [a \in shown |-> rank[a]]
  OBVIOUS
<1>11. f \in [shown -> N]
  <2>1. \A a \in shown : rank[a] \in Nat /\ rank[a] < MAX_ARTICLES
    BY <1>5, <1>6
  <2>2. \A n \in Nat : n < MAX_ARTICLES => n \in N
    BY <1>8, <1>9
  <2>. QED
    BY <1>10, <2>1, <2>2
<1>12. \A a, b \in shown : f[a] = f[b] => a = b
  <2>1. \A a, b \in shown : a \in Nat /\ b \in Nat /\ a \in got /\ b \in got
    BY <1>6
  <2>. QED
    BY <1>7, <1>10, <2>1
<1>13. f \in Injection(shown, N)
  BY <1>11, <1>12, Zenon DEF Injection, IsInjective
<1>14. IsFiniteSet(N) /\ Cardinality(N) <= MAX_ARTICLES
  BY <1>8, <1>9, FS_Interval
<1>15. IsFiniteSet(shown) /\ Cardinality(shown) <= Cardinality(N)
  BY <1>13, <1>14, FS_Injection
<1>. QED
  BY <1>3, <1>8, <1>14, <1>15, FS_CardinalityType

\* Of the updates that may be offered each names a row, can be resolved and has
\* a number (guards 1 and 2), and guard 6 leaves no more than MAX_REFINEMENTS.
LEMMA OffersAreTyped ==
  ASSUME NEW s \in Sessions, NEW drafts \in Reviews, NEW detail, NEW shown,
         NEW made \in MayOffer(s, drafts, detail, shown)
  PROVE  Cardinality(made) <= MAX_REFINEMENTS /\ \A p \in made : ResolvableDraft(p)
<1>1. PICK cats : cats = [c \in DOMAIN sweep[s].states |-> c]
  OBVIOUS
<1>2. PICK conds : conds = sweep[s].conditions
  OBVIOUS
<1>3. PICK live : live = Live(detail)
  OBVIOUS
<1>4. PICK n : n = Cardinality(shown)
  OBVIOUS
<1>5. PICK kept \in ApplyProposalGuards(drafts, conds, cats, live, n) :
        \A p \in made : p \in kept /\ p.target = "quant" /\ p.action = "update"
  BY <1>1, <1>2, <1>3, <1>4 DEF MayOffer
<1>6. IsFiniteSet(drafts)
  BY ReviewsAssumption
<1>7. PICK a : /\ IsFiniteSet(a) /\ Cardinality(a) <= MAX_REFINEMENTS
               /\ \A p \in kept : IsDiscovery(p) \/ p \in a
  BY <1>5, <1>6, KeptDrafts
<1>8. made \subseteq a
  BY <1>5, <1>7 DEF IsDiscovery
<1>9. Cardinality(made) <= MAX_REFINEMENTS
  <2>1. /\ Cardinality(made) \in Nat /\ Cardinality(a) \in Nat
        /\ Cardinality(made) <= Cardinality(a)
    BY <1>7, <1>8, FS_Subset, FS_CardinalityType
  <2>. QED
    BY <1>7, <2>1, BoundsAssumption
<1>10. \A p \in made : ResolvableDraft(p)
  <2>. TAKE p \in made
  <2>1. /\ p \in drafts /\ Stands(p, conds, cats, live, n)
        /\ p.target = "quant" /\ p.action = "update"
    BY <1>5, <1>6, KeptDrafts
  <2>2. Resolvable(p)
    BY <2>1 DEF Stands, QuantStands
  <2>3. p.value \in Int \union {None}
    BY <2>1, ReviewsAssumption
  <2>. QED
    BY <2>1, <2>2, <2>3 DEF Resolvable, ResolvableDraft
<1>. QED
  BY <1>9, <1>10

\* A session that has read nothing yet holds nothing.
LEMMA EmptySession ==
  ASSUME NEW r, r.got = {}, r.shown = {}, r.lost = {}, r.made = {}, r.pc \in Mode,
         r.cutoff <= published,
         r.pc # "none" => r.states \in [DOMAIN states -> CatalystState]
  PROVE  SessionTyped(r)
  BY BoundsAssumption, FS_EmptySet DEF SessionTyped

\* The rows are as they were asked for, and every session is empty.
LEMMA TypedInit == Init => TypeInv
<1>. SUFFICES ASSUME Init PROVE TypeInv
  OBVIOUS
<1>1. PICK t \in Created :
        /\ qmode = t.qmode /\ cmode = t.cmode /\ conditions = t.conditions
        /\ states = [c \in t.catalysts |-> "unconfirmed"]
  BY DEF Init
<1>2. states \in [DOMAIN states -> CatalystState]
  BY <1>1 DEF CatalystState
<1>3. \A c \in DOMAIN conditions : conditions[c].metric \in OwnMetrics
  BY <1>1 DEF OwnMetrics
<1>4. RowsTyped
  BY <1>1, <1>2, <1>3, RequestsAssumption, BoundsAssumption DEF Init, RowsTyped
<1>5. NewsTyped
  BY BoundsAssumption DEF Init, NewsTyped
<1>6. \A s \in Sessions : SessionTyped(sweep[s])
  <2>1. SessionTyped(NoSweep)
    <3>1. NoSweep.cutoff <= published
      BY DEF Init, NoSweep
    <3>. QED
      BY <3>1, EmptySession DEF NoSweep, Mode
  <2>. QED
    BY <2>1 DEF Init
<1>. QED
  BY <1>4, <1>5, <1>6 DEF TypeInv

\* What a step must establish of the one session it moves, when only that changes.
LEMMA TypedSessionStep ==
  ASSUME Inv, TypeInv, NEW s \in Sessions, NEW r, sweep' = [sweep EXCEPT ![s] = r],
         SessionTyped(r), begun' <= MaxSweeps, UNCHANGED <<thesis, news, offers, seen>>
  PROVE  TypeInv'
<1>1. \A x \in Sessions : sweep'[x] = IF x = s THEN r ELSE sweep[x]
  BY DEF Inv
<1>2. \A x \in Sessions : SessionTyped(sweep'[x])
  BY <1>1 DEF TypeInv
<1>3. RowsTyped'
  BY DEF TypeInv, RowsTyped, thesis, ResolvableDraft
<1>4. NewsTyped'
  BY DEF TypeInv, NewsTyped, news, seen
<1>. QED
  BY <1>2, <1>3, <1>4 DEF TypeInv, SessionTyped, ResolvableDraft, thesis, news

\* A sweep begins within its bound, on the rows as they are.
LEMMA BeginTyped == ASSUME Inv, TypeInv, RowsInv, NEW s \in Sessions, Begin(s) PROVE TypeInv'
<1>. DEFINE r == [NoSweep EXCEPT !.pc = "began", !.number = begun + 1, !.cutoff = published,
                                 !.conditions = conditions, !.states = states]
<1>1. /\ r.pc = "began" /\ r.cutoff = published /\ r.states = states
      /\ r.got = {} /\ r.shown = {} /\ r.lost = {} /\ r.made = {}
  BY DEF NoSweep
<1>2. sweep' = [sweep EXCEPT ![s] = r] /\ UNCHANGED <<thesis, news, offers, seen>>
  BY DEF Begin, queue
<1>3. begun' <= MaxSweeps
  BY BoundsAssumption DEF Begin, RowsInv
<1>. HIDE DEF r
<1>4. SessionTyped(r)
  <2>1. r.cutoff <= published
    BY <1>1 DEF Inv
  <2>2. r.states \in [DOMAIN states -> CatalystState]
    BY <1>1 DEF TypeInv, RowsTyped
  <2>. QED
    BY <1>1, <2>1, <2>2, EmptySession DEF Mode
<1>. QED
  BY <1>2, <1>3, <1>4, TypedSessionStep

\* Every verdict leaves a catalyst in the vocabulary (catalysts.py:85-113).
LEMMA AppliedIsState ==
  ASSUME NEW state \in CatalystState, NEW v PROVE Apply(state, v) \in CatalystState
  BY DEF Apply, CatalystState

\* Verdicts keep the states in the vocabulary, on news the sources list.
LEMMA FetchTyped == ASSUME Inv, TypeInv, NEW s \in Sessions, Fetch(s) PROVE TypeInv'
<1>1. /\ IsSession(sweep[s]) /\ SessionTyped(sweep[s]) /\ sweep[s].pc # "none"
      /\ sweep[s].states \in [DOMAIN states -> CatalystState]
  BY DEF Inv, Fetch, TypeInv, SessionTyped
<1>2. begun' <= MaxSweeps /\ UNCHANGED <<thesis, news, offers, seen>>
  BY DEF Fetch, queue, TypeInv, RowsTyped
<1>. DEFINE J(v) == IF listed = {} THEN sweep[s].states
                    ELSE [c \in DOMAIN sweep[s].states |-> Apply(sweep[s].states[c], v[c])]
            M(v) == {c \in DOMAIN sweep[s].states : J(v)[c] # sweep[s].states[c]}
<1>3. \/ \E v, m : sweep' = [sweep EXCEPT ![s] =
           [@ EXCEPT !.pc = "fetched", !.got = listed, !.states = J(v), !.moved = m]]
      \/ sweep' = [sweep EXCEPT ![s] = [@ EXCEPT !.pc = "fetched"]]
  <2>1. \/ \E v : sweep' = [sweep EXCEPT ![s] =
             [@ EXCEPT !.pc = "fetched", !.got = listed, !.states = J(v), !.moved = M(v)]]
        \/ sweep' = [sweep EXCEPT ![s] = [@ EXCEPT !.pc = "fetched"]]
    BY ZenonT(60) DEF Fetch
  <2>. HIDE DEF J, M
  <2>. QED
    BY <2>1
<1>4. ASSUME NEW v, NEW m,
             sweep' = [sweep EXCEPT ![s] =
               [@ EXCEPT !.pc = "fetched", !.got = listed, !.states = J(v), !.moved = m]]
      PROVE  TypeInv'
  <2>. DEFINE r == [sweep[s] EXCEPT !.pc = "fetched", !.got = listed, !.states = J(v), !.moved = m]
  <2>1. sweep' = [sweep EXCEPT ![s] = r]
    BY <1>4
  <2>2. /\ r.pc = "fetched" /\ r.cutoff = sweep[s].cutoff /\ r.states = J(v) /\ r.got = listed
        /\ r.shown = sweep[s].shown /\ r.lost = sweep[s].lost /\ r.made = sweep[s].made
    <3>1. PICK w, j : w = sweep[s] /\ j = J(v)
      OBVIOUS
    <3>2. r = [w EXCEPT !.pc = "fetched", !.got = listed, !.states = j, !.moved = m]
      BY <3>1
    <3>. HIDE DEF r, J
    <3>3. IsSession(w)
      BY <1>1, <3>1
    <3>4. r = [pc |-> "fetched", number |-> w.number, cutoff |-> w.cutoff,
               conditions |-> w.conditions, states |-> j, moved |-> m, got |-> listed,
               result |-> w.result, shown |-> w.shown, lost |-> w.lost, made |-> w.made]
      BY <3>2, <3>3, FetchedRecord
    <3>. QED
      BY <3>1, <3>4
  <2>. HIDE DEF r
  <2>3. J(v) \in [DOMAIN states -> CatalystState]
    <3>1. \A c \in DOMAIN sweep[s].states : Apply(sweep[s].states[c], v[c]) \in CatalystState
      BY <1>1, AppliedIsState
    <3>. QED
      BY <1>1, <3>1
  <2>4. SessionTyped(r)
    BY <1>1, <2>2, <2>3 DEF SessionTyped, Mode
  <2>. QED
    BY <1>2, <2>1, <2>4, TypedSessionStep
<1>5. ASSUME sweep' = [sweep EXCEPT ![s] = [@ EXCEPT !.pc = "fetched"]] PROVE TypeInv'
  <2>. DEFINE r == [sweep[s] EXCEPT !.pc = "fetched"]
  <2>1. sweep' = [sweep EXCEPT ![s] = r]
    BY <1>5
  <2>2. /\ r.pc = "fetched" /\ r.cutoff = sweep[s].cutoff /\ r.states = sweep[s].states
        /\ r.got = sweep[s].got
        /\ r.shown = sweep[s].shown /\ r.lost = sweep[s].lost /\ r.made = sweep[s].made
    BY <1>1, UnfetchedRecord
  <2>. HIDE DEF r
  <2>3. SessionTyped(r)
    BY <1>1, <2>2 DEF SessionTyped, Mode
  <2>. QED
    BY <1>2, <2>1, <2>3, TypedSessionStep
<1>. HIDE DEF J
<1>. QED
  BY <1>3, <1>4, <1>5

\* The caps hold of what is shown and of what is offered.
LEMMA EvaluationTyped == ASSUME Inv, TypeInv, NEW s \in Sessions, Evaluation(s) PROVE TypeInv'
<1>1. /\ IsSession(sweep[s]) /\ SessionTyped(sweep[s]) /\ sweep[s].pc # "none"
      /\ sweep[s].states \in [DOMAIN states -> CatalystState]
  BY DEF Inv, Evaluation, TypeInv, SessionTyped
<1>2. begun' <= MaxSweeps /\ UNCHANGED <<thesis, news, offers, seen>>
  BY DEF Evaluation, queue, TypeInv, RowsTyped
<1>3. PICK value \in Markets : Evaluation(s)!2!(value)
  BY DEF Evaluation
<1>. DEFINE got    == sweep[s].got
            cs     == sweep[s].conditions
            detail == [c \in DOMAIN cs |-> [metric |-> cs[c].metric,
                                            value  |-> value[cs[c].metric],
                                            passes |-> Resolve(cs[c], value[cs[c].metric])]]
            status == Evaluate(qmode, Outcomes(detail), cmode, sweep[s].states)
            quiet  == NothingNew(latest, status, detail, got, sweep[s].moved)
            result == [number |-> sweep[s].number, cutoff |-> CreatedAt(s),
                       status |-> status, detail |-> detail, states |-> sweep[s].states,
                       asked  |-> IF quiet THEN latest.asked
                                  ELSE [status |-> status, outcomes |-> Outcomes(detail)]]
            Ended(x, l, m) == [sweep[s] EXCEPT !.pc = "evaluated", !.result = result,
                                 !.shown = x, !.lost = l, !.made = m]
            Capped(x, l, m) == /\ x \subseteq got /\ l \subseteq got
                               /\ Cardinality(x) <= MAX_ARTICLES
                               /\ Cardinality(m) <= MAX_REFINEMENTS
                               /\ \A p \in m : ResolvableDraft(p)
<1>4. got \subseteq Nat /\ IsFiniteSet(got)
  <2>1. got \subseteq 1..published /\ published \in Nat
    BY <1>1 DEF SessionTyped, TypeInv, NewsTyped, Inv
  <2>2. IsFiniteSet(1..published)
    BY <2>1, FS_Interval
  <2>. HIDE DEF got
  <2>3. got \subseteq Nat
    BY <2>1
  <2>4. IsFiniteSet(got)
    BY <2>1, <2>2, FS_Subset
  <2>. QED
    BY <2>3, <2>4
<1>5. \E x, l, m : sweep' = [sweep EXCEPT ![s] = Ended(x, l, m)] /\ Capped(x, l, m)
  <2>. DEFINE Ends(x, l, m) == sweep' = [sweep EXCEPT ![s] = Ended(x, l, m)]
  <2>1. \/ Ends({}, {}, {})
        \/ Ends({}, got, {})
        \/ \E drafts \in Reviews : \E m \in MayOffer(s, drafts, detail, Shown(got)) :
             Ends(Shown(got), got \ Shown(got), m)
    BY <1>3
  <2>2. Cardinality(Shown(got)) <= MAX_ARTICLES
    BY <1>4, ShownIsCapped
  <2>3. Shown(got) \subseteq got
    BY DEF Shown
  <2>. HIDE DEF Ended, detail, got
  <2>4. Capped({}, {}, {}) /\ Capped({}, got, {})
    BY FS_EmptySet, BoundsAssumption
  <2>5. \A drafts \in Reviews : \A m \in MayOffer(s, drafts, detail, Shown(got)) :
          Capped(Shown(got), got \ Shown(got), m)
    BY <2>2, <2>3, OffersAreTyped
  <2>. HIDE DEF Capped
  <2>. QED
    BY <2>1, <2>4, <2>5
<1>. HIDE DEF result, Capped
<1>6. PICK x, l, m : sweep' = [sweep EXCEPT ![s] = Ended(x, l, m)] /\ Capped(x, l, m)
  BY <1>5
<1>. DEFINE r == Ended(x, l, m)
<1>7. /\ r.pc = "evaluated" /\ r.cutoff = sweep[s].cutoff /\ r.states = sweep[s].states
      /\ r.got = got /\ r.shown = x /\ r.lost = l /\ r.made = m
  <2>1. r = [pc |-> "evaluated", number |-> sweep[s].number, cutoff |-> sweep[s].cutoff,
             conditions |-> sweep[s].conditions, states |-> sweep[s].states,
             moved |-> sweep[s].moved, got |-> sweep[s].got, result |-> result,
             shown |-> x, lost |-> l, made |-> m]
    <3>1. PICK w : w = sweep[s]
      OBVIOUS
    <3>2. IsSession(w)
      BY <1>1, <3>1
    <3>3. r = [w EXCEPT !.pc = "evaluated", !.result = result, !.shown = x, !.lost = l, !.made = m]
      BY <3>1
    <3>. HIDE DEF r
    <3>4. r = [pc |-> "evaluated", number |-> w.number, cutoff |-> w.cutoff,
               conditions |-> w.conditions, states |-> w.states, moved |-> w.moved,
               got |-> w.got, result |-> result, shown |-> x, lost |-> l, made |-> m]
      BY <3>2, <3>3, EvaluatedRecord
    <3>. QED
      BY <3>1, <3>4
  <2>. HIDE DEF r
  <2>. QED
    BY <2>1
<1>8. sweep' = [sweep EXCEPT ![s] = r]
  BY <1>6
<1>. HIDE DEF r
<1>9. SessionTyped(r)
  BY <1>1, <1>6, <1>7 DEF Capped, SessionTyped, Mode
<1>. QED
  BY <1>2, <1>8, <1>9, TypedSessionStep

\* A failed session is empty again.
LEMMA FailureTyped == ASSUME Inv, TypeInv, NEW s \in Sessions, SweepFails(s) PROVE TypeInv'
<1>. DEFINE r == NoSweep
<1>1. /\ sweep' = [sweep EXCEPT ![s] = r] /\ begun' <= MaxSweeps
      /\ UNCHANGED <<thesis, news, offers, seen>>
  BY DEF SweepFails, queue, TypeInv, RowsTyped
<1>2. SessionTyped(r)
  <2>1. NoSweep.cutoff <= published
    BY DEF Inv, NoSweep
  <2>. QED
    BY <2>1, EmptySession DEF NoSweep, Mode
<1>. HIDE DEF r
<1>. QED
  BY <1>1, <1>2, TypedSessionStep

\* What a sweep writes back has the types it was read with.
LEMMA CommitTyped == ASSUME Inv, TypeInv, NEW s \in Sessions, Commit(s) PROVE TypeInv'
<1>1. /\ SessionTyped(sweep[s]) /\ sweep[s].cutoff \in Nat /\ published \in Nat
      /\ sweep[s].states \in [DOMAIN states -> CatalystState]
      /\ states \in [DOMAIN states -> CatalystState]
  BY DEF Commit, Inv, TypeInv, SessionTyped, RowsTyped
<1>2. \A x \in Sessions : sweep'[x] = IF x = s THEN NoSweep ELSE sweep[x]
  BY DEF Commit, Inv
<1>3. /\ states' \in [DOMAIN states -> CatalystState] /\ DOMAIN states' = DOMAIN states
  BY <1>1 DEF Commit
<1>4. /\ UNCHANGED <<qmode, cmode, conditions, published, listed, begun>>
      /\ offers' = offers \union {[by |-> sweep[s].result.number, draft |-> p] : p \in sweep[s].made}
      /\ reviewed' = reviewed \union sweep[s].shown
      /\ missed' = missed \union sweep[s].lost \union ((1..sweep[s].cutoff) \ sweep[s].got)
  BY DEF Commit, news
<1>5. RowsTyped'
  <2>1. \A o \in offers' : o = [by |-> o.by, draft |-> o.draft] /\ ResolvableDraft(o.draft)
    BY <1>1, <1>4 DEF TypeInv, RowsTyped, SessionTyped
  <2>. QED
    BY <1>3, <1>4, <2>1 DEF TypeInv, RowsTyped, ResolvableDraft
<1>6. NewsTyped'
  <2>1. sweep[s].shown \subseteq listed /\ sweep[s].lost \subseteq 1..published
    BY <1>1 DEF SessionTyped, TypeInv, NewsTyped
  <2>2. 1..sweep[s].cutoff \subseteq 1..published
    BY <1>1 DEF SessionTyped
  <2>. QED
    BY <1>4, <2>1, <2>2 DEF TypeInv, NewsTyped
<1>7. \A x \in Sessions : SessionTyped(sweep'[x])
  <2>1. SessionTyped(NoSweep)
    <3>1. NoSweep.cutoff <= published
      BY <1>1 DEF NoSweep
    <3>. QED
      BY <3>1, EmptySession DEF NoSweep, Mode
  <2>. QED
    BY <1>2, <2>1 DEF TypeInv
<1>. QED
  BY <1>3, <1>4, <1>5, <1>6, <1>7 DEF TypeInv, SessionTyped, ResolvableDraft

\* Sweeps keep their types whatever becomes of the conditions and the offers.
LEMMA TypedRowsStep ==
  ASSUME TypeInv, RowsTyped', UNCHANGED <<states, news, sweep, seen>>
  PROVE  TypeInv'
  BY DEF TypeInv, NewsTyped, SessionTyped, ResolvableDraft, news, seen

\* An approved draft is a row that can be resolved.
LEMMA ApproveTyped == ASSUME TypeInv, NEW o \in offers, Approve(o) PROVE TypeInv'
<1>. DEFINE c == o.draft.id
            other == Condition(o.draft)
<1>1. /\ DOMAIN conditions' = DOMAIN conditions
      /\ \A x \in DOMAIN conditions : conditions'[x] = IF x = c THEN other ELSE conditions[x]
  BY DEF Approve
<1>2. /\ offers' \subseteq offers /\ UNCHANGED <<qmode, cmode, states, news, begun, sweep, seen>>
  BY DEF Approve
<1>3. other.metric \in FETCHABLE_METRICS /\ IsRow(other)
  BY DEF TypeInv, RowsTyped, ResolvableDraft, Condition, IsRow
<1>. HIDE DEF c, other
<1>4. RowsTyped'
  BY <1>1, <1>2, <1>3 DEF TypeInv, RowsTyped, ResolvableDraft
<1>. QED
  BY <1>2, <1>4, TypedRowsStep

\* An edit is a row the owner may write.
LEMMA EditTyped == ASSUME TypeInv, NEW c \in DOMAIN conditions, EditCondition(c) PROVE TypeInv'
<1>1. PICK e \in Edited : conditions' = [conditions EXCEPT ![c] = e]
  BY DEF EditCondition
<1>2. UNCHANGED <<qmode, cmode, states, news, begun, sweep, offers, seen>>
  BY DEF EditCondition
<1>3. e.metric \in OwnMetrics /\ IsRow(e)
  BY RequestsAssumption DEF OwnMetrics
<1>4. RowsTyped'
  BY <1>1, <1>2, <1>3 DEF TypeInv, RowsTyped, ResolvableDraft
<1>. QED
  BY <1>2, <1>4, TypedRowsStep

\* Articles are only ever added, before and behind the sources' backs.
LEMMA NewsGrowTyped ==
  ASSUME Inv, TypeInv, published' \in 0..MaxArticles, published <= published',
         listed \subseteq listed', listed' \subseteq 1..published',
         UNCHANGED <<thesis, begun, sweep, queue, seen>>
  PROVE  TypeInv'
<1>1. RowsTyped'
  BY DEF TypeInv, RowsTyped, ResolvableDraft, thesis, queue
<1>2. published \in Int /\ published' \in Int
  BY BoundsAssumption DEF TypeInv, NewsTyped
<1>3. NewsTyped'
  BY <1>2 DEF TypeInv, NewsTyped, seen
<1>4. \A s \in Sessions : SessionTyped(sweep[s])'
  <2>. TAKE s \in Sessions
  <2>1. SessionTyped(sweep[s]) /\ sweep'[s] = sweep[s] /\ states' = states
    BY DEF TypeInv, thesis
  <2>2. sweep[s].cutoff \in Nat /\ sweep[s].cutoff <= published
    BY <2>1 DEF Inv, SessionTyped
  <2>3. sweep[s].cutoff <= published'
    BY <1>2, <2>2
  <2>. QED
    BY <2>1, <2>3 DEF SessionTyped, ResolvableDraft
<1>. QED
  BY <1>1, <1>3, <1>4 DEF TypeInv

\* The types are inductive beside the other two invariants.
LEMMA TypedStep == Inv /\ ApprovalInv /\ TypeInv /\ [Next]_vars => TypeInv'
<1> SUFFICES ASSUME Inv, ApprovalInv, TypeInv, [Next]_vars PROVE TypeInv'
  OBVIOUS
<1>1. RowsInv
  BY DEF ApprovalInv
<1>2. CASE Publish
  BY <1>2, NewsGrowTyped, BoundsAssumption DEF Publish, TypeInv, NewsTyped
<1>3. ASSUME NEW a \in 1..MaxArticles, List(a) PROVE TypeInv'
  BY <1>3, NewsGrowTyped, BoundsAssumption DEF List, TypeInv, NewsTyped
<1>4. ASSUME NEW s \in Sessions,
             Begin(s) \/ Fetch(s) \/ Evaluation(s) \/ Commit(s) \/ SweepFails(s)
      PROVE  TypeInv'
  BY <1>1, <1>4, BeginTyped, FetchTyped, EvaluationTyped, CommitTyped, FailureTyped
<1>5. ASSUME NEW o \in offers, Approve(o) PROVE TypeInv'
  BY <1>5, ApproveTyped
<1>6. ASSUME NEW c \in DOMAIN conditions, EditCondition(c) PROVE TypeInv'
  BY <1>6, EditTyped
<1>7. CASE UNCHANGED vars
  BY <1>7, NewsGrowTyped, BoundsAssumption DEF vars, news, TypeInv, NewsTyped
<1>. QED
  BY <1>2, <1>3, <1>4, <1>5, <1>6, <1>7 DEF Next

\* Rows, articles and sweeps keep their types for any drafts the reviewer may
\* write: what is approved has a comparison that resolves and a metric that can
\* be fetched (proposals.py:17-19, 365-372), and no sweep makes more updates or
\* shows more articles than the caps allow (scheduler_service.py:311-350).
THEOREM TypeCorrect == Spec => []TypeOK
<1>1. Inv /\ ApprovalInv /\ TypeInv => TypeOK
  <2>. SUFFICES ASSUME Inv, ApprovalInv, TypeInv PROVE TypeOK
    OBVIOUS
  <2>1. offers \subseteq [by : 1..MaxSweeps, draft : UNION Reviews]
    <3>. SUFFICES ASSUME NEW o \in offers PROVE o \in [by : 1..MaxSweeps, draft : UNION Reviews]
      OBVIOUS
    <3>1. o.by \in 1..begun /\ begun \in Nat /\ begun <= MaxSweeps
      BY DEF ApprovalInv, OffersInv, RowsInv, TypeInv, RowsTyped
    <3>2. o = [by |-> o.by, draft |-> o.draft] /\ o.draft \in UNION Reviews
      BY DEF TypeInv, RowsTyped, ResolvableDraft
    <3>3. o.by \in 1..MaxSweeps
      BY <3>1, BoundsAssumption
    <3>. QED
      BY <3>2, <3>3
  <2>2. latest # NoEvaluation => latest.status \in EvalStatus
    BY DEF ApprovalInv, LatestInv, Concluded, Evaluate, EvalStatus
  <2>. QED
    BY <2>1, <2>2 DEF TypeOK, TypeInv, RowsTyped, NewsTyped, SessionTyped
<1>. QED
  BY <1>1, Invariance, ApprovalInit, ApprovalStep, TypedInit, TypedStep, PTL DEF Spec
=============================================================================
