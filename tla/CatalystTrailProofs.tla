------------------------ MODULE CatalystTrailProofs ------------------------
(***************************************************************************)
(* Proofs about CatalystTrail: its invariants, for trails of any length;   *)
(* and about NewsClassify, for any sources, articles, answers, chunks and  *)
(* bounds.                                                                 *)
(***************************************************************************)
EXTENDS NewsClassify, FiniteSetTheorems, TLAPS

\* Whatever the verdict, a catalyst's next state is of the vocabulary.
LEMMA ApplyInState ==
  ASSUME NEW s \in CatalystState, NEW a \in Answer
  PROVE  Apply(s, ApplyGuards(a)) \in CatalystState
BY DEF Apply, ApplyGuards, Effective, Credible, CatalystState, CatalystProposal,
       CREDIBLE_SOURCES, SourceKind, QuoteKind, Answer

\* What one answer does, by its kind alone: the three cases of the guards and
\* the state machine together.
LEMMA ApplyByKind ==
  ASSUME NEW s \in CatalystState, NEW a \in Answer
  PROVE  /\ Decides(a) => Apply(s, ApplyGuards(a)) = a.proposed
         /\ ~Decides(a) /\ Hints(a) =>
              Apply(s, ApplyGuards(a)) = IF s = "unconfirmed" THEN "rumored" ELSE s
         /\ ~Decides(a) /\ ~Hints(a) => Apply(s, ApplyGuards(a)) = s
BY DEF Apply, ApplyGuards, Effective, Credible, CatalystState, CatalystProposal,
       CREDIBLE_SOURCES, SourceKind, QuoteKind, Answer, Decides, Hints

\* One iteration of the verdict loop keeps the types.
LEMMA TypeStep == TypeOK /\ [Next]_vars => TypeOK'
<1> SUFFICES ASSUME TypeOK, [Next]_vars PROVE TypeOK'
  OBVIOUS
<1>1. CASE Next
  <2>1. PICK a \in Answer : RecordVerdict(a)
    BY <1>1 DEF Next
  <2>2. state' \in CatalystState
    BY <2>1, ApplyInState DEF RecordVerdict, TypeOK
  <2>3. evidence' \in Seq(Answer) /\ Len(evidence') <= MaxTrail
    BY <2>1, MaxTrailAssumption DEF RecordVerdict, TypeOK
  <2>. QED BY <2>2, <2>3 DEF TypeOK
<1>2. CASE UNCHANGED vars
  BY <1>2 DEF vars, TypeOK
<1>. QED BY <1>1, <1>2

\* One iteration of the verdict loop keeps the state what its trail decides.
LEMMA DecisionStep ==
  TypeOK /\ StateIsLastDecision /\ [Next]_vars => StateIsLastDecision'
<1> SUFFICES ASSUME TypeOK, StateIsLastDecision, [Next]_vars
             PROVE  StateIsLastDecision'
  OBVIOUS
<1>1. CASE Next
  <2>1. PICK a \in Answer : RecordVerdict(a)
    BY <1>1 DEF Next
  <2> DEFINE n == Len(evidence)
  <2>2. /\ n \in Nat
        /\ DOMAIN evidence = 1..n
        /\ DOMAIN evidence' = 1..(n + 1)
        /\ evidence'[n + 1] = a
        /\ \A i \in 1..n : evidence'[i] = evidence[i]
    BY <2>1 DEF RecordVerdict, TypeOK
  <2>3. state \in CatalystState /\ state' = Apply(state, ApplyGuards(a))
    BY <2>1 DEF RecordVerdict, TypeOK
  <2>4. CASE Decides(a)
    \* The new answer is the last deciding one.
    <3>1. state' = a.proposed
      BY <2>3, <2>4, ApplyByKind
    <3>2. ASSUME NEW i \in DOMAIN evidence', LastDecisive(i)'
          PROVE  i = n + 1
      BY <3>2, <2>2, <2>4 DEF LastDecisive
    <3>. QED
      BY <3>1, <3>2, <2>2, <2>4 DEF StateIsLastDecision
  <2>5. CASE ~Decides(a)
    <3>1. \A i \in 1..n : Decides(evidence'[i]) = Decides(evidence[i])
      BY <2>2
    <3>2. CASE \E i \in 1..n : Decides(evidence[i])
      \* A decided state is not touched.
      <4>1. ASSUME NEW i \in DOMAIN evidence', LastDecisive(i)'
            PROVE  i \in 1..n /\ LastDecisive(i)
        BY <4>1, <2>2, <2>5 DEF LastDecisive
      <4>2. ASSUME NEW i \in 1..n, LastDecisive(i)
            PROVE  state' = evidence[i].proposed
        <5>1. state = evidence[i].proposed /\ Decides(evidence[i])
          BY <4>2, <2>2 DEF StateIsLastDecision, LastDecisive
        <5>2. state # "unconfirmed"
          BY <5>1 DEF Decides
        <5>. QED
          BY <5>1, <5>2, <2>3, <2>5, ApplyByKind
      <4>. QED
        BY <4>1, <4>2, <3>1, <3>2, <2>2 DEF StateIsLastDecision
    <3>3. CASE \A i \in 1..n : ~Decides(evidence[i])
      <4>1. state = IF \E i \in 1..n : Hints(evidence[i])
                    THEN "rumored" ELSE "unconfirmed"
        BY <3>3, <2>2 DEF StateIsLastDecision
      <4>2. (\E i \in 1..(n + 1) : Hints(evidence'[i]))
              <=> Hints(a) \/ \E i \in 1..n : Hints(evidence[i])
        BY <2>2
      <4>3. state' = IF \E i \in 1..(n + 1) : Hints(evidence'[i])
                     THEN "rumored" ELSE "unconfirmed"
        BY <4>1, <4>2, <2>3, <2>5, ApplyByKind
      <4>4. \A i \in DOMAIN evidence' : ~Decides(evidence'[i])
        BY <3>1, <3>3, <2>2, <2>5
      <4>. QED
        BY <4>3, <4>4, <2>2 DEF StateIsLastDecision, LastDecisive
    <3>. QED BY <3>2, <3>3
  <2>. QED BY <2>4, <2>5
<1>2. CASE UNCHANGED vars
  BY <1>2 DEF vars, StateIsLastDecision, LastDecisive
<1>. QED BY <1>1, <1>2

\* A new catalyst is unconfirmed and has no trail.
LEMMA TrailInit == Init => TypeOK /\ StateIsLastDecision
BY MaxTrailAssumption DEF Init, TypeOK, CatalystState, StateIsLastDecision, LastDecisive

\* The state and the trail stay in their types (catalysts.py:80-125,
\* catalyst_repository.py:71-84).
THEOREM TypeCorrect == Spec => []TypeOK
BY TrailInit, TypeStep, PTL DEF Spec

\* The state of a catalyst is always what the last deciding answer of its
\* whole trail said, and "rumored" or "unconfirmed" before there is one
\* (llm.py:189-212, catalysts.py:80-125).
THEOREM LastDecisionHolds == Spec => []StateIsLastDecision
BY TrailInit, DecisionStep, TypeCorrect, PTL DEF Spec

-----------------------------------------------------------------------------
(***************************************************************************)
(* The sweeps that feed the trail (NewsClassify).  What is committed is a  *)
(* prefix of what the session holds.  An article that is recorded behind a *)
(* newer one is either of the same sweep, and then Pass 1 named it late,   *)
(* for the fresh articles come oldest first; or of a later sweep, and then *)
(* it was not there, not answered or not judged when the newer one was.    *)
(***************************************************************************)
\* The state st is what the trail ev decides: StateIsLastDecision of any copy.
DecidedBy(st, ev) ==
  /\ \A i \in DOMAIN ev :
       Decides(ev[i]) /\ (\A j \in DOMAIN ev : j > i => ~Decides(ev[j]))
         => st = ev[i].proposed
  /\ (\A i \in DOMAIN ev : ~Decides(ev[i]))
       => st = IF \E i \in DOMAIN ev : Hints(ev[i]) THEN "rumored" ELSE "unconfirmed"

\* An article older than one before it in the trail is one of the excused.
InOrder(trail, excused) ==
  \A i, j \in DOMAIN trail : i < j /\ trail[j] < trail[i] => trail[j] \in excused

\* The articles the committed rows keep from being fetched again.
Kept == ToSet(saved.about) \union saved.others

\* The types, and what a sweep has in hand at each of its stages.
ProgressInv ==
  /\ NewsTypeOK
  /\ saved.state \in CatalystState /\ saved.evidence \in Seq(Answer)
  /\ Len(saved.evidence) <= MaxTrail
  /\ saved.about \in Seq(Articles) /\ Len(saved.about) = Len(saved.evidence)
  /\ saved.others \subseteq Articles
  /\ \A s \in Sources : IsFiniteSet(listed[s])
  /\ pc = "idle" =>
       /\ state = saved.state /\ evidence = saved.evidence
       /\ about = saved.about /\ others = saved.others
       /\ fresh = <<>> /\ shown = 0 /\ pairs = <<>> /\ shuffled = {}
  /\ pc = "pass1" => about = saved.about
  /\ pc = "pass2" => pairs # <<>>
  /\ pc = "commit" => pairs = <<>>

\* Both the session's state and the committed one follow from their trails.
DecisionInv == StateIsLastDecision /\ DecidedBy(saved.state, saved.evidence)

\* The fresh articles and the pairs come oldest first, but for the shuffled.
QueueInv ==
  /\ \A i, j \in DOMAIN fresh : i < j => fresh[i] < fresh[j]
  /\ pc = "pass1" => \A k \in DOMAIN pairs : \E i \in 1..shown : pairs[k][1] = fresh[i]
  /\ \A j, k \in DOMAIN pairs : j < k /\ pairs[k][1] < pairs[j][1] => pairs[k][1] \in shuffled
  /\ \A i \in DOMAIN about, k \in DOMAIN pairs :
       i > Len(saved.about) /\ pairs[k][1] < about[i] => pairs[k][1] \in shuffled

\* The session's trail continues the committed one with fresh articles, and
\* what is out of order in either is excused.
TrailInv ==
  /\ InOrder(about, heldUp \union shuffled)
  /\ InOrder(saved.about, heldUp)
  /\ \A i \in DOMAIN saved.about : i \in DOMAIN about /\ about[i] = saved.about[i]
  /\ \A i \in DOMAIN about : i > Len(saved.about) => about[i] \in ToSet(fresh)
  /\ saved.others \subseteq others

\* The fresh articles are new and in the window; what is in the window and not
\* among them is kept or held up; and what is older than a recorded article is
\* kept, held up or gone from the window.
ArrivalInv ==
  /\ ToSet(fresh) \subseteq Window(Sources) \ Kept
  /\ pc # "idle" => Window(Sources) \subseteq ToSet(fresh) \union Kept \union heldUp
  /\ ToSet(saved.about) \subseteq UNION {listed[s] : s \in Sources}
  /\ \A b \in ToSet(saved.about), a \in Window(Sources) : a < b => a \in Kept \union heldUp

NewsInv == ProgressInv /\ DecisionInv /\ QueueInv /\ TrailInv /\ ArrivalInv

-----------------------------------------------------------------------------
\* A source has listed finitely many articles, and so have all together.
LEMMA WindowFinite ==
  ASSUME \A s \in Sources : IsFiniteSet(listed[s]), NEW answering \in SUBSET Sources
  PROVE  IsFiniteSet(Window(answering))
<1>1. IsFiniteSet(answering)
  BY FS_Subset, NewsAssumption
<1>2. PICK lists : lists = {listed[s] : s \in answering}
  OBVIOUS
<1>3. [s \in answering |-> listed[s]] \in Surjection(answering, lists)
  BY <1>2 DEF Surjection
<1>4. IsFiniteSet(lists)
  BY <1>1, <1>3, FS_Surjection
<1>5. IsFiniteSet(UNION lists)
  BY <1>2, <1>4, FS_UNION
<1>6. Window(answering) \in SUBSET UNION lists
  BY <1>2 DEF Window
<1>. QED BY <1>5, <1>6, FS_Subset

\* What ByPublication lists: all of S, once each, oldest first.
LEMMA Enumerated ==
  ASSUME NEW S \in SUBSET Articles, IsFiniteSet(S), NEW q \in ByPublication(S)
  PROVE  /\ q \in Seq(Articles) /\ ToSet(q) = S /\ IsInjective(q)
         /\ \A i, j \in DOMAIN q : i < j => q[i] < q[j]
<1>1. Cardinality(S) \in Nat
  BY FS_CardinalityType
<1>2. /\ q \in [1..Cardinality(S) -> S] /\ ToSet(q) = S
      /\ \A i, j \in DOMAIN q : i < j => q[i] < q[j]
  BY DEF ByPublication, Enumerations
<1>3. q \in Seq(Articles)
  BY <1>1, <1>2
<1>4. IsInjective(q)
  <2> SUFFICES ASSUME NEW i \in DOMAIN q, NEW j \in DOMAIN q, q[i] = q[j]
               PROVE  i = j
    BY DEF IsInjective
  <2>1. i \in Nat /\ j \in Nat /\ q[i] \in Nat
    <3>1. i \in 1..Cardinality(S) /\ j \in 1..Cardinality(S)
      BY <1>2
    <3>2. q[i] \in S
      BY <1>2, <3>1
    <3>3. q[i] \in Nat
      BY <3>2, NewsAssumption
    <3>. QED BY <1>1, <3>1, <3>3
  <2>2. ~(i < j) /\ ~(j < i)
    BY <1>2, <2>1
  <2>. QED BY <2>1, <2>2
<1>. QED BY <1>2, <1>3, <1>4

\* A chunk ends with the fresh articles at the latest.
LEMMA ChunkBounds ==
  ASSUME fresh \in Seq(Articles), shown \in 0..Len(fresh)
  PROVE  /\ ChunkEnd \in shown..Len(fresh)
         /\ ChunkEnd \in Nat
BY NewsAssumption DEF ChunkEnd

\* What Pass 1 names are pairs of its chunk.
LEMMA PairsOfChunk ==
  ASSUME NEW chunk, NEW ps \in Pairings(chunk)
  PROVE  ps \in Seq(chunk \X Watched)
<1>1. PICK n \in 0..MaxPairs : ps \in [1..n -> chunk \X Watched]
  BY DEF Pairings, BoundedSeq, SeqOf
<1>. QED BY <1>1, NewsAssumption

\* What is filed for an article of the sweep: an answer appended, or nothing.
LEMMA Filed ==
  ASSUME NewsTypeOK, NEW a, NEW named \in Named, NEW answer \in Answers, File(a, named, answer)
  PROVE  /\ [Next]_vars
         /\ others' \in {others, others \union {a}}
         /\ \/ about' = about /\ evidence' = evidence
            \/ /\ about' = Append(about, a)
               /\ \E x \in Answer : evidence' = Append(evidence, x)
<1>1. ASSUME RecordVerdict([answer EXCEPT !.body = a \in Bodied])
      PROVE  Next /\ \E x \in Answer : evidence' = Append(evidence, x)
  <2>1. PICK x : x = [answer EXCEPT !.body = a \in Bodied]
    OBVIOUS
  <2>2. x \in Answer
    <3>1. answer \in Answer /\ (a \in Bodied) \in BOOLEAN
      BY NewsAssumption
    <3>. QED BY <2>1, <3>1 DEF Answer
  <2>. QED BY <1>1, <2>1, <2>2 DEF Next, RecordVerdict
<1>2. UNCHANGED vars => evidence' = evidence
  BY DEF vars
<1>3. CASE named = "this"
  BY <1>1, <1>3 DEF File
<1>4. CASE named = "other"
  BY <1>2, <1>4 DEF File
<1>5. CASE named = "unknown"
  BY <1>5 DEF File, session, vars
<1>. QED BY <1>3, <1>4, <1>5 DEF Named, Watched

\* Before the first sweep nothing is listed, held or committed.
LEMMA NewsInitHolds == NewsInit => NewsInv
<1> SUFFICES ASSUME NewsInit PROVE NewsInv
  OBVIOUS
<1>1. /\ TypeOK /\ StateIsLastDecision /\ state = "unconfirmed" /\ evidence = <<>>
      /\ listed = [s \in Sources |-> {}] /\ since = 0
      /\ pc = "idle" /\ fresh = <<>> /\ shown = 0 /\ pairs = <<>>
      /\ about = <<>> /\ others = {} /\ faults = 0 /\ shuffled = {} /\ heldUp = {}
      /\ saved.state = state /\ saved.evidence = <<>> /\ saved.about = <<>> /\ saved.others = {}
  BY TrailInit DEF NewsInit, Init
<1>2. ProgressInv
  BY <1>1, FS_EmptySet, MaxTrailAssumption, NewsAssumption
     DEF ProgressInv, NewsTypeOK, IsInjective, TypeOK
<1>3. DecisionInv
  BY <1>1 DEF DecisionInv, DecidedBy
<1>4. QueueInv /\ TrailInv /\ ArrivalInv
  BY <1>1 DEF QueueInv, TrailInv, ArrivalInv, InOrder, ToSet, Kept, Window
<1>. QED BY <1>2, <1>3, <1>4 DEF NewsInv

-----------------------------------------------------------------------------
\* The types hold, and where the sweep is says what is in its hands
\* (scheduler_service.py:228-253).
LEMMA ProgressStep ==
  ASSUME ProgressInv, [NewsNext]_newsvars
  PROVE  ProgressInv'
<1>0. /\ NewsTypeOK /\ TypeOK /\ faults \in Nat /\ faults <= MaxFaults
      /\ fresh \in Seq(Articles) /\ shown \in 0..Len(fresh)
      /\ MaxFaults \in Nat
  BY NewsAssumption DEF ProgressInv, NewsTypeOK
<1>1. CASE UNCHANGED newsvars
  BY <1>1 DEF newsvars, vars, ProgressInv, NewsTypeOK, TypeOK
<1>2. ASSUME NEW s \in Sources, NEW a \in Articles, List(s, a) PROVE ProgressInv'
  <2>1. /\ listed' \in [Sources -> SUBSET Articles]
        /\ \A t \in Sources : IsFiniteSet(listed'[t])
    <3>1. listed' = [listed EXCEPT ![s] = @ \union {a}] /\ listed \in [Sources -> SUBSET Articles]
      BY <1>0, <1>2 DEF List, NewsTypeOK
    <3>2. IsFiniteSet(listed[s] \union {a})
      BY FS_AddElement DEF ProgressInv
    <3>. QED BY <3>1, <3>2 DEF ProgressInv
  <2>. QED
    BY <1>2, <2>1 DEF List, session, ProgressInv, NewsTypeOK, TypeOK
<1>3. CASE Age
  <2>1. since' \in Nat
    BY <1>0, <1>3 DEF Age, NewsTypeOK
  <2>. QED
    BY <1>3, <2>1 DEF Age, session, ProgressInv, NewsTypeOK, TypeOK
<1>4. ASSUME NEW answering \in SUBSET Sources, Fetch(answering) PROVE ProgressInv'
  <2>1. PICK S : S = Window(answering) \ Seen
    OBVIOUS
  <2>2. S \in SUBSET Articles /\ IsFiniteSet(S)
    <3>1. Window(answering) \subseteq Articles
      BY <1>0 DEF Window, NewsTypeOK
    <3>2. IsFiniteSet(Window(answering))
      BY WindowFinite DEF ProgressInv
    <3>3. S \in SUBSET Window(answering)
      BY <2>1
    <3>. QED BY <3>1, <3>2, <3>3, FS_Subset
  <2>3. fresh' \in ByPublication(S) /\ pc' = "pass1" /\ pc = "idle"
    BY <1>4, <2>1 DEF Fetch
  <2>4. fresh' \in Seq(Articles) /\ IsInjective(fresh')
    BY <2>2, <2>3, Enumerated
  <2>5. faults' \in 0..MaxFaults
    BY <1>0, <1>4 DEF Fetch, Fault
  <2>6. /\ shown' = 0 /\ pairs' = <<>> /\ UNCHANGED <<session, world, saved>>
        /\ about = saved.about
    BY <1>4, <2>3 DEF Fetch, ProgressInv
  <2>7. NewsTypeOK'
    BY <2>3, <2>4, <2>5, <2>6 DEF session, world, ProgressInv, NewsTypeOK, TypeOK
  <2>. QED
    BY <2>3, <2>6, <2>7 DEF session, world, ProgressInv
<1>5. CASE Pass1
  <2>1. PICK chunk : chunk = {fresh[i] : i \in DOMAIN fresh \intersect (shown + 1)..ChunkEnd}
    OBVIOUS
  <2>2. PICK ps \in Pairings(chunk) : pairs' = pairs \o ps
    BY <1>5, <2>1 DEF Pass1
  <2>3. ps \in Seq(chunk \X Watched)
    BY <2>2, PairsOfChunk
  <2>4. chunk \X Watched \subseteq ToSet(fresh) \X Watched
    BY <2>1 DEF ToSet
  <2>5. pairs' \in Seq(ToSet(fresh) \X Watched)
    BY <1>0, <2>2, <2>3, <2>4 DEF NewsTypeOK
  <2>6. /\ pc = "pass1" /\ shown' = ChunkEnd /\ UNCHANGED <<session, world, fresh, saved, faults>>
        /\ pc' = IF shown' < Len(fresh) THEN "pass1"
                 ELSE IF pairs' = <<>> THEN "commit" ELSE "pass2"
    BY <1>5 DEF Pass1
  <2>7. NewsTypeOK'
    BY <1>0, <2>5, <2>6, ChunkBounds DEF session, world, NewsTypeOK, TypeOK
  <2>. QED BY <2>6, <2>7 DEF session, world, ProgressInv
<1>6. CASE Pass2
  <2>1. /\ pc = "pass2" /\ pairs # <<>> /\ pairs' = Tail(pairs)
        /\ pc' = IF pairs' = <<>> THEN "commit" ELSE "pass2"
        /\ UNCHANGED <<world, fresh, shown, saved>>
    BY <1>6 DEF Pass2, ProgressInv
  <2>2. /\ pairs' \in Seq(ToSet(fresh) \X Watched)
        /\ Head(pairs) \in ToSet(fresh) \X Watched
    BY <1>0, <2>1 DEF NewsTypeOK
  <2>3. Head(pairs)[1] \in Articles
    BY <1>0, <2>2 DEF ToSet
  <2>4. ASSUME UNCHANGED session, Fault(1) PROVE NewsTypeOK'
    <3>1. faults' \in 0..MaxFaults
      BY <1>0, <2>4 DEF Fault
    <3>. QED
      BY <1>0, <2>1, <2>2, <2>4, <3>1 DEF session, world, NewsTypeOK, TypeOK
  <2>5. ASSUME NEW named \in Named, NEW answer \in Answers,
               Fault(IF named = Head(pairs)[2] THEN 0 ELSE 1),
               File(Head(pairs)[1], named, answer)
        PROVE  NewsTypeOK'
    <3>1. faults' \in 0..MaxFaults
      BY <1>0, <2>5 DEF Fault
    <3>2. TypeOK'
      BY <1>0, <2>5, Filed, TypeStep
    <3>3. /\ about' \in Seq(Articles) /\ Len(about') = Len(evidence')
          /\ others' \subseteq Articles
      <4>1. /\ others' \in {others, others \union {Head(pairs)[1]}}
            /\ \/ about' = about /\ evidence' = evidence
               \/ /\ about' = Append(about, Head(pairs)[1])
                  /\ \E x \in Answer : evidence' = Append(evidence, x)
        BY <1>0, <2>5, Filed
      <4>2. /\ about \in Seq(Articles) /\ evidence \in Seq(Answer)
            /\ Len(about) = Len(evidence) /\ others \subseteq Articles
        BY <1>0 DEF NewsTypeOK, TypeOK
      <4>3. Append(about, Head(pairs)[1]) \in Seq(Articles)
        BY <2>3, <4>2
      <4>4. ASSUME NEW x \in Answer
            PROVE  Len(Append(about, Head(pairs)[1])) = Len(Append(evidence, x))
        BY <4>2
      <4>. QED BY <2>3, <4>1, <4>2, <4>3, <4>4
    <3>. QED
      BY <1>0, <2>1, <2>2, <3>1, <3>2, <3>3 DEF world, NewsTypeOK
  <2>6. NewsTypeOK'
    BY <1>6, <2>4, <2>5 DEF Pass2
  <2>. QED BY <2>1, <2>6 DEF world, ProgressInv
<1>7. CASE Commit
  <2>1. /\ pc' = "idle" /\ fresh' = <<>> /\ shown' = 0 /\ shuffled' = {} /\ pairs = <<>>
        /\ saved'.state = state /\ saved'.evidence = evidence
        /\ saved'.about = about /\ saved'.others = others
        /\ UNCHANGED <<session, world, pairs, faults>>
    BY <1>7 DEF Commit, ProgressInv
  <2>2. NewsTypeOK'
    BY <1>0, <2>1 DEF session, world, NewsTypeOK, TypeOK, IsInjective
  <2>. QED
    BY <1>0, <2>1, <2>2 DEF session, world, ProgressInv, NewsTypeOK, TypeOK
<1>8. CASE Abort
  <2>1. /\ pc' = "idle" /\ fresh' = <<>> /\ shown' = 0 /\ shuffled' = {} /\ pairs' = <<>>
        /\ state' = saved.state /\ evidence' = saved.evidence
        /\ about' = saved.about /\ others' = saved.others
        /\ UNCHANGED <<world, saved>> /\ faults' \in 0..MaxFaults
    BY <1>0, <1>8 DEF Abort, Fault
  <2>2. NewsTypeOK'
    BY <1>0, <2>1 DEF world, ProgressInv, NewsTypeOK, TypeOK, IsInjective
  <2>. QED BY <2>1, <2>2 DEF world, ProgressInv
<1>. QED
  BY <1>1, <1>2, <1>3, <1>4, <1>5, <1>6, <1>7, <1>8 DEF NewsNext

\* Only a rollback takes the trail anywhere but one verdict further.
LEMMA DecisionInvStep ==
  ASSUME ProgressInv, DecisionInv, [NewsNext]_newsvars
  PROVE  DecisionInv'
<1>0. TypeOK
  BY DEF ProgressInv, NewsTypeOK
<1>1. ASSUME [Next]_vars, saved' = saved PROVE DecisionInv'
  BY <1>0, <1>1, DecisionStep DEF DecisionInv
<1>2. ASSUME UNCHANGED <<session, saved>> PROVE DecisionInv'
  BY <1>1, <1>2 DEF session, vars
<1>3. CASE \/ UNCHANGED newsvars \/ Age \/ Pass1
           \/ \E s \in Sources, a \in Articles : List(s, a)
           \/ \E answering \in SUBSET Sources : Fetch(answering)
  BY <1>2, <1>3 DEF newsvars, vars, session, List, Age, Fetch, Pass1
<1>4. CASE Pass2
  <2>1. UNCHANGED session \/ [Next]_vars
    BY <1>4, Filed DEF Pass2, ProgressInv
  <2>2. saved' = saved
    BY <1>4 DEF Pass2
  <2>. QED BY <1>1, <1>2, <2>1, <2>2
<1>5. CASE Commit
  <2>1. /\ saved'.state = state /\ saved'.evidence = evidence
        /\ UNCHANGED vars
    BY <1>5 DEF Commit, session, vars
  <2>2. StateIsLastDecision'
    BY <1>0, <2>1, DecisionStep DEF DecisionInv
  <2>3. DecidedBy(state, evidence)
    BY DEF DecisionInv, DecidedBy, StateIsLastDecision, LastDecisive
  <2>4. DecidedBy(saved'.state, saved'.evidence)
    BY <2>1, <2>3
  <2>. QED BY <2>2, <2>4 DEF DecisionInv
<1>6. CASE Abort
  <2>1. state' = saved.state /\ evidence' = saved.evidence /\ saved' = saved
    BY <1>6 DEF Abort
  <2>2. DecidedBy(saved.state, saved.evidence)
    BY DEF DecisionInv
  <2>. QED BY <2>1, <2>2 DEF DecisionInv, DecidedBy, StateIsLastDecision, LastDecisive
<1>. QED
  BY <1>3, <1>4, <1>5, <1>6 DEF NewsNext

-----------------------------------------------------------------------------
\* The pairs come oldest first but for those that Pass 1 named late
\* (llm.py:150-156).
LEMMA QueueStep ==
  ASSUME ProgressInv, ProgressInv', QueueInv, [NewsNext]_newsvars
  PROVE  QueueInv'
<1>0. /\ NewsTypeOK /\ fresh \in Seq(Articles) /\ shown \in 0..Len(fresh)
      /\ pairs \in Seq(ToSet(fresh) \X Watched)
      /\ about \in Seq(Articles)
      /\ saved.about \in Seq(Articles)
  BY DEF ProgressInv, NewsTypeOK
<1>1. ASSUME UNCHANGED <<fresh, pc, shown, pairs, shuffled, about, saved>> PROVE QueueInv'
  BY <1>1 DEF QueueInv
<1>2. CASE UNCHANGED newsvars \/ Age \/ \E s \in Sources, a \in Articles : List(s, a)
  BY <1>1, <1>2 DEF newsvars, session, Age, List
<1>3. ASSUME NEW answering \in SUBSET Sources, Fetch(answering) PROVE QueueInv'
  <2>1. pc' = "pass1" /\ pairs' = <<>>
    BY <1>3 DEF Fetch, ProgressInv
  <2>2. \A i, j \in DOMAIN fresh' : i < j => fresh'[i] < fresh'[j]
    BY <1>3 DEF Fetch, ByPublication
  <2>. QED BY <2>1, <2>2 DEF QueueInv
<1>4. CASE Pass1
  <2>0. \A i \in DOMAIN fresh : fresh[i] \in Nat
    <3>1. \A i \in DOMAIN fresh : fresh[i] \in Articles
      BY <1>0
    <3>. QED BY <3>1, NewsAssumption
  <2>1. PICK chunk : chunk = {fresh[i] : i \in DOMAIN fresh \intersect (shown + 1)..ChunkEnd}
    OBVIOUS
  <2>2. PICK ps \in Pairings(chunk) :
          /\ pairs' = pairs \o ps
          /\ shuffled' = shuffled \union
               {ps[j][1] : j \in {j \in DOMAIN ps : \E i \in DOMAIN ps : i < j /\ ps[i][1] > ps[j][1]}}
    BY <1>4, <2>1 DEF Pass1
  <2>3. ps \in Seq(chunk \X Watched)
    BY <2>2, PairsOfChunk
  <2>4. /\ pc = "pass1" /\ shown' = ChunkEnd /\ fresh' = fresh
        /\ about' = about /\ saved' = saved /\ about = saved.about
    BY <1>4 DEF Pass1, session, ProgressInv
  <2>5. ChunkEnd \in shown..Len(fresh) /\ ChunkEnd \in Nat /\ shown \in Nat
    BY <1>0, ChunkBounds
  \* Where the pairs, the old and the new ones, come from.
  <2>6. /\ DOMAIN pairs' = 1..(Len(pairs) + Len(ps))
        /\ Len(pairs) \in Nat /\ Len(ps) \in Nat /\ DOMAIN ps = 1..Len(ps)
        /\ DOMAIN pairs = 1..Len(pairs)
        /\ \A k \in 1..Len(pairs) : pairs'[k] = pairs[k]
        /\ \A k \in 1..(Len(pairs) + Len(ps)) :
             k > Len(pairs) => k - Len(pairs) \in 1..Len(ps) /\ pairs'[k] = ps[k - Len(pairs)]
    BY <1>0, <2>2, <2>3
  <2>7. \A k \in 1..Len(pairs) : \E i \in 1..shown : pairs[k][1] = fresh[i]
    BY <2>4, <2>6 DEF QueueInv
  <2>8. \A k \in 1..Len(ps) : \E i \in (shown + 1)..ChunkEnd : ps[k][1] = fresh[i]
    <3>1. \A k \in 1..Len(ps) : ps[k] \in chunk \X Watched
      BY <2>3
    <3>2. \A k \in 1..Len(ps) : ps[k][1] \in chunk
      BY <3>1
    <3>. QED BY <2>1, <3>2
  <2>9. ASSUME NEW k \in DOMAIN pairs' PROVE \E i \in 1..ChunkEnd : pairs'[k][1] = fresh[i]
    <3>1. CASE k \in 1..Len(pairs)
      <4>1. PICK i \in 1..shown : pairs[k][1] = fresh[i]
        BY <2>7, <3>1
      <4>. QED BY <2>5, <2>6, <3>1, <4>1
    <3>2. CASE k > Len(pairs)
      <4>1. PICK i \in (shown + 1)..ChunkEnd : ps[k - Len(pairs)][1] = fresh[i]
        BY <2>6, <2>8, <2>9, <3>2
      <4>. QED BY <2>5, <2>6, <2>9, <3>2, <4>1
    <3>. QED BY <2>6, <2>9, <3>1, <3>2
  <2>10. ASSUME NEW j \in DOMAIN pairs', NEW k \in DOMAIN pairs', j < k,
                pairs'[k][1] < pairs'[j][1]
         PROVE  pairs'[k][1] \in shuffled'
    <3>1. CASE k \in 1..Len(pairs)
      <4>1. j \in 1..Len(pairs)
        BY <2>6, <2>10, <3>1
      <4>2. pairs[k][1] \in shuffled
        BY <2>6, <2>10, <3>1, <4>1 DEF QueueInv
      <4>. QED BY <2>2, <2>6, <3>1, <4>2
    \* A chunk's articles are newer than those of the chunks before it.
    <3>2. CASE j \in 1..Len(pairs) /\ k > Len(pairs)
      <4>1. PICK a \in 1..shown : pairs'[j][1] = fresh[a]
        BY <2>6, <2>7, <3>2
      <4>2. PICK b \in (shown + 1)..ChunkEnd : pairs'[k][1] = fresh[b]
        BY <2>6, <2>8, <2>10, <3>2
      <4>3. a \in DOMAIN fresh /\ b \in DOMAIN fresh /\ a < b
        BY <1>0, <2>5, <4>1, <4>2
      <4>4. fresh[a] \in Nat /\ fresh[b] \in Nat /\ fresh[a] < fresh[b]
        BY <2>0, <4>3 DEF QueueInv
      <4>. QED BY <2>10, <4>1, <4>2, <4>4
    <3>3. CASE j > Len(pairs)
      <4>1. PICK m \in 1..Len(ps) : m = j - Len(pairs)
        BY <2>6, <2>10, <3>3
      <4>2. PICK n \in 1..Len(ps) : n = k - Len(pairs)
        BY <2>6, <2>10, <3>3
      <4>3. m < n /\ pairs'[j] = ps[m] /\ pairs'[k] = ps[n]
        <5>1. k \in 1..(Len(pairs) + Len(ps)) /\ j \in 1..(Len(pairs) + Len(ps)) /\ k > Len(pairs)
          BY <2>6, <2>10, <3>3
        <5>. QED BY <2>6, <2>10, <3>3, <4>1, <4>2, <5>1
      <4>4. ps[m][1] \in Nat /\ ps[n][1] \in Nat
        <5>1. \A i \in 1..ChunkEnd : fresh[i] \in Nat
          BY <1>0, <2>0, <2>5
        <5>. QED BY <2>9, <2>10, <4>3, <5>1
      <4>5. ps[m][1] > ps[n][1]
        BY <2>10, <4>3, <4>4
      <4>. QED BY <2>2, <2>6, <4>3, <4>5
    <3>. QED BY <2>6, <2>10, <3>1, <3>2, <3>3
  <2>11. ~(\E i \in DOMAIN about' : i > Len(saved'.about))
    BY <1>0, <2>4
  <2>12. \A i, j \in DOMAIN fresh' : i < j => fresh'[i] < fresh'[j]
    BY <2>4 DEF QueueInv
  <2>. QED BY <2>4, <2>9, <2>10, <2>11, <2>12 DEF QueueInv
<1>5. CASE Pass2
  <2>1. /\ pc = "pass2" /\ pairs # <<>> /\ pairs' = Tail(pairs) /\ pc' # "pass1"
        /\ UNCHANGED <<fresh, saved, shuffled>>
    BY <1>5 DEF Pass2, ProgressInv
  <2>2. /\ Len(pairs) \in Nat \ {0} /\ DOMAIN pairs = 1..Len(pairs)
        /\ DOMAIN pairs' = 1..(Len(pairs) - 1)
        /\ \A k \in DOMAIN pairs' : k + 1 \in DOMAIN pairs /\ k \in Nat /\ pairs'[k] = pairs[k + 1]
        /\ Head(pairs) = pairs[1] /\ 1 \in DOMAIN pairs
    BY <1>0, <2>1
  <2>3. about' = about \/ about' = Append(about, pairs[1][1])
    BY <1>0, <1>5, <2>2, Filed DEF Pass2, session
  <2>4. \A j, k \in DOMAIN pairs' :
          j < k /\ pairs'[k][1] < pairs'[j][1] => pairs'[k][1] \in shuffled
    BY <2>2 DEF QueueInv
  <2>5. ASSUME NEW i \in DOMAIN about', NEW k \in DOMAIN pairs',
               i > Len(saved.about), pairs'[k][1] < about'[i]
        PROVE  pairs'[k][1] \in shuffled
    <3>1. CASE i \in DOMAIN about /\ about'[i] = about[i]
      BY <2>2, <2>5, <3>1 DEF QueueInv
    <3>2. CASE about'[i] = pairs[1][1]
      BY <2>2, <2>5, <3>2 DEF QueueInv
    <3>3. CASE about' = Append(about, pairs[1][1])
      <4>1. i \in 1..(Len(about) + 1) /\ Len(about) \in Nat
        BY <1>0, <2>5, <3>3
      <4>2. i \in 1..Len(about) => i \in DOMAIN about /\ about'[i] = about[i]
        BY <1>0, <3>3
      <4>3. i = Len(about) + 1 => about'[i] = pairs[1][1]
        BY <1>0, <3>3
      <4>. QED BY <3>1, <3>2, <4>1, <4>2, <4>3
    <3>. QED BY <2>3, <2>5, <3>1, <3>3
  <2>. QED BY <2>1, <2>4, <2>5 DEF QueueInv
<1>6. CASE Commit \/ Abort
  <2>1. pc' = "idle" /\ fresh' = <<>> /\ pairs' = <<>>
    BY <1>6 DEF Commit, Abort, ProgressInv
  <2>. QED BY <2>1 DEF QueueInv
<1>. QED
  BY <1>2, <1>3, <1>4, <1>5, <1>6 DEF NewsNext

-----------------------------------------------------------------------------
\* An article recorded behind a newer one has its reason
\* (news.py:105-109, scheduler_service.py:234-253).
LEMMA TrailStep ==
  ASSUME ProgressInv, QueueInv, TrailInv, ArrivalInv, [NewsNext]_newsvars
  PROVE  TrailInv'
<1>0. /\ NewsTypeOK /\ fresh \in Seq(Articles)
      /\ pairs \in Seq(ToSet(fresh) \X Watched)
      /\ about \in Seq(Articles) /\ saved.about \in Seq(Articles)
  BY DEF ProgressInv, NewsTypeOK
\* The trail stays, and so does every reason.
<1>1. ASSUME UNCHANGED <<about, others, saved, fresh>>, heldUp \subseteq heldUp',
             heldUp \union shuffled \subseteq heldUp' \union shuffled'
      PROVE  TrailInv'
  BY <1>1 DEF TrailInv, InOrder
<1>2. CASE \/ UNCHANGED newsvars \/ Age \/ Pass1
           \/ \E s \in Sources, a \in Articles : List(s, a)
  BY <1>1, <1>2 DEF newsvars, session, Age, List, Pass1
<1>3. ASSUME NEW answering \in SUBSET Sources, Fetch(answering) PROVE TrailInv'
  <2>1. /\ UNCHANGED <<about, others, saved, shuffled>> /\ heldUp \subseteq heldUp'
        /\ about = saved.about
    BY <1>3 DEF Fetch, session, ProgressInv
  <2>2. ~(\E i \in DOMAIN about : i > Len(saved.about))
    BY <1>0, <2>1
  <2>. QED BY <2>1, <2>2 DEF TrailInv, InOrder
<1>4. CASE Pass2
  <2>1. PICK a : a = Head(pairs)[1]
    OBVIOUS
  <2>2. /\ pairs # <<>> /\ UNCHANGED <<saved, fresh, heldUp, shuffled>>
    BY <1>4 DEF Pass2, ProgressInv
  <2>3. /\ 1 \in DOMAIN pairs /\ pairs[1][1] = a /\ a \in ToSet(fresh)
    BY <1>0, <2>1, <2>2
  <2>4. /\ others \subseteq others'
        /\ about' = about \/ about' = Append(about, a)
    BY <1>0, <1>4, <2>1, Filed DEF Pass2, session
  <2>5. CASE about' = about
    BY <1>0, <2>2, <2>4, <2>5 DEF TrailInv
  <2>6. CASE about' = Append(about, a)
    <3>1. PICK n \in Nat : n = Len(about)
      BY <1>0
    <3>2. /\ DOMAIN about = 1..n /\ DOMAIN about' = 1..(n + 1)
          /\ about'[n + 1] = a /\ \A i \in 1..n : about'[i] = about[i]
      BY <1>0, <2>6, <3>1
    \* The new entry behind a newer one of this sweep, or of an earlier sweep.
    <3>3. ASSUME NEW i \in 1..n, a < about[i] PROVE a \in heldUp \union shuffled
      <4>1. CASE i > Len(saved.about)
        BY <2>3, <3>2, <3>3, <4>1 DEF QueueInv
      <4>2. CASE ~(i > Len(saved.about))
        <5>1. i \in DOMAIN saved.about
          BY <1>0, <4>2
        <5>2. about[i] \in ToSet(saved.about)
          BY <5>1 DEF TrailInv, ToSet
        <5>3. a \in Window(Sources) \ Kept
          BY <2>3 DEF ArrivalInv
        <5>. QED BY <3>3, <5>2, <5>3 DEF ArrivalInv
      <4>. QED BY <4>1, <4>2
    <3>4. InOrder(about', heldUp \union shuffled)
      <4> SUFFICES ASSUME NEW i \in 1..(n + 1), NEW j \in 1..(n + 1),
                          i < j, about'[j] < about'[i]
                   PROVE  about'[j] \in heldUp \union shuffled
        BY <3>2 DEF InOrder
      <4>1. i \in 1..n /\ about'[i] = about[i]
        BY <3>1, <3>2
      <4>2. CASE j = n + 1
        BY <3>2, <3>3, <4>1, <4>2
      <4>3. CASE j \in 1..n
        BY <3>2, <4>1, <4>3 DEF TrailInv, InOrder
      <4>. QED BY <3>1, <4>2, <4>3
    <3>5. \A i \in DOMAIN saved.about : i \in DOMAIN about' /\ about'[i] = saved.about[i]
      BY <3>1, <3>2 DEF TrailInv
    <3>6. \A i \in DOMAIN about' : i > Len(saved.about) => about'[i] \in ToSet(fresh)
      <4>1. ASSUME NEW i \in 1..n, i > Len(saved.about) PROVE about'[i] \in ToSet(fresh)
        BY <3>2, <4>1 DEF TrailInv
      <4>. QED BY <2>3, <3>1, <3>2, <4>1
    <3>. QED BY <2>2, <2>4, <3>4, <3>5, <3>6 DEF TrailInv
  <2>. QED BY <2>4, <2>5, <2>6
<1>5. CASE Commit
  <2>1. /\ saved'.about = about /\ saved'.others = others /\ UNCHANGED <<about, others>>
        /\ heldUp \union shuffled \subseteq heldUp'
    BY <1>5 DEF Commit, session
  <2>2. ~(\E i \in DOMAIN about : i > Len(about))
    BY <1>0
  <2>. QED BY <2>1, <2>2 DEF TrailInv, InOrder
<1>6. CASE Abort
  <2>1. /\ about' = saved.about /\ others' = saved.others /\ UNCHANGED <<saved, heldUp>>
    BY <1>6 DEF Abort
  <2>2. ~(\E i \in DOMAIN saved.about : i > Len(saved.about))
    BY <1>0
  <2>. QED BY <2>1, <2>2 DEF TrailInv, InOrder
<1>. QED
  BY <1>2, <1>3, <1>4, <1>5, <1>6 DEF NewsNext

\* Every article the sources list is fetched, already kept, or held up by the
\* time a newer one is judged (news.py:95-109, scheduler_service.py:234-238).
LEMMA ArrivalStep ==
  ASSUME ProgressInv, TrailInv, ArrivalInv, [NewsNext]_newsvars
  PROVE  ArrivalInv'
<1>0. /\ NewsTypeOK /\ fresh \in Seq(Articles)
      /\ about \in Seq(Articles) /\ saved.about \in Seq(Articles)
      /\ listed \in [Sources -> SUBSET Articles]
      /\ DOMAIN about = 1..Len(about) /\ DOMAIN saved.about = 1..Len(saved.about)
  BY DEF ProgressInv, NewsTypeOK
<1>1. ASSUME UNCHANGED <<world, fresh, saved>>, heldUp' = heldUp, pc # "idle" \/ pc' = "idle"
      PROVE  ArrivalInv'
  BY <1>1 DEF ArrivalInv, world, Window, Kept
<1>2. CASE UNCHANGED newsvars \/ Pass1 \/ Pass2
  BY <1>1, <1>2 DEF newsvars, world, session, Pass1, Pass2
<1>3. ASSUME NEW s \in Sources, NEW a \in Articles, List(s, a) PROVE ArrivalInv'
  <2>1. /\ pc' = "idle" /\ fresh' = <<>> /\ UNCHANGED <<since, saved>>
        /\ listed' = [listed EXCEPT ![s] = @ \union {a}]
        /\ heldUp' = IF \E t \in Sources, b \in Articles : b > a /\ b \in listed[t]
                     THEN heldUp \union {a} ELSE heldUp
    BY <1>3 DEF List, ProgressInv
  <2>2. /\ Window(Sources)' \subseteq Window(Sources) \union {a}
        /\ UNION {listed[t] : t \in Sources} \subseteq UNION {listed'[t] : t \in Sources}
    BY <1>0, <2>1 DEF Window
  <2>3. Kept' = Kept /\ saved' = saved /\ heldUp \subseteq heldUp' /\ ToSet(fresh') = {}
    BY <2>1 DEF Kept, ToSet
  <2>4. ASSUME NEW b \in ToSet(saved.about), a < b PROVE a \in heldUp'
    <3>1. PICK t \in Sources : b \in listed[t]
      BY DEF ArrivalInv
    <3>2. b \in Articles /\ a \in Nat /\ b \in Nat
      BY <1>0, <3>1, NewsAssumption
    <3>3. b > a
      BY <2>4, <3>2
    <3>. QED BY <2>1, <3>1, <3>2, <3>3
  <2>5. \A b \in ToSet(saved.about), x \in Window(Sources)' : x < b => x \in Kept \union heldUp'
    BY <2>2, <2>3, <2>4 DEF ArrivalInv
  <2>. QED BY <2>1, <2>2, <2>3, <2>5 DEF ArrivalInv
<1>4. CASE Age
  <2>1. /\ pc' = "idle" /\ fresh' = <<>> /\ UNCHANGED <<listed, saved, heldUp>>
        /\ since' = since + 1 /\ since \in Nat
    BY <1>0, <1>4 DEF Age, ProgressInv, NewsTypeOK
  <2>2. Window(Sources)' \subseteq Window(Sources) /\ Kept' = Kept /\ ToSet(fresh') = {}
    <3>1. \A x \in Articles : x \in Nat
      BY NewsAssumption
    <3>2. \A x \in UNION {listed[t] : t \in Sources} : x \in Nat
      <4>1. UNION {listed[t] : t \in Sources} \subseteq Articles
        BY <1>0
      <4>. QED BY <3>1, <4>1
    <3>3. \A x \in Nat : x >= since + 1 => x >= since
      BY <2>1
    <3>4. Window(Sources)' \subseteq Window(Sources)
      <4>1. PICK L : L = UNION {listed[t] : t \in Sources}
        OBVIOUS
      <4>2. Window(Sources) = {x \in L : x >= since} /\ Window(Sources)' = {x \in L : x >= since'}
        BY <2>1, <4>1 DEF Window
      <4>. QED BY <2>1, <3>2, <3>3, <4>1, <4>2
    <3>. QED BY <2>1, <3>4 DEF Kept, ToSet
  <2>. QED BY <2>1, <2>2 DEF ArrivalInv
<1>5. ASSUME NEW answering \in SUBSET Sources, Fetch(answering) PROVE ArrivalInv'
  <2>1. PICK S : S = Window(answering) \ Seen
    OBVIOUS
  <2>2. /\ fresh' \in ByPublication(S) /\ UNCHANGED <<world, saved>>
        /\ heldUp' = heldUp \union (Window(Sources) \ Window(answering))
        /\ about = saved.about /\ others = saved.others
    BY <1>5, <2>1 DEF Fetch, ProgressInv
  <2>3. ToSet(fresh') = S
    BY <2>2 DEF ByPublication, Enumerations
  <2>4. Window(Sources)' = Window(Sources) /\ Kept' = Kept /\ Seen = Kept
    BY <2>2 DEF world, Window, Kept, Seen
  <2>5. Window(answering) \subseteq Window(Sources)
    BY DEF Window
  <2>6. ToSet(saved'.about) \subseteq UNION {listed'[s] : s \in Sources}
    BY <2>2 DEF ArrivalInv, world
  <2>7. \A b \in ToSet(saved'.about), x \in Window(Sources)' : x < b => x \in Kept' \union heldUp'
    BY <2>2, <2>4 DEF ArrivalInv
  <2>. QED BY <2>1, <2>2, <2>3, <2>4, <2>5, <2>6, <2>7 DEF ArrivalInv
<1>6. CASE Commit
  <2>1. /\ pc # "idle" /\ pc' = "idle" /\ fresh' = <<>> /\ UNCHANGED world
        /\ saved'.about = about /\ saved'.others = others
        /\ heldUp' = heldUp \union shuffled \union (ToSet(fresh) \ ToSet(about))
    BY <1>6 DEF Commit
  <2>2. Window(Sources)' = Window(Sources) /\ Kept' = ToSet(about) \union others
    BY <2>1 DEF world, Window, Kept
  <2>3. ToSet(about) \subseteq ToSet(saved.about) \union ToSet(fresh)
    <3> SUFFICES ASSUME NEW i \in DOMAIN about
                 PROVE  about[i] \in ToSet(saved.about) \union ToSet(fresh)
      BY DEF ToSet
    <3>1. CASE i \in DOMAIN saved.about
      BY <3>1 DEF TrailInv, ToSet
    <3>2. CASE i \notin DOMAIN saved.about
      BY <1>0, <3>2 DEF TrailInv
    <3>. QED BY <3>1, <3>2
  <2>4. Kept \subseteq Kept'
    <3>1. ToSet(saved.about) \subseteq ToSet(about)
      BY DEF TrailInv, ToSet
    <3>. QED BY <2>2, <3>1 DEF Kept, TrailInv
  <2>5. Window(Sources) \subseteq Kept' \union heldUp'
    BY <2>1, <2>2, <2>4 DEF ArrivalInv
  <2>6. ToSet(about) \subseteq UNION {listed[s] : s \in Sources}
    <3>1. Window(Sources) \subseteq UNION {listed[s] : s \in Sources}
      BY DEF Window
    <3>. QED BY <2>3, <3>1 DEF ArrivalInv
  <2>7. ToSet(fresh') = {}
    BY <2>1 DEF ToSet
  <2>. QED BY <2>1, <2>2, <2>5, <2>6, <2>7 DEF ArrivalInv, world
<1>7. CASE Abort
  <2>1. /\ pc' = "idle" /\ fresh' = <<>> /\ UNCHANGED <<world, saved, heldUp>>
    BY <1>7 DEF Abort
  <2>2. Window(Sources)' = Window(Sources) /\ Kept' = Kept /\ ToSet(fresh') = {}
    BY <2>1 DEF world, Window, Kept, ToSet
  <2>. QED BY <2>1, <2>2 DEF ArrivalInv, world
<1>. QED
  BY <1>2, <1>3, <1>4, <1>5, <1>6, <1>7 DEF NewsNext

-----------------------------------------------------------------------------
\* The five parts together.
LEMMA NewsStep ==
  ASSUME NewsInv, [NewsNext]_newsvars
  PROVE  NewsInv'
BY ProgressStep, DecisionInvStep, QueueStep, TrailStep, ArrivalStep DEF NewsInv

\* NewsInv holds throughout the life of the news.
LEMMA NewsInvHolds == NewsSpec => []NewsInv
BY NewsInitHolds, NewsStep, PTL DEF NewsSpec

\* The newest deciding article decided last, or some older one came after it.
LEMMA LatestFollows == NewsInv => LatestArticleDecides
<1> SUFFICES ASSUME NewsInv, NEW i \in DOMAIN evidence, Newest(i)
             PROVE  \/ state = evidence[i].proposed
                    \/ \E j \in DOMAIN evidence :
                         /\ j > i /\ Decides(evidence[j])
                         /\ about[j] \in heldUp \union shuffled
  BY DEF LatestArticleDecides
<1>1. /\ DOMAIN evidence = 1..Len(evidence) /\ DOMAIN about = DOMAIN evidence
      /\ Len(evidence) \in Nat
  BY DEF NewsInv, ProgressInv, NewsTypeOK, TypeOK
<1>2. CASE LastDecisive(i)
  BY <1>2 DEF NewsInv, DecisionInv, StateIsLastDecision
<1>3. ASSUME NEW j \in DOMAIN evidence, j > i, Decides(evidence[j])
      PROVE  about[j] \in heldUp \union shuffled
  <2>1. about[j] < about[i] /\ i < j
    BY <1>1, <1>3 DEF Newest
  <2>. QED BY <1>1, <1>3, <2>1 DEF NewsInv, TrailInv, InOrder
<1>. QED BY <1>2, <1>3 DEF LastDecisive, Newest

\* The session, the sweep's progress and what each holds stay in their types,
\* and the chunks of Pass 1 end where the fresh articles do
\* (llm.py:100-156, scheduler_service.py:228-253).
THEOREM NewsTypeCorrect == NewsSpec => []NewsTypeOK
<1>1. NewsInv => NewsTypeOK
  BY DEF NewsInv, ProgressInv
<1>. QED BY <1>1, NewsInvHolds, PTL

\* Whatever the sources, both passes and failing sweeps do, the state in the
\* session is what its last deciding entry said, rollbacks included
\* (llm.py:189-212, catalysts.py:80-125, scheduler_service.py:244-253).
THEOREM NewsDecides == NewsSpec => []StateIsLastDecision
<1>1. NewsInv => StateIsLastDecision
  BY DEF NewsInv, DecisionInv
<1>. QED BY <1>1, NewsInvHolds, PTL

\* The newest deciding article decides the catalyst unless an older one came
\* after it for one of the reasons LatestArticleDecides names: for any number
\* of sources, articles and sweeps there is no other (news.py:105-109).
THEOREM LatestDecides == NewsSpec => []LatestArticleDecides
BY LatestFollows, NewsInvHolds, PTL
=============================================================================
