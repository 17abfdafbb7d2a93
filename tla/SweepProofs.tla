---------------------------- MODULE SweepProofs ----------------------------
(***************************************************************************)
(* Proofs about Sweep: for any rows, articles, verdicts, chats and bounds. *)
(***************************************************************************)
EXTENDS Sweep, TLAPS

\* Every evaluation gives one of the three statuses.
LEMMA EvaluateInStatus ==
  ASSUME NEW qm, NEW rs, NEW cm, NEW ss
  PROVE  Evaluate(qm, rs, cm, ss) \in EvalStatus
BY DEF Evaluate, EvalStatus

\* Whatever the verdict, a catalyst's next state is of the vocabulary.
LEMMA ApplyInState ==
  ASSUME NEW state \in CatalystState, NEW v \in Verdicts
  PROVE  Apply(state, v) \in CatalystState
BY VerdictsAssumption
   DEF Apply, Effective, Credible, CatalystState, Verdict, CatalystProposal

\* What stands for a sweep that has loaded nothing is of its types.
LEMMA BlanksTyped ==
  /\ NoSnapshot \in Snapshot
  /\ NoSession \in Session
  /\ NoOutcome \in Outcome
BY DEF NoSnapshot, Snapshot, NoThesis, Thesis, QuantMode, CatalystMode, NoSession,
       Session, CatalystState, NoOutcome, Outcome, EvalStatus

-----------------------------------------------------------------------------
(***************************************************************************)
(* Type correctness                                                        *)
(***************************************************************************)
LEMMA InitTyped == Init => TypeOK
<1> SUFFICES ASSUME Init PROVE TypeOK
  OBVIOUS
<1>1. thesis \in Thesis
  BY CreatedAssumption DEF Init, Thesis
<1>2. cats \in [Catalysts -> Row]
  BY DEF Init, Row, CatalystState
<1>. QED
  BY <1>1, <1>2, BlanksTyped, BoundsAssumption DEF Init, TypeOK, SweepId

\* A session that ends leaves the sweeps' part of the state in its types.
LEMMA FinishTyped ==
  ASSUME TypeOK, NEW s \in SweepId, NEW how \in Finished, Finish(s, how)
  PROVE  /\ loop' \in {"idle", "listed", "sweeping"}
         /\ pc' \in [SweepId -> {"waiting"} \union Running \union Finished]
         /\ snap' \in [SweepId -> Snapshot]
         /\ tx' \in [SweepId -> Session]
         /\ fresh' \in [SweepId -> SUBSET Articles]
         /\ left' \in [SweepId -> 0..MaxVerdicts]
         /\ outcome' \in [SweepId -> Outcome]
BY BlanksTyped, BoundsAssumption DEF Finish, TypeOK

\* A step of a sweep keeps the types.
LEMMA SchedulerTyped ==
  ASSUME TypeOK, NEW s \in SweepId, Scheduler(s)
  PROVE  TypeOK'
<1> USE BoundsAssumption
<1>1. ASSUME NEW source \in {"loop", "task"}, Begin(s, source),
             loop' \in {"idle", "listed", "sweeping"}
      PROVE  TypeOK'
  <2>1. [source |-> source, thesis |-> thesis, quants |-> quants, chat |-> chat,
         enabled |-> {c \in Catalysts : cats[c].enabled}] \in Snapshot
    BY DEF TypeOK, Snapshot
  <2>2. [state |-> [c \in Catalysts |-> cats[c].state],
         evidence |-> [c \in Catalysts |-> cats[c].evidence],
         moved |-> {}, dirty |-> {}, held |-> {}] \in Session
    BY DEF TypeOK, Session, Row
  <2>3. pc' \in [SweepId -> {"waiting"} \union Running \union Finished]
    BY <1>1 DEF Begin, TypeOK, Running
  <2>4. begun' \in 0..MaxSweeps
    BY <1>1 DEF Begin, SweepId
  <2>. QED
    BY <1>1, <2>1, <2>2, <2>3, <2>4 DEF Begin, TypeOK, rows, record, owner
<1>2. CASE BeginLoop(s)
  BY <1>1, <1>2 DEF BeginLoop
<1>3. CASE BeginTask(s)
  BY <1>1, <1>3 DEF BeginTask, TypeOK
<1>4. CASE FetchNews(s)
  <2>1. PICK returned \in SUBSET Articles :
          /\ fresh' = [fresh EXCEPT ![s] = returned \ Seen(s)]
          /\ left' = [left EXCEPT ![s] = IF returned \ Seen(s) = {} THEN 0 ELSE MaxVerdicts]
          /\ pc' = [pc EXCEPT ![s] = IF returned \ Seen(s) = {} THEN "metrics" ELSE "verdicts"]
    BY <1>4 DEF FetchNews
  <2>2. fresh' \in [SweepId -> SUBSET Articles] /\ left' \in [SweepId -> 0..MaxVerdicts]
    BY <2>1 DEF TypeOK
  <2>3. pc' \in [SweepId -> {"waiting"} \union Running \union Finished]
    BY <2>1 DEF TypeOK, Running
  <2>. QED
    BY <1>4, <2>2, <2>3 DEF FetchNews, TypeOK, rows, record, owner
<1>5. ASSUME NEW c \in Catalysts, NEW a \in Articles, NEW v \in Verdicts, Judge(s, c, a, v)
      PROVE  TypeOK'
  <2> DEFINE state == Apply(tx[s].state[c], v)
             entry == [article |-> a, verdict |-> v, by |-> s]
  <2>1. tx[s] \in Session /\ state \in CatalystState /\ entry \in Entry
    BY ApplyInState DEF TypeOK, Session, Entry
  <2> HIDE DEF state, entry
  <2>2. tx' = [tx EXCEPT ![s] =
          [state    |-> [tx[s].state EXCEPT ![c] = state],
           evidence |-> [tx[s].evidence EXCEPT ![c] = @ \union {entry}],
           moved    |-> IF state # tx[s].state[c] THEN tx[s].moved \union {c} ELSE tx[s].moved,
           dirty    |-> {c},
           held     |-> tx[s].held]]
    BY <1>5 DEF Judge, state, entry
  <2>3. [tx[s].evidence EXCEPT ![c] = @ \union {entry}] \in [Catalysts -> SUBSET Entry]
    BY <2>1 DEF Session
  <2>4. tx' \in [SweepId -> Session]
    BY <2>1, <2>2, <2>3 DEF TypeOK, Session
  <2>5. left' \in [SweepId -> 0..MaxVerdicts]
    BY <1>5 DEF Judge, TypeOK
  <2>6. pc' \in [SweepId -> {"waiting"} \union Running \union Finished]
    BY <1>5 DEF Judge, TypeOK, Running
  <2>. QED
    BY <1>5, <2>4, <2>5, <2>6 DEF Judge, TypeOK, rows, record, owner
<1>6. CASE Flush(s)
  <2>1. tx' \in [SweepId -> Session]
    BY <1>6 DEF Flush, Flushed, TypeOK, Session
  <2>2. pc' \in [SweepId -> {"waiting"} \union Running \union Finished]
    BY <1>6 DEF Flush, TypeOK, Running
  <2>. QED
    BY <1>6, <2>1, <2>2 DEF Flush, TypeOK, rows, record, owner
<1>7. CASE EvaluateThesis(s)
  <2>1. PICK status \in EvalStatus, flipped \in BOOLEAN :
          /\ outcome' = [outcome EXCEPT ![s] =
               [status |-> status, flipped |-> flipped,
                saw |-> IF flipped THEN {e.id : e \in evals} ELSE {}]]
          /\ pc' = [pc EXCEPT ![s] = IF flipped THEN "notify" ELSE "commit"]
    BY <1>7, EvaluateInStatus DEF EvaluateThesis
  <2>2. {e.id : e \in evals} \subseteq SweepId
    BY DEF TypeOK
  <2>3. outcome' \in [SweepId -> Outcome]
    BY <2>1, <2>2 DEF TypeOK, Outcome
  <2>4. pc' \in [SweepId -> {"waiting"} \union Running \union Finished]
    BY <2>1 DEF TypeOK, Running
  <2>5. fresh' \in [SweepId -> SUBSET Articles] /\ left' \in [SweepId -> 0..MaxVerdicts]
    BY <1>7 DEF EvaluateThesis, TypeOK
  <2>. QED
    BY <1>7, <2>3, <2>4, <2>5 DEF EvaluateThesis, TypeOK, rows, record, owner
<1>8. CASE Notify(s)
  <2>1. pc' \in [SweepId -> {"waiting"} \union Running \union Finished]
    BY <1>8 DEF Notify, TypeOK, Running
  <2>. QED
    BY <1>8, <2>1 DEF Notify, TypeOK, rows, record, owner
<1>9. CASE Commit(s)
  <2>1. tx[s] \in Session
    BY DEF TypeOK
  <2>2. cats' \in [Catalysts -> Row]
    BY <1>9, <2>1 DEF Commit, TypeOK, Row, Session
  <2>3. evals' \in SUBSET [id : SweepId, outcome : Outcome]
    <3>1. outcome[s] \in Outcome /\ evals \in SUBSET [id : SweepId, outcome : Outcome]
      BY DEF TypeOK
    <3>2. evals' = evals \union {[id |-> s, outcome |-> outcome[s]]}
      BY <1>9 DEF Commit
    <3>. QED BY <3>1, <3>2
  <2>4. alerts' \in SUBSET SweepId
    BY <1>9 DEF Commit, TypeOK
  <2>5. Finish(s, "done")
    BY <1>9 DEF Commit
  <2>. QED
    BY <1>9, <2>2, <2>3, <2>4, <2>5, FinishTyped DEF Commit, TypeOK, Finished, owner
<1>10. ASSUME Finish(s, "aborted"), UNCHANGED <<rows, record, messages, begun, owner>>
       PROVE  TypeOK'
  BY <1>10, FinishTyped DEF TypeOK, Finished, rows, record, owner
<1>11. CASE Abort(s)
  BY <1>10, <1>11 DEF Abort
<1>12. CASE DeadlockVictim(s)
  BY <1>10, <1>12 DEF DeadlockVictim
<1>. QED
  BY <1>2, <1>3, <1>4, <1>5, <1>6, <1>7, <1>8, <1>9, <1>11, <1>12 DEF Scheduler

\* A request of the owner keeps the types.
LEMMA OwnerTyped == TypeOK /\ Owner => TypeOK'
<1> SUFFICES ASSUME TypeOK, Owner PROVE TypeOK'
  OBVIOUS
<1>1. ASSUME Request,
             thesis' \in Thesis, quants' \in SUBSET Quants, cats' \in [Catalysts -> Row],
             chat' \in Chats \union {NoChat}, handset' \in SUBSET Catalysts
      PROVE  TypeOK'
  <2>1. edits' \in 0..MaxEdits
    BY <1>1, BoundsAssumption DEF Request, TypeOK
  <2>. QED
    BY <1>1, <2>1 DEF Request, TypeOK, record
<1>2. ASSUME NEW c \in Catalysts, NEW enabled \in BOOLEAN, NEW state \in CatalystState,
             NEW evidence \in {cats[c].evidence, {}}, EditCatalyst(c, enabled, state, evidence)
      PROVE  TypeOK'
  <2>1. cats' \in [Catalysts -> Row] /\ handset' \in SUBSET Catalysts
    BY <1>2 DEF EditCatalyst, TypeOK, Row
  <2>. QED BY <1>1, <1>2, <2>1 DEF EditCatalyst, TypeOK
<1>3. ASSUME NEW q \in Quants, EditQuant(q) PROVE TypeOK'
  BY <1>1, <1>3 DEF EditQuant, TypeOK
<1>4. ASSUME NEW t \in Thesis, EditThesis(t) PROVE TypeOK'
  BY <1>1, <1>4 DEF EditThesis, TypeOK
<1>5. ASSUME DeleteThesis PROVE TypeOK'
  <2>1. cats' \in [Catalysts -> Row] /\ thesis' \in Thesis
    BY <1>5 DEF DeleteThesis, TypeOK, Row, Thesis
  <2>. QED BY <1>1, <1>5, <2>1 DEF DeleteThesis, TypeOK
<1>6. ASSUME NEW ch \in Chats \union {NoChat}, EditChat(ch) PROVE TypeOK'
  BY <1>1, <1>6 DEF EditChat, TypeOK
<1>. QED BY <1>2, <1>3, <1>4, <1>5, <1>6 DEF Owner

\* Every step keeps the types.
LEMMA StepTyped == TypeOK /\ [Next]_vars => TypeOK'
<1> SUFFICES ASSUME TypeOK, [Next]_vars PROVE TypeOK'
  OBVIOUS
<1>1. CASE List
  BY <1>1 DEF List, TypeOK, rows, record, owner
<1>2. CASE LoopStopped
  BY <1>2 DEF LoopStopped, TypeOK, rows, record, owner
<1>3. CASE UNCHANGED vars
  BY <1>3 DEF vars, TypeOK
<1>. QED
  BY <1>1, <1>2, <1>3, SchedulerTyped, OwnerTyped DEF Next

\* The rows, the sessions and the sweeps' progress stay in their types
\* (scheduler_service.py:188-403).
THEOREM TypeCorrect == Spec => []TypeOK
BY InitTyped, StepTyped, PTL DEF Spec

-----------------------------------------------------------------------------
(***************************************************************************)
(* No article is judged twice for a catalyst.  What a sweep holds in       *)
(* memory obeys the same rule as the rows, and the articles it still has   *)
(* classified are on no trail it holds except by its own verdicts.         *)
(***************************************************************************)
JudgedOnce(trail) == \A e, f \in trail : e.article = f.article => e.by = f.by

TrailsInv ==
  /\ \A c \in Catalysts : JudgedOnce(cats[c].evidence)
  /\ \A s \in SweepId, c \in Catalysts : JudgedOnce(tx[s].evidence[c])
  /\ \A s \in SweepId : pc[s] = "waiting" => fresh[s] = {}
  /\ \A s \in SweepId : \A c \in snap[s].enabled : \A e \in tx[s].evidence[c] :
       e.article \in fresh[s] => e.by = s

(***************************************************************************)
(* A sweep leaves rows only by committing.  What it holds in memory is     *)
(* either committed or its own.                                            *)
(***************************************************************************)
RowsInv ==
  /\ OnlyCommittedSweepsLeaveRows
  /\ \A s \in SweepId, c \in Catalysts : \A e \in tx[s].evidence[c] :
       e.by = s \/ pc[e.by] = "done"

\* What no request of the owner does: touch a sweep, a record, or add evidence.
LEMMA OwnerOnlyTrims ==
  ASSUME TypeOK, Owner
  PROVE  /\ UNCHANGED <<record, messages, pc, snap, tx, fresh, outcome>>
         /\ \A c \in Catalysts : cats'[c].evidence \subseteq cats[c].evidence
<1>1. ASSUME Request PROVE UNCHANGED <<record, messages, pc, snap, tx, fresh, outcome>>
  BY <1>1 DEF Request
<1>2. ASSUME NEW c \in Catalysts, NEW enabled \in BOOLEAN, NEW state \in CatalystState,
             NEW evidence \in {cats[c].evidence, {}}, EditCatalyst(c, enabled, state, evidence)
      PROVE  \A d \in Catalysts : cats'[d].evidence \subseteq cats[d].evidence
  BY <1>2 DEF EditCatalyst, TypeOK, Row
<1>3. DeleteThesis => \A d \in Catalysts : cats'[d].evidence \subseteq cats[d].evidence
  BY DEF DeleteThesis, TypeOK, Row
<1>4. ASSUME NEW q \in Quants, EditQuant(q) PROVE Request /\ cats' = cats
  BY <1>4 DEF EditQuant
<1>5. ASSUME NEW t \in Thesis, EditThesis(t) PROVE Request /\ cats' = cats
  BY <1>5 DEF EditThesis
<1>6. ASSUME NEW ch \in Chats \union {NoChat}, EditChat(ch) PROVE Request /\ cats' = cats
  BY <1>6 DEF EditChat
<1>. QED
  BY <1>1, <1>2, <1>3, <1>4, <1>5, <1>6 DEF Owner, EditCatalyst, DeleteThesis

\* There are no entries and no copies yet.
LEMMA TrailsInit == Init => TrailsInv
BY DEF Init, TrailsInv, JudgedOnce, NoSession, NoSnapshot

\* Whole trails replace whole trails, so no step brings a repeat.
LEMMA TrailsStep ==
  ASSUME TypeOK, TrailsInv, [Next]_vars
  PROVE  TrailsInv'
<1>0. /\ DOMAIN tx = SweepId /\ DOMAIN pc = SweepId /\ DOMAIN fresh = SweepId
      /\ pc = [t \in SweepId |-> pc[t]] /\ tx \in [SweepId -> Session]
      /\ fresh = [t \in SweepId |-> fresh[t]]
  BY DEF TypeOK
<1>1. CASE UNCHANGED <<cats, tx, snap, pc, fresh>>
  BY <1>1 DEF TrailsInv, JudgedOnce
<1>2. CASE List \/ LoopStopped
  BY <1>1, <1>2 DEF List, LoopStopped, rows
<1>3. CASE Owner
  BY <1>3, OwnerOnlyTrims DEF TrailsInv, JudgedOnce
<1>4. ASSUME NEW s \in SweepId, NEW source \in {"loop", "task"}, Begin(s, source)
      PROVE  TrailsInv'
  <2>1. /\ tx' = [tx EXCEPT ![s] = tx'[s]]
        /\ \A c \in Catalysts : tx'[s].evidence[c] = cats[c].evidence
        /\ pc' = [pc EXCEPT ![s] = pc'[s]] /\ pc[s] = "waiting"
        /\ snap' = [snap EXCEPT ![s] = snap'[s]]
        /\ fresh' = fresh /\ fresh[s] = {} /\ cats' = cats
    BY <1>4 DEF Begin, TypeOK, TrailsInv, rows
  <2>2. snap'[s].enabled \subseteq Catalysts
    BY <1>4 DEF Begin, TypeOK
  <2>3. \A c \in Catalysts : JudgedOnce(tx'[s].evidence[c])
    BY <2>1 DEF TrailsInv, JudgedOnce
  <2>4. \A c \in snap'[s].enabled : \A e \in tx'[s].evidence[c] :
          e.article \in fresh'[s] => e.by = s
    BY <2>1, <2>2
  <2>5. /\ \A t \in SweepId \ {s} : tx'[t] = tx[t] /\ snap'[t] = snap[t] /\ pc'[t] = pc[t]
        /\ fresh'[s] = {}
    BY <2>1 DEF TypeOK
  <2>. QED BY <2>1, <2>3, <2>4, <2>5 DEF TrailsInv
<1>5. ASSUME NEW s \in SweepId, FetchNews(s) PROVE TrailsInv'
  <2>1. PICK returned \in SUBSET Articles :
          /\ fresh' = [fresh EXCEPT ![s] = returned \ Seen(s)]
          /\ pc' = [pc EXCEPT ![s] = IF returned \ Seen(s) = {} THEN "metrics" ELSE "verdicts"]
    BY <1>5 DEF FetchNews
  <2>2. \A c \in snap[s].enabled : \A e \in tx[s].evidence[c] : e.article \in Seen(s)
    BY DEF Seen
  <2>. QED
    BY <1>5, <2>1, <2>2 DEF FetchNews, TrailsInv, TypeOK, JudgedOnce, rows
<1>6. ASSUME NEW s \in SweepId, NEW c \in Catalysts, NEW a \in Articles, NEW v \in Verdicts,
             Judge(s, c, a, v)
      PROVE  TrailsInv'
  <2> DEFINE entry == [article |-> a, verdict |-> v, by |-> s]
  <2>1. /\ tx' = [tx EXCEPT ![s] = tx'[s]]
        /\ tx'[s].evidence = [tx[s].evidence EXCEPT ![c] = @ \union {entry}]
    BY <1>6 DEF Judge, TypeOK
  <2>2. c \in snap[s].enabled /\ a \in fresh[s] /\ pc' = [pc EXCEPT ![s] = "flush"]
        /\ UNCHANGED <<cats, snap, fresh>>
    BY <1>6 DEF Judge, rows
  <2>3. \A d \in Catalysts : \A e \in tx'[s].evidence[d] :
          e \in tx[s].evidence[d] \/ (d = c /\ e = entry)
    BY <2>1 DEF TypeOK, Session
  <2>4. /\ \A e \in tx[s].evidence[c] : e.article = a => e.by = s
        /\ entry.article = a /\ entry.by = s
        /\ snap[s].enabled \subseteq Catalysts
    BY <2>2 DEF TrailsInv, TypeOK, Snapshot
  <2> HIDE DEF entry
  <2>5. \A d \in Catalysts : JudgedOnce(tx'[s].evidence[d])
    <3> SUFFICES ASSUME NEW d \in Catalysts, NEW e \in tx'[s].evidence[d],
                        NEW f \in tx'[s].evidence[d], e.article = f.article
                 PROVE  e.by = f.by
      BY DEF JudgedOnce
    <3>1. CASE e \in tx[s].evidence[d] /\ f \in tx[s].evidence[d]
      BY <3>1 DEF TrailsInv, JudgedOnce
    <3>. QED BY <2>3, <2>4, <3>1
  <2>6. \A d \in snap[s].enabled : \A e \in tx'[s].evidence[d] :
          e.article \in fresh[s] => e.by = s
    BY <2>3, <2>4 DEF TrailsInv
  <2>7. /\ \A t \in SweepId \ {s} : tx'[t] = tx[t]
        /\ \A t \in SweepId : pc'[t] = "waiting" => pc[t] = "waiting"
    BY <2>1, <2>2, <1>0
  <2>. QED
    BY <2>2, <2>5, <2>6, <2>7 DEF TrailsInv
<1>7. ASSUME NEW s \in SweepId, Flush(s) PROVE TrailsInv'
  <2>1. /\ tx' = Flushed(s)
        /\ pc' = [pc EXCEPT ![s] = "verdicts"] /\ UNCHANGED <<cats, snap, fresh>>
    BY <1>7 DEF Flush, rows
  <2>2. \A t \in SweepId : tx'[t].evidence = tx[t].evidence
    BY <2>1, <1>0 DEF Flushed
  <2>3. \A t \in SweepId : pc'[t] = "waiting" => pc[t] = "waiting"
    BY <2>1, <1>0
  <2>. QED BY <2>1, <2>2, <2>3 DEF TrailsInv
<1>8. ASSUME NEW s \in SweepId, EvaluateThesis(s) PROVE TrailsInv'
  <2>1. /\ pc' = [pc EXCEPT ![s] = pc'[s]] /\ pc'[s] # "waiting"
        /\ fresh' = [fresh EXCEPT ![s] = {}] /\ UNCHANGED <<cats, snap, tx>>
    BY <1>8, <1>0 DEF EvaluateThesis, rows
  <2>2. \A t \in SweepId : pc'[t] = "waiting" => pc[t] = "waiting"
    BY <2>1, <1>0
  <2>3. \A t \in SweepId : fresh'[t] = {} \/ fresh'[t] = fresh[t]
    BY <2>1, <1>0
  <2>. QED BY <2>1, <2>2, <2>3 DEF TrailsInv
<1>9. ASSUME NEW s \in SweepId, Notify(s) PROVE TrailsInv'
  <2>1. pc' = [pc EXCEPT ![s] = "commit"] /\ UNCHANGED <<cats, snap, tx, fresh>>
    BY <1>9 DEF Notify, rows
  <2>. QED BY <2>1 DEF TrailsInv, TypeOK
<1>10. ASSUME NEW s \in SweepId, NEW how \in Finished, Finish(s, how),
              \A c \in Catalysts : JudgedOnce(cats'[c].evidence)
       PROVE  TrailsInv'
  <2>1. /\ pc' = [pc EXCEPT ![s] = how] /\ how # "waiting"
        /\ snap' = [snap EXCEPT ![s] = NoSnapshot] /\ NoSnapshot.enabled = {}
        /\ tx' = [tx EXCEPT ![s] = NoSession]
        /\ \A c \in Catalysts : NoSession.evidence[c] = {}
        /\ fresh' = [fresh EXCEPT ![s] = {}]
    BY <1>10 DEF Finish, Finished, NoSnapshot, NoSession
  <2>. QED BY <1>10, <2>1 DEF TrailsInv, TypeOK, JudgedOnce
<1>11. ASSUME NEW s \in SweepId, Commit(s) PROVE TrailsInv'
  <2>1. \A c \in Catalysts : cats'[c].evidence = tx[s].evidence[c]
                             \/ cats'[c].evidence = cats[c].evidence
    BY <1>11 DEF Commit
  <2>. QED BY <1>10, <1>11, <2>1 DEF Commit, Finished, TrailsInv
<1>12. ASSUME NEW s \in SweepId, Abort(s) \/ DeadlockVictim(s) PROVE TrailsInv'
  BY <1>10, <1>12 DEF Abort, DeadlockVictim, Finished, TrailsInv, rows
<1>. QED
  BY <1>1, <1>2, <1>3, <1>4, <1>5, <1>6, <1>7, <1>8, <1>9, <1>11, <1>12
     DEF Next, Scheduler, BeginLoop, BeginTask, vars

\* Overlapping sweeps, lost writes and the owner's edits included, no article
\* is on a catalyst's trail by two sweeps (scheduler_service.py:234-238).
THEOREM NoArticleRejudged == Spec => []NoRejudgedArticle
<1>1. TrailsInv => NoRejudgedArticle
  BY DEF TrailsInv, JudgedOnce, NoRejudgedArticle
<1>. QED BY <1>1, TypeCorrect, TrailsInit, TrailsStep, PTL DEF Spec

\* No sweep has left a row.
LEMMA RowsInit == Init => RowsInv
BY DEF Init, RowsInv, OnlyCommittedSweepsLeaveRows, NoSession

\* Only a commit leaves rows, and it leaves a committed sweep's.
LEMMA RowsStep ==
  ASSUME TypeOK, RowsInv, [Next]_vars
  PROVE  RowsInv'
<1>0. TypeOK'
  BY StepTyped
<1>1. CASE UNCHANGED <<cats, tx, pc, evals, alerts>>
  BY <1>1 DEF RowsInv, OnlyCommittedSweepsLeaveRows
<1>2. CASE List \/ LoopStopped
  BY <1>1, <1>2 DEF List, LoopStopped, rows, record
<1>3. CASE Owner
  BY <1>3, OwnerOnlyTrims DEF RowsInv, OnlyCommittedSweepsLeaveRows, record
\* A step of a sweep that is not over, before and after it.
<1>4. ASSUME NEW s \in SweepId, UNCHANGED <<cats, evals, alerts>>,
             pc' = [pc EXCEPT ![s] = pc'[s]], pc[s] # "done",
             tx' = [tx EXCEPT ![s] = tx'[s]],
             \A c \in Catalysts : \A e \in tx'[s].evidence[c] : e.by = s \/ pc[e.by] = "done"
      PROVE  RowsInv'
  <2>1. \A t \in SweepId : pc[t] = "done" => pc'[t] = "done"
    BY <1>4 DEF TypeOK
  <2>2. \A c \in Catalysts : \A e \in cats[c].evidence : e.by \in SweepId
    BY DEF TypeOK, Row, Entry
  <2>3. \A e \in evals : e.id \in SweepId
    BY DEF TypeOK
  <2>4. OnlyCommittedSweepsLeaveRows'
    BY <1>4, <2>1, <2>2, <2>3 DEF RowsInv, OnlyCommittedSweepsLeaveRows, TypeOK
  <2>5. ASSUME NEW t \in SweepId, NEW c \in Catalysts, NEW e \in tx'[t].evidence[c]
        PROVE  e.by = t \/ pc'[e.by] = "done"
    <3>1. e.by \in SweepId
      BY <1>0, <2>5 DEF TypeOK, Session, Entry
    <3>. QED BY <1>4, <2>1, <2>5, <3>1 DEF RowsInv, TypeOK
  <2>. QED BY <2>4, <2>5 DEF RowsInv
<1>5. ASSUME NEW s \in SweepId, NEW source \in {"loop", "task"}, Begin(s, source)
      PROVE  RowsInv'
  <2>1. /\ UNCHANGED <<cats, evals, alerts>>
        /\ pc' = [pc EXCEPT ![s] = pc'[s]] /\ pc[s] # "done"
        /\ tx' = [tx EXCEPT ![s] = tx'[s]]
        /\ \A c \in Catalysts : tx'[s].evidence[c] = cats[c].evidence
    BY <1>5 DEF Begin, TypeOK, rows, record
  <2>. QED BY <1>4, <2>1 DEF RowsInv, OnlyCommittedSweepsLeaveRows
<1>6. ASSUME NEW s \in SweepId, NEW c \in Catalysts, NEW a \in Articles, NEW v \in Verdicts,
             Judge(s, c, a, v)
      PROVE  RowsInv'
  <2> DEFINE entry == [article |-> a, verdict |-> v, by |-> s]
  <2>1. /\ UNCHANGED <<cats, evals, alerts>>
        /\ pc' = [pc EXCEPT ![s] = pc'[s]] /\ pc[s] # "done"
        /\ tx' = [tx EXCEPT ![s] = tx'[s]]
        /\ tx'[s].evidence = [tx[s].evidence EXCEPT ![c] = @ \union {entry}]
    BY <1>6 DEF Judge, TypeOK, rows, record
  <2>2. entry.by = s
    OBVIOUS
  <2> HIDE DEF entry
  <2>3. \A d \in Catalysts : \A e \in tx'[s].evidence[d] : e \in tx[s].evidence[d] \/ e = entry
    BY <2>1 DEF TypeOK, Session
  <2>4. \A d \in Catalysts : \A e \in tx'[s].evidence[d] : e.by = s \/ pc[e.by] = "done"
    BY <2>2, <2>3 DEF RowsInv
  <2>. QED BY <1>4, <2>1, <2>4
\* The steps that leave the evidence in the session alone.
<1>7. ASSUME NEW s \in SweepId, FetchNews(s) \/ Flush(s) \/ EvaluateThesis(s) \/ Notify(s)
      PROVE  RowsInv'
  <2>1. UNCHANGED <<cats, evals, alerts>>
    BY <1>7 DEF FetchNews, Flush, EvaluateThesis, Notify, rows, record
  <2>2. pc' = [pc EXCEPT ![s] = pc'[s]] /\ pc[s] # "done"
    BY <1>7 DEF FetchNews, Flush, EvaluateThesis, Notify, TypeOK
  <2>3. tx' = [tx EXCEPT ![s] = tx'[s]] /\ tx'[s].evidence = tx[s].evidence
    BY <1>7 DEF FetchNews, Flush, Flushed, EvaluateThesis, Notify, TypeOK
  <2>. QED BY <1>4, <2>1, <2>2, <2>3 DEF RowsInv
<1>8. ASSUME NEW s \in SweepId, Abort(s) \/ DeadlockVictim(s) PROVE RowsInv'
  <2>1. pc[s] # "done"
    BY <1>8 DEF Abort, Running, DeadlockVictim, Deadlocked, WaitsFor
  <2>2. /\ UNCHANGED <<cats, evals, alerts>>
        /\ pc' = [pc EXCEPT ![s] = pc'[s]]
        /\ tx' = [tx EXCEPT ![s] = tx'[s]]
        /\ \A c \in Catalysts : tx'[s].evidence[c] = {}
    BY <1>8 DEF Abort, DeadlockVictim, Finish, NoSession, TypeOK, rows, record
  <2>. QED BY <1>4, <2>1, <2>2
<1>9. ASSUME NEW s \in SweepId, Commit(s) PROVE RowsInv'
  <2>1. /\ pc' = [pc EXCEPT ![s] = "done"]
        /\ tx' = [tx EXCEPT ![s] = NoSession]
        /\ \A c \in Catalysts : NoSession.evidence[c] = {}
        /\ evals' = evals \union {[id |-> s, outcome |-> outcome[s]]}
        /\ alerts' \subseteq alerts \union {s}
    BY <1>9 DEF Commit, Finish, NoSession
  <2>2. \A c \in Catalysts : cats'[c].evidence = tx[s].evidence[c]
                             \/ cats'[c].evidence = cats[c].evidence
    BY <1>9 DEF Commit
  <2>3. ASSUME NEW c \in Catalysts, NEW e \in cats'[c].evidence PROVE pc'[e.by] = "done"
    <3>1. e.by \in SweepId
      BY <1>0, <2>3 DEF TypeOK, Row, Entry
    <3>. QED
      BY <2>1, <2>2, <2>3, <3>1 DEF RowsInv, OnlyCommittedSweepsLeaveRows, TypeOK
  <2>4. \A e \in evals' : pc'[e.id] = "done"
    BY <2>1 DEF RowsInv, OnlyCommittedSweepsLeaveRows, TypeOK
  <2>5. \A t \in alerts' : pc'[t] = "done" /\ \E e \in evals' : e.id = t
    <3> DEFINE new == [id |-> s, outcome |-> outcome[s]]
    <3>1. new.id = s /\ new \in evals' /\ evals \subseteq evals'
      BY <2>1
    <3> HIDE DEF new
    <3>. QED BY <2>1, <3>1 DEF RowsInv, OnlyCommittedSweepsLeaveRows, TypeOK
  <2>6. ASSUME NEW t \in SweepId, NEW c \in Catalysts, NEW e \in tx'[t].evidence[c]
        PROVE  e.by = t \/ pc'[e.by] = "done"
    <3>1. e.by \in SweepId
      BY <1>0, <2>6 DEF TypeOK, Session, Entry
    <3>. QED BY <2>1, <2>6, <3>1 DEF RowsInv, TypeOK
  <2>. QED BY <2>3, <2>4, <2>5, <2>6 DEF RowsInv, OnlyCommittedSweepsLeaveRows
<1>. QED
  BY <1>1, <1>2, <1>3, <1>5, <1>6, <1>7, <1>8, <1>9 DEF Next, Scheduler, BeginLoop, BeginTask, vars

\* A sweep that fails, is cancelled or is a deadlock's victim leaves no
\* evidence, evaluation or alert behind (scheduler_service.py:194-202).
THEOREM OnlyCommittedRows == Spec => []OnlyCommittedSweepsLeaveRows
<1>1. RowsInv => OnlyCommittedSweepsLeaveRows
  BY DEF RowsInv
<1>. QED BY <1>1, TypeCorrect, RowsInit, RowsStep, PTL DEF Spec

-----------------------------------------------------------------------------
(***************************************************************************)
(* An alert repeats only after a reset.  A sweep decides an alert against  *)
(* the newest evaluation committed then, so what it saw has a newest       *)
(* member that was not firing; evaluations are never changed or removed,   *)
(* and each has its sweep's own number, so this stays true of the sweep    *)
(* and of the rows it commits.                                             *)
(***************************************************************************)
\* Evaluation o, with E committed, announced the signal with cause: it found
\* it on, and the newest evaluation it saw had found it off.
Justified(o, E) ==
  /\ o.flipped => o.status = "firing"
  /\ o.saw # {} => \E f \in E : /\ f.id \in o.saw /\ f.outcome.status # "firing"
                                /\ \A x \in o.saw : x <= f.id

AlertsInv ==
  /\ evals # {} => \E e \in evals : \A f \in evals : f.id <= e.id
  /\ \A e, f \in evals : e.id = f.id => e = f
  /\ \A e \in evals : Justified(e.outcome, evals)
  /\ \A s \in SweepId : pc[s] \in {"notify", "commit"} => Justified(outcome[s], evals)
  /\ \A s \in alerts : \E e \in evals : e.id = s /\ e.outcome.flipped

\* More evaluations take no cause away.
LEMMA StillJustified ==
  ASSUME NEW o, NEW E, NEW F, E \subseteq F, Justified(o, E)
  PROVE  Justified(o, F)
BY DEF Justified

\* There are no evaluations and no alerts yet.
LEMMA AlertsInit == Init => AlertsInv
BY DEF Init, AlertsInv

\* A step that commits nothing keeps AlertsInv if the only evaluation it can
\* have decided is justified.
LEMMA NothingCommitted ==
  ASSUME AlertsInv, UNCHANGED record,
         \A s \in SweepId : pc'[s] \in {"notify", "commit"} =>
           \/ pc[s] \in {"notify", "commit"} /\ outcome'[s] = outcome[s]
           \/ Justified(outcome'[s], evals)
  PROVE  AlertsInv'
<1>1. evals' = evals /\ alerts' = alerts
  BY DEF record
<1>2. \A s \in SweepId : pc'[s] \in {"notify", "commit"} => Justified(outcome'[s], evals)
  BY DEF AlertsInv
<1>. QED BY <1>1, <1>2 DEF AlertsInv

\* An evaluation is decided once, and committed as it was decided.
LEMMA AlertsStep ==
  ASSUME TypeOK, RowsInv, AlertsInv, [Next]_vars
  PROVE  AlertsInv'
<1>0. /\ pc \in [SweepId -> {"waiting"} \union Running \union Finished]
      /\ outcome \in [SweepId -> Outcome]
  BY DEF TypeOK
<1>1. CASE UNCHANGED vars
  BY <1>1, NothingCommitted DEF vars, record
<1>2. CASE List \/ LoopStopped
  BY <1>2, NothingCommitted DEF List, LoopStopped
<1>3. CASE Owner
  BY <1>3, OwnerOnlyTrims, NothingCommitted
\* The steps that decide nothing.
<1>4. ASSUME NEW s \in SweepId, NEW how, UNCHANGED record,
             pc' = [pc EXCEPT ![s] = how], how \notin {"notify", "commit"},
             \A t \in SweepId \ {s} : outcome'[t] = outcome[t]
      PROVE  AlertsInv'
  <2>1. pc'[s] = how /\ \A t \in SweepId \ {s} : pc'[t] = pc[t]
    BY <1>0, <1>4
  <2>. QED BY <1>4, <2>1, NothingCommitted
<1>5. ASSUME NEW s \in SweepId, NEW source \in {"loop", "task"}, Begin(s, source)
      PROVE  AlertsInv'
  <2>1. PICK how \in {"fetch", "metrics"} : pc' = [pc EXCEPT ![s] = how]
    BY <1>5 DEF Begin
  <2>. QED BY <1>4, <1>5, <2>1 DEF Begin
<1>6. ASSUME NEW s \in SweepId, FetchNews(s) PROVE AlertsInv'
  <2>1. PICK how \in {"metrics", "verdicts"} : pc' = [pc EXCEPT ![s] = how]
    BY <1>6 DEF FetchNews
  <2>. QED BY <1>4, <1>6, <2>1 DEF FetchNews
<1>7. ASSUME NEW s \in SweepId, NEW c \in Catalysts, NEW a \in Articles, NEW v \in Verdicts,
             Judge(s, c, a, v)
      PROVE  AlertsInv'
  <2>1. UNCHANGED record /\ outcome' = outcome /\ pc' = [pc EXCEPT ![s] = "flush"]
    BY <1>7 DEF Judge
  <2>. QED BY <1>4, <2>1
<1>8. ASSUME NEW s \in SweepId, Flush(s) PROVE AlertsInv'
  BY <1>4, <1>8 DEF Flush
<1>9. ASSUME NEW s \in SweepId, EvaluateThesis(s) PROVE AlertsInv'
  <2> DEFINE flips(status) == status = "firing" /\ ~WasFiring
  <2>1. PICK status :
          /\ outcome' = [outcome EXCEPT ![s] =
               [status |-> status, flipped |-> flips(status),
                saw |-> IF flips(status) THEN {e.id : e \in evals} ELSE {}]]
          /\ pc' = [pc EXCEPT ![s] = IF flips(status) THEN "notify" ELSE "commit"]
    BY <1>9, Zenon DEF EvaluateThesis
  <2>2. Justified(outcome'[s], evals)
    <3>1. /\ outcome'[s].status = status /\ outcome'[s].flipped = flips(status)
          /\ outcome'[s].saw = IF flips(status) THEN {e.id : e \in evals} ELSE {}
      BY <1>0, <2>1
    <3>2. CASE ~flips(status)
      BY <3>1, <3>2 DEF Justified
    <3>3. CASE flips(status) /\ evals = {}
      BY <3>1, <3>3 DEF Justified
    <3>4. CASE flips(status) /\ evals # {}
      <4>1. PICK last : last = LatestEvaluation
        OBVIOUS
      <4>2. last \in evals /\ \A f \in evals : f.id <= last.id
        BY <3>4, <4>1 DEF AlertsInv, LatestEvaluation
      <4>3. last.outcome.status # "firing"
        BY <3>4, <4>1 DEF WasFiring
      <4>4. outcome'[s].saw = {e.id : e \in evals} /\ outcome'[s].status = "firing"
        BY <3>1, <3>4
      <4>. QED BY <4>2, <4>3, <4>4 DEF Justified
    <3>. QED BY <3>2, <3>3, <3>4
  <2>3. \A t \in SweepId \ {s} : outcome'[t] = outcome[t] /\ pc'[t] = pc[t]
    BY <1>0, <2>1
  <2>. QED BY <1>9, <2>2, <2>3, NothingCommitted DEF EvaluateThesis
<1>10. ASSUME NEW s \in SweepId, Notify(s) PROVE AlertsInv'
  <2>1. /\ UNCHANGED record /\ outcome' = outcome
        /\ pc[s] = "notify" /\ \A t \in SweepId \ {s} : pc'[t] = pc[t]
    BY <1>0, <1>10 DEF Notify
  <2>. QED BY <2>1, NothingCommitted
<1>11. ASSUME NEW s \in SweepId, Abort(s) \/ DeadlockVictim(s) PROVE AlertsInv'
  BY <1>0, <1>4, <1>11 DEF Abort, DeadlockVictim, Finish
\* The number of a sweep that is about to commit is on no evaluation yet.
<1>12. ASSUME NEW s \in SweepId, Commit(s) PROVE AlertsInv'
  <2>1. PICK new : new = [id |-> s, outcome |-> outcome[s]]
    OBVIOUS
  <2>2. /\ evals' = evals \union {new}
        /\ alerts' = alerts \/ (outcome[s].flipped /\ alerts' = alerts \union {s})
        /\ pc[s] = "commit" /\ pc' = [pc EXCEPT ![s] = "done"]
        /\ \A t \in SweepId \ {s} : outcome'[t] = outcome[t]
    BY <1>0, <1>12, <2>1 DEF Commit, Finish
  <2>3. new.id = s /\ new.outcome = outcome[s] /\ Justified(new.outcome, evals)
    BY <2>1, <2>2 DEF AlertsInv
  <2>4. \A e \in evals : e.id # s /\ e.id \in SweepId
    BY <2>2 DEF RowsInv, OnlyCommittedSweepsLeaveRows, TypeOK
  <2>5. \E e \in evals' : \A f \in evals' : f.id <= e.id
    <3>1. CASE evals = {}
      BY <2>2, <2>3, <3>1 DEF SweepId
    <3>2. CASE evals # {}
      <4>1. PICK e \in evals : \A f \in evals : f.id <= e.id
        BY <3>2 DEF AlertsInv
      <4>2. CASE e.id <= s
        <5>1. \A f \in evals : f.id <= s
          BY <2>4, <4>1, <4>2 DEF SweepId
        <5>. QED BY <2>2, <2>3, <5>1 DEF SweepId
      <4>3. CASE s <= e.id
        BY <2>2, <2>3, <4>1, <4>3
      <4>. QED BY <2>4, <4>2, <4>3 DEF SweepId
    <3>. QED BY <3>1, <3>2
  <2>6. \A e, f \in evals' : e.id = f.id => e = f
    BY <2>2, <2>3, <2>4 DEF AlertsInv
  <2>7. \A e \in evals' : Justified(e.outcome, evals')
    BY <2>2, <2>3, StillJustified DEF AlertsInv
  <2>8. \A t \in SweepId : pc'[t] \in {"notify", "commit"} => Justified(outcome'[t], evals')
    <3>1. \A t \in SweepId : pc'[t] \in {"notify", "commit"} => t # s /\ pc'[t] = pc[t]
      BY <1>0, <2>2
    <3>. QED BY <2>2, <3>1, StillJustified DEF AlertsInv
  <2>9. \A t \in alerts' : \E e \in evals' : e.id = t /\ e.outcome.flipped
    BY <2>2, <2>3 DEF AlertsInv
  <2>. QED BY <2>5, <2>6, <2>7, <2>8, <2>9 DEF AlertsInv
<1>. QED
  BY <1>1, <1>2, <1>3, <1>5, <1>6, <1>7, <1>8, <1>9, <1>10, <1>11, <1>12
     DEF Next, Scheduler, BeginLoop, BeginTask

\* The alert that the later one saw was of a firing evaluation, and the newest
\* that one saw was not: so that is another one, and newer.
LEMMA ResetFollows == TypeOK /\ AlertsInv => RepeatAlertNeedsReset
<1> SUFFICES ASSUME TypeOK, AlertsInv, NEW s \in alerts, NEW e \in evals,
                    s \in e.outcome.saw
             PROVE  \E f \in evals : /\ f.id > s /\ f.id \in e.outcome.saw
                                     /\ f.outcome.status # "firing"
  BY DEF RepeatAlertNeedsReset
<1>1. PICK f \in evals : /\ f.id \in e.outcome.saw /\ f.outcome.status # "firing"
                         /\ \A x \in e.outcome.saw : x <= f.id
  BY DEF AlertsInv, Justified
<1>2. PICK g \in evals : g.id = s /\ g.outcome.status = "firing"
  BY DEF AlertsInv, Justified
<1>3. s \in SweepId /\ f.id \in SweepId /\ f.id # s /\ s <= f.id
  BY <1>1, <1>2 DEF AlertsInv, TypeOK
<1>. QED BY <1>1, <1>3 DEF SweepId

\* An alert that an evaluation was committed for repeats only after a newer
\* evaluation that found the signal off, whichever sweeps overlap, fail or
\* commit out of order (evaluation_repository.py:29-32,
\* scheduler_service.py:269-271, 291).
THEOREM AlertsNeedReset == Spec => []RepeatAlertNeedsReset
<1>1. TypeOK /\ RowsInv /\ AlertsInv /\ [Next]_vars => AlertsInv'
  BY AlertsStep
<1>2. TypeOK /\ RowsInv /\ [Next]_vars => RowsInv'
  BY RowsStep
<1>. QED BY <1>1, <1>2, AlertsInit, RowsInit, TypeCorrect, ResetFollows, PTL DEF Spec

=============================================================================
