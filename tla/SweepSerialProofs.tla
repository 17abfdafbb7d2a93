-------------------------- MODULE SweepSerialProofs --------------------------
(***************************************************************************)
(* Proofs about the sweeps of a thesis when PROPOSALS_ENABLED is off, the  *)
(* default: only the scheduler's loop sweeps, and it sweeps one at a time. *)
(***************************************************************************)
EXTENDS SweepProofs

\* The sweep that runs is the newest begun, and is the loop's.
OneSweep ==
  /\ \A s \in SweepId : pc[s] = "waiting" <=> s > begun
  /\ \A s \in SweepId : pc[s] \in Running =>
       s = begun /\ loop = "sweeping" /\ snap[s].source = "loop"

\* No sweep runs.
LEMMA OneSweepInit == Init => OneSweep
BY DEF Init, OneSweep, Running, SweepId

\* Without the reviewer no task begins a sweep beside the loop's.
LEMMA OneSweepStep ==
  ASSUME ~ProposalsEnabled, TypeOK, OneSweep, [Next]_vars
  PROVE  OneSweep'
<1>1. CASE UNCHANGED <<loop, begun, pc, snap>>
  BY <1>1 DEF OneSweep
<1>2. CASE List \/ LoopStopped
  BY <1>2 DEF List, LoopStopped, OneSweep
<1>3. CASE Owner
  <2>1. Request
    BY <1>3 DEF Owner, EditCatalyst, EditQuant, EditThesis, DeleteThesis, EditChat
  <2>. QED BY <1>1, <2>1 DEF Request
<1>4. ASSUME NEW s \in SweepId, BeginLoop(s) PROVE OneSweep'
  <2>1. /\ loop = "listed" /\ loop' = "sweeping" /\ pc[s] = "waiting"
        /\ s = begun + 1 /\ begun' = s
        /\ snap' = [snap EXCEPT ![s] = snap'[s]] /\ snap'[s].source = "loop"
        /\ pc' = [pc EXCEPT ![s] = pc'[s]] /\ pc'[s] # "waiting"
    BY <1>4 DEF BeginLoop, Begin, TypeOK
  <2>2. \A t \in SweepId : pc[t] \notin Running
    BY <2>1 DEF OneSweep
  <2>3. begun \in Nat /\ SweepId \subseteq Nat
    BY BoundsAssumption DEF TypeOK, SweepId
  <2>. QED BY <2>1, <2>2, <2>3 DEF OneSweep, TypeOK
\* A step of the running sweep that does not end it.
<1>5. ASSUME NEW s \in SweepId, pc[s] \in Running, pc'[s] \in Running,
             pc' = [pc EXCEPT ![s] = pc'[s]], UNCHANGED <<loop, begun, snap>>
      PROVE  OneSweep'
  BY <1>5 DEF OneSweep, TypeOK, Running
<1>6. ASSUME NEW s \in SweepId, FetchNews(s) \/ Flush(s) \/ EvaluateThesis(s) \/ Notify(s)
      PROVE  OneSweep'
  <2>1. pc[s] \in Running /\ pc'[s] \in Running /\ pc' = [pc EXCEPT ![s] = pc'[s]]
    BY <1>6 DEF FetchNews, Flush, EvaluateThesis, Notify, TypeOK, Running
  <2>2. UNCHANGED <<loop, begun, snap>>
    BY <1>6 DEF FetchNews, Flush, EvaluateThesis, Notify
  <2>. QED BY <1>5, <2>1, <2>2
<1>7. ASSUME NEW s \in SweepId, NEW c \in Catalysts, NEW a \in Articles, NEW v \in Verdicts,
             Judge(s, c, a, v)
      PROVE  OneSweep'
  BY <1>5, <1>7 DEF Judge, TypeOK, Running
<1>8. ASSUME NEW s \in SweepId, NEW how \in Finished, pc[s] \in Running, Finish(s, how),
             begun' = begun
      PROVE  OneSweep'
  <2>1. s = begun /\ snap[s].source = "loop"
    BY <1>8 DEF OneSweep
  <2>2. pc' = [pc EXCEPT ![s] = how] /\ how # "waiting" /\ how \notin Running
    BY <1>8 DEF Finish, Finished, Running
  <2>3. snap' = [snap EXCEPT ![s] = NoSnapshot] /\ pc[s] # "waiting"
    BY <1>8 DEF Finish, Running
  <2>. QED BY <1>8, <2>1, <2>2, <2>3 DEF OneSweep, TypeOK
<1>9. ASSUME NEW s \in SweepId, Commit(s) \/ Abort(s) \/ DeadlockVictim(s)
      PROVE  OneSweep'
  <2>1. pc[s] \in Running
    BY <1>9 DEF Commit, Abort, DeadlockVictim, Deadlocked, WaitsFor, Running
  <2>2. begun' = begun /\ \E how \in Finished : Finish(s, how)
    BY <1>9 DEF Commit, Abort, DeadlockVictim, Finished
  <2>. QED BY <1>8, <2>1, <2>2
<1>. QED
  BY <1>1, <1>2, <1>3, <1>4, <1>6, <1>7, <1>9 DEF Next, Scheduler, BeginTask, vars

-----------------------------------------------------------------------------
(***************************************************************************)
(* The alerts implement module EdgeAlerts.  Between the decision to alert  *)
(* and the commit no other evaluation is committed, so the newest one is   *)
(* still the one the decision was taken on.                                *)
(***************************************************************************)
AlertInv ==
  /\ evals # {} => \E e \in evals : \A f \in evals : f.id <= e.id
  /\ \A s \in SweepId : pc[s] \in {"notify", "commit"} /\ outcome[s].flipped =>
       outcome[s].status = "firing" /\ ~WasFiring

SerialInv == TypeOK /\ RowsInv /\ OneSweep /\ AlertInv

\* There is no evaluation that an alert could have missed.
LEMMA SerialInit == Init => SerialInv
<1>1. Init => AlertInv
  BY DEF Init, AlertInv
<1>. QED BY <1>1, InitTyped, RowsInit, OneSweepInit DEF SerialInv

\* The evaluation of a running sweep is newer than all that are committed.
LEMMA NewestYet ==
  ASSUME SerialInv, NEW s \in SweepId, pc[s] \in Running
  PROVE  \A e \in evals : e.id < s
<1> SUFFICES ASSUME NEW e \in evals PROVE e.id < s
  OBVIOUS
<1>1. e.id \in SweepId /\ s = begun
  BY DEF SerialInv, TypeOK, OneSweep
<1>2. pc[e.id] = "done"
  BY DEF SerialInv, RowsInv, OnlyCommittedSweepsLeaveRows
<1>3. ~(e.id > begun) /\ e.id # s
  BY <1>1, <1>2 DEF SerialInv, OneSweep, Running
<1>. QED BY <1>1, <1>3, BoundsAssumption DEF SweepId

\* What a commit does to the newest evaluation and to the alerts.
LEMMA CommitIsNewest ==
  ASSUME SerialInv, NEW s \in SweepId, Commit(s)
  PROVE  /\ evals' # {}
         /\ LatestEvaluation' = [id |-> s, outcome |-> outcome[s]]
         /\ \A f \in evals' : f.id <= s
         /\ \/ alerts' = alerts
            \/ alerts' = alerts \union {s} /\ outcome[s].status = "firing" /\ ~WasFiring
<1> DEFINE new == [id |-> s, outcome |-> outcome[s]]
<1>1. pc[s] = "commit" /\ evals' = evals \union {new}
  BY DEF Commit
<1>2. \A e \in evals : e.id < s
  BY <1>1, NewestYet DEF Running
<1>3. s \in Nat /\ \A e \in evals : e.id \in Nat
  BY BoundsAssumption DEF SerialInv, TypeOK, SweepId
<1>4. new.id = s
  OBVIOUS
<1> HIDE DEF new
<1>5. \A f \in evals' : f.id <= s /\ (f.id = s => f = new)
  BY <1>1, <1>2, <1>3, <1>4
<1>6. \A e \in evals' : (\A f \in evals' : f.id <= e.id) <=> e = new
  <2> SUFFICES ASSUME NEW e \in evals' PROVE (\A f \in evals' : f.id <= e.id) <=> e = new
    OBVIOUS
  <2>1. e.id \in Nat
    BY <1>1, <1>3, <1>4
  <2>. QED BY <1>1, <1>3, <1>4, <1>5, <2>1
<1>7. LatestEvaluation' = new
  BY <1>1, <1>6 DEF LatestEvaluation
<1>8. \/ alerts' = alerts
      \/ alerts' = alerts \union {s} /\ outcome[s].flipped
  BY DEF Commit
<1>. QED BY <1>1, <1>5, <1>7, <1>8 DEF new, SerialInv, AlertInv

\* A decided alert finds the signal off until its sweep commits.
LEMMA AlertStep ==
  ASSUME ~ProposalsEnabled, SerialInv, [Next]_vars
  PROVE  AlertInv'
<1> USE DEF SerialInv
<1>0. TypeOK'
  BY StepTyped
<1>1. CASE UNCHANGED <<evals, pc, outcome>>
  BY <1>1 DEF AlertInv, WasFiring, LatestEvaluation
<1>2. CASE List \/ LoopStopped
  BY <1>1, <1>2 DEF List, LoopStopped, record
<1>3. CASE Owner
  BY <1>1, <1>3, OwnerOnlyTrims DEF record
<1>4. ASSUME NEW s \in SweepId, UNCHANGED evals, pc' = [pc EXCEPT ![s] = pc'[s]],
             outcome' = [outcome EXCEPT ![s] = outcome'[s]],
             pc'[s] \in {"notify", "commit"} /\ outcome'[s].flipped =>
               outcome'[s].status = "firing" /\ ~WasFiring
      PROVE  AlertInv'
  <2>1. WasFiring' = WasFiring
    BY <1>4 DEF WasFiring, LatestEvaluation
  <2>. QED BY <1>4, <2>1 DEF AlertInv, TypeOK
<1>5. ASSUME NEW s \in SweepId, pc' = [pc EXCEPT ![s] = pc'[s]],
             pc'[s] \notin {"notify", "commit"}, UNCHANGED <<evals, outcome>>
      PROVE  AlertInv'
  BY <1>4, <1>5 DEF TypeOK
<1>6. ASSUME NEW s \in SweepId, BeginLoop(s) \/ FetchNews(s) \/ Flush(s) PROVE AlertInv'
  <2>1. pc' = [pc EXCEPT ![s] = pc'[s]] /\ pc'[s] \notin {"notify", "commit"}
    BY <1>6 DEF BeginLoop, Begin, FetchNews, Flush, TypeOK
  <2>2. UNCHANGED <<evals, outcome>>
    BY <1>6 DEF BeginLoop, Begin, FetchNews, Flush, record
  <2>. QED BY <1>5, <2>1, <2>2
<1>7. ASSUME NEW s \in SweepId, NEW c \in Catalysts, NEW a \in Articles, NEW v \in Verdicts,
             Judge(s, c, a, v)
      PROVE  AlertInv'
  BY <1>5, <1>7 DEF Judge, TypeOK, record
<1>8. ASSUME NEW s \in SweepId, EvaluateThesis(s) PROVE AlertInv'
  <2>1. PICK status \in EvalStatus, flipped \in BOOLEAN :
          /\ flipped = (status = "firing" /\ ~WasFiring)
          /\ outcome' = [outcome EXCEPT ![s] =
               [status |-> status, flipped |-> flipped,
                saw |-> IF flipped THEN {e.id : e \in evals} ELSE {}]]
          /\ pc' = [pc EXCEPT ![s] = IF flipped THEN "notify" ELSE "commit"]
    BY <1>8, EvaluateInStatus DEF EvaluateThesis
  <2>2. evals' = evals
    BY <1>8 DEF EvaluateThesis, record
  <2>. QED BY <1>4, <2>1, <2>2 DEF TypeOK
<1>9. ASSUME NEW s \in SweepId, Notify(s) PROVE AlertInv'
  <2>1. pc[s] = "notify" /\ pc' = [pc EXCEPT ![s] = "commit"] /\ UNCHANGED <<evals, outcome>>
    BY <1>9 DEF Notify, record
  <2>. QED BY <1>4, <2>1 DEF TypeOK, AlertInv
<1>10. ASSUME NEW s \in SweepId, Abort(s) \/ DeadlockVictim(s) PROVE AlertInv'
  BY <1>4, <1>10 DEF Abort, DeadlockVictim, Finish, TypeOK, record
<1>11. ASSUME NEW s \in SweepId, Commit(s) PROVE AlertInv'
  <2>1. \E e \in evals' : \A f \in evals' : f.id <= e.id
    <3> DEFINE new == [id |-> s, outcome |-> outcome[s]]
    <3>1. new.id = s /\ new \in evals'
      BY <1>11 DEF Commit
    <3> HIDE DEF new
    <3>. QED BY <1>11, <3>1, CommitIsNewest
  <2>2. \A t \in SweepId : pc'[t] \notin {"notify", "commit"}
    BY <1>11 DEF Commit, Finish, OneSweep, Running, TypeOK
  <2>. QED BY <2>1, <2>2 DEF AlertInv
<1>. QED
  BY <1>1, <1>2, <1>3, <1>6, <1>7, <1>8, <1>9, <1>10, <1>11 DEF Next, Scheduler, BeginTask, vars

\* Every step keeps the invariant of the loop alone.
LEMMA SerialStep ==
  ASSUME ~ProposalsEnabled, SerialInv, [Next]_vars
  PROVE  SerialInv'
BY StepTyped, RowsStep, OneSweepStep, AlertStep DEF SerialInv

\* Before the first evaluation the signal is off and nobody was alerted.
LEMMA AlertsRefineInit == Init => EA!Init
BY DEF Init, NewestEvaluation, EA!Init, EA!NoEvaluation

\* A commit records an evaluation of EdgeAlerts, every other step stutters.
LEMMA AlertsRefineStep ==
  ASSUME ~ProposalsEnabled, SerialInv, [Next]_vars
  PROVE  [EA!Next]_<<NewestEvaluation, alerts>>
<1>1. CASE UNCHANGED <<evals, alerts>>
  BY <1>1 DEF NewestEvaluation, LatestEvaluation
<1>2. ASSUME NEW s \in SweepId, Commit(s) PROVE EA!Next
  <2>1. s > NewestEvaluation.id /\ (NewestEvaluation.firing <=> WasFiring)
    <3>1. CASE evals = {}
      BY <3>1, BoundsAssumption DEF NewestEvaluation, WasFiring, SweepId
    <3>2. CASE evals # {}
      <4>1. LatestEvaluation \in evals
        BY <3>2 DEF SerialInv, AlertInv, LatestEvaluation
      <4>2. LatestEvaluation.id < s /\ LatestEvaluation.id \in SweepId
        BY <1>2, <4>1, NewestYet DEF Commit, Running, SerialInv, TypeOK
      <4>. QED BY <3>2, <4>2, BoundsAssumption DEF NewestEvaluation, WasFiring, SweepId
    <3>. QED BY <3>1, <3>2
  <2>2. NewestEvaluation' = [id |-> s, firing |-> outcome[s].status = "firing"]
    BY <1>2, CommitIsNewest DEF NewestEvaluation
  <2>3. \/ alerts' = alerts
        \/ alerts' = alerts \union {s} /\ outcome[s].status = "firing" /\ ~WasFiring
    BY <1>2, CommitIsNewest
  <2>4. EA!Record(s, outcome[s].status = "firing")
    BY <2>1, <2>2, <2>3 DEF EA!Record
  <2>. QED BY <2>4 DEF EA!Next
<1>3. ASSUME NEW s \in SweepId, Scheduler(s), ~Commit(s) PROVE UNCHANGED <<evals, alerts>>
  BY <1>3 DEF Scheduler, BeginLoop, BeginTask, Begin, FetchNews, Judge, Flush, EvaluateThesis,
              Notify, Abort, DeadlockVictim, record
<1>4. List \/ LoopStopped \/ Owner => UNCHANGED <<evals, alerts>>
  BY OwnerOnlyTrims DEF SerialInv, List, LoopStopped, record
<1>. QED
  BY <1>1, <1>2, <1>3, <1>4 DEF Next, vars

\* Swept by the loop alone, a thesis raises one alert at most for every time
\* its signal comes on, whatever sweeps fail in between
\* (scheduler_service.py:269-292).
THEOREM LoopRaisesEdgeAlerts == ~ProposalsEnabled => (Spec => ImplementsEdgeAlerts)
<1> SUFFICES ASSUME ~ProposalsEnabled PROVE Spec => ImplementsEdgeAlerts
  OBVIOUS
<1>1. Init => SerialInv /\ EA!Init
  BY SerialInit, AlertsRefineInit
<1>2. SerialInv /\ [Next]_vars => SerialInv'
  BY SerialStep
<1>3. SerialInv /\ [Next]_vars =>
        [EA!Next]_<<NewestEvaluation, alerts>>
  BY AlertsRefineStep
<1>. QED BY <1>1, <1>2, <1>3, PTL DEF Spec, ImplementsEdgeAlerts, EA!Spec
-----------------------------------------------------------------------------
(***************************************************************************)
(* The ladder and the grounds of a confirmation.  With one sweep at a time *)
(* what the sweep holds of a catalyst the owner never touched is ahead of  *)
(* the row by the sweep's own verdicts, and by nothing else.               *)
(***************************************************************************)
AheadInv ==
  /\ ConfirmedHasGrounds
  /\ \A s \in SweepId : pc[s] \in Running =>
       /\ tx[s].moved \subseteq tx[s].dirty \union tx[s].held
       /\ pc[s] # "flush" => tx[s].dirty = {}
       /\ \A c \in Catalysts \ handset :
            /\ tx[s].state[c] = "confirmed" => Confirming(tx[s].evidence[c])
            /\ Climbs(cats[c].state, tx[s].state[c])
            /\ c \notin tx[s].moved => tx[s].state[c] = cats[c].state

\* No verdict moves a state down the ladder.
LEMMA ApplyClimbs ==
  ASSUME NEW from \in CatalystState, NEW state \in CatalystState, NEW v \in Verdicts,
         Climbs(from, state)
  PROVE  Climbs(from, Apply(state, v))
BY VerdictsAssumption
   DEF Climbs, Apply, Effective, Credible, CatalystState, Verdict, CatalystProposal

\* A state becomes confirmed by a verdict that confirms.
LEMMA ApplyConfirms ==
  ASSUME NEW state \in CatalystState, NEW v \in Verdicts, Apply(state, v) = "confirmed"
  PROVE  state = "confirmed" \/ Effective(v) = "confirmed"
BY VerdictsAssumption DEF Apply, Effective, Verdict, CatalystProposal

\* A request of the owner leaves alone what it does not put into handset.
LEMMA OwnerMarks ==
  ASSUME TypeOK, Owner
  PROVE  /\ handset \subseteq handset'
         /\ \A c \in Catalysts \ handset' : /\ cats'[c].state = cats[c].state
                                            /\ cats'[c].evidence = cats[c].evidence
<1>1. ASSUME NEW c \in Catalysts, NEW enabled \in BOOLEAN, NEW state \in CatalystState,
             NEW evidence \in {cats[c].evidence, {}}, EditCatalyst(c, enabled, state, evidence)
      PROVE  /\ handset \subseteq handset'
             /\ \A d \in Catalysts \ handset' : /\ cats'[d].state = cats[d].state
                                                /\ cats'[d].evidence = cats[d].evidence
  BY <1>1 DEF EditCatalyst, TypeOK
<1>2. ASSUME DeleteThesis
      PROVE  /\ handset' = handset
             /\ \A d \in Catalysts : /\ cats'[d].state = cats[d].state
                                     /\ cats'[d].evidence = cats[d].evidence
  BY <1>2 DEF DeleteThesis, TypeOK, Row
<1>3. ASSUME NEW q \in Quants, EditQuant(q) PROVE UNCHANGED <<cats, handset>>
  BY <1>3 DEF EditQuant
<1>4. ASSUME NEW t \in Thesis, EditThesis(t) PROVE UNCHANGED <<cats, handset>>
  BY <1>4 DEF EditThesis
<1>5. ASSUME NEW ch \in Chats \union {NoChat}, EditChat(ch) PROVE UNCHANGED <<cats, handset>>
  BY <1>5 DEF EditChat
<1>. QED BY <1>1, <1>2, <1>3, <1>4, <1>5 DEF Owner

\* No catalyst is confirmed and no sweep runs.
LEMMA AheadInit == Init => AheadInv
BY DEF Init, AheadInv, ConfirmedHasGrounds, Running

\* A session's copy stays ahead of the row that it will replace.
LEMMA AheadStep ==
  ASSUME ~ProposalsEnabled, TypeOK, OneSweep, AheadInv, [Next]_vars
  PROVE  AheadInv'
<1>1. CASE UNCHANGED <<cats, tx, pc, handset>>
  BY <1>1 DEF AheadInv, ConfirmedHasGrounds
<1>2. CASE List \/ LoopStopped
  BY <1>1, <1>2 DEF List, LoopStopped, rows, owner
<1>3. CASE Owner
  BY <1>3, OwnerOnlyTrims, OwnerMarks DEF AheadInv, ConfirmedHasGrounds
<1>4. ASSUME NEW s \in SweepId, Begin(s, "loop") PROVE AheadInv'
  <2>1. /\ pc' = [pc EXCEPT ![s] = pc'[s]] /\ pc'[s] # "flush"
        /\ tx' = [tx EXCEPT ![s] = tx'[s]]
        /\ tx'[s].moved = {} /\ tx'[s].dirty = {}
        /\ UNCHANGED <<cats, handset>>
    BY <1>4 DEF Begin, TypeOK, rows, owner
  <2>2. \A c \in Catalysts : tx'[s].state[c] = cats[c].state
                             /\ tx'[s].evidence[c] = cats[c].evidence
    BY <1>4 DEF Begin, TypeOK
  <2>. QED BY <2>1, <2>2 DEF AheadInv, ConfirmedHasGrounds, Climbs, TypeOK
<1>5. ASSUME NEW s \in SweepId, NEW c \in Catalysts, NEW a \in Articles, NEW v \in Verdicts,
             Judge(s, c, a, v)
      PROVE  AheadInv'
  <2> DEFINE state == Apply(tx[s].state[c], v)
             entry == [article |-> a, verdict |-> v, by |-> s]
  <2>1. /\ pc[s] = "verdicts" /\ pc' = [pc EXCEPT ![s] = "flush"]
        /\ tx' = [tx EXCEPT ![s] = tx'[s]]
        /\ tx'[s].state = [tx[s].state EXCEPT ![c] = state]
        /\ tx'[s].evidence = [tx[s].evidence EXCEPT ![c] = @ \union {entry}]
        /\ tx'[s].dirty = {c} /\ tx'[s].held = tx[s].held
        /\ tx'[s].moved = IF state # tx[s].state[c] THEN tx[s].moved \union {c} ELSE tx[s].moved
        /\ UNCHANGED <<cats, handset>>
    BY <1>5 DEF Judge, TypeOK, rows, owner
  <2>2. tx[s] \in Session /\ tx[s].state[c] \in CatalystState /\ \A d \in Catalysts : cats[d].state \in CatalystState
    BY DEF TypeOK, Session, Row
  <2>3. /\ tx[s].moved \subseteq tx[s].held
        /\ \A d \in Catalysts \ handset :
            /\ tx[s].state[d] = "confirmed" => Confirming(tx[s].evidence[d])
            /\ Climbs(cats[d].state, tx[s].state[d])
            /\ d \notin tx[s].moved => tx[s].state[d] = cats[d].state
    BY <2>1 DEF AheadInv, Running
  <2>4. c \notin handset => Climbs(cats[c].state, state)
    BY <2>2, <2>3, ApplyClimbs
  <2>5. state = "confirmed" => tx[s].state[c] = "confirmed" \/ Effective(v) = "confirmed"
    BY <2>2, ApplyConfirms
  <2>6. entry.verdict = v
    OBVIOUS
  <2> HIDE DEF state, entry
  <2>7. \A d \in Catalysts :
          /\ tx'[s].state[d] = IF d = c THEN state ELSE tx[s].state[d]
          /\ tx[s].evidence[d] \subseteq tx'[s].evidence[d]
          /\ entry \in tx'[s].evidence[c]
    BY <2>1, <2>2 DEF Session
  <2>8. \A d \in Catalysts \ handset :
          tx'[s].state[d] = "confirmed" => Confirming(tx'[s].evidence[d])
    BY <2>3, <2>5, <2>6, <2>7 DEF Confirming
  <2>9. \A d \in Catalysts \ handset :
          /\ Climbs(cats[d].state, tx'[s].state[d])
          /\ d \notin tx'[s].moved => tx'[s].state[d] = cats[d].state
    BY <2>1, <2>3, <2>4, <2>7
  <2>10. tx'[s].moved \subseteq tx'[s].dirty \union tx'[s].held
    BY <2>1, <2>3
  <2>11. pc'[s] = "flush" /\ \A t \in SweepId \ {s} : pc'[t] = pc[t] /\ tx'[t] = tx[t]
    BY <2>1 DEF TypeOK
  <2>12. cats' = cats /\ handset' = handset
    BY <2>1
  <2>. QED BY <2>8, <2>9, <2>10, <2>11, <2>12 DEF AheadInv, ConfirmedHasGrounds
<1>6. ASSUME NEW s \in SweepId, FetchNews(s) \/ Flush(s) \/ EvaluateThesis(s) \/ Notify(s)
      PROVE  AheadInv'
  <2>1. pc' = [pc EXCEPT ![s] = pc'[s]] /\ pc[s] \in Running
    BY <1>6 DEF FetchNews, Flush, EvaluateThesis, Notify, TypeOK, Running
  <2>2. /\ tx' = [tx EXCEPT ![s] = tx'[s]]
        /\ tx'[s].state = tx[s].state /\ tx'[s].evidence = tx[s].evidence
        /\ tx'[s].moved = tx[s].moved
    BY <1>6 DEF FetchNews, Flush, Flushed, EvaluateThesis, Notify, TypeOK
  <2>3. /\ tx'[s].dirty \union tx'[s].held = tx[s].dirty \union tx[s].held
        /\ pc'[s] # "flush" => tx'[s].dirty = {}
    BY <1>6, <2>1 DEF FetchNews, Flush, Flushed, EvaluateThesis, Notify, TypeOK, AheadInv
  <2>4. UNCHANGED <<cats, handset>>
    BY <1>6 DEF FetchNews, Flush, EvaluateThesis, Notify, rows, owner
  <2>. QED BY <2>1, <2>2, <2>3, <2>4 DEF AheadInv, ConfirmedHasGrounds, TypeOK
<1>7. ASSUME NEW s \in SweepId, Abort(s) \/ DeadlockVictim(s) PROVE AheadInv'
  <2>1. /\ pc' = [pc EXCEPT ![s] = "aborted"] /\ "aborted" \notin Running
        /\ tx' = [tx EXCEPT ![s] = NoSession] /\ UNCHANGED <<cats, handset>>
    BY <1>7 DEF Abort, DeadlockVictim, Finish, Running, rows, owner
  <2>. QED BY <2>1 DEF AheadInv, ConfirmedHasGrounds, TypeOK
<1>8. ASSUME NEW s \in SweepId, Commit(s) PROVE AheadInv'
  <2>1. \A t \in SweepId : pc'[t] \notin Running
    BY <1>8 DEF Commit, Finish, OneSweep, Running, TypeOK
  <2>2. /\ tx[s].moved \subseteq tx[s].held /\ handset' = handset
        /\ \A c \in Catalysts \ handset :
             tx[s].state[c] = "confirmed" => Confirming(tx[s].evidence[c])
        /\ \A c \in Catalysts \ handset : c \notin tx[s].moved => tx[s].state[c] = cats[c].state
    BY <1>8 DEF Commit, AheadInv, Running, owner
  <2>3. \A c \in Catalysts :
          /\ cats'[c].state = IF c \in tx[s].moved THEN tx[s].state[c] ELSE cats[c].state
          /\ cats'[c].evidence = IF c \in tx[s].held THEN tx[s].evidence[c] ELSE cats[c].evidence
    BY <1>8 DEF Commit
  <2>4. ConfirmedHasGrounds'
    BY <2>2, <2>3 DEF AheadInv, ConfirmedHasGrounds
  <2>. QED BY <2>1, <2>4 DEF AheadInv
<1>. QED
  BY <1>1, <1>2, <1>3, <1>4, <1>5, <1>6, <1>7, <1>8
     DEF Next, Scheduler, BeginLoop, BeginTask, vars

\* In one step the row of an untouched catalyst climbs or stays.
LEMMA LadderStep ==
  ASSUME ~ProposalsEnabled, TypeOK, AheadInv, [Next]_vars
  PROVE  \A c \in Catalysts \ handset' : Climbs(cats[c].state, cats'[c].state)
<1>1. CASE cats' = cats
  BY <1>1 DEF Climbs
<1>2. CASE Owner
  BY <1>2, OwnerMarks DEF Climbs
<1>3. ASSUME NEW s \in SweepId, Commit(s)
      PROVE  \A c \in Catalysts \ handset' : Climbs(cats[c].state, cats'[c].state)
  <2>1. handset' = handset /\ \A c \in Catalysts \ handset : Climbs(cats[c].state, tx[s].state[c])
    BY <1>3 DEF Commit, AheadInv, Running, owner
  <2>2. \A c \in Catalysts :
          cats'[c].state = IF c \in tx[s].moved THEN tx[s].state[c] ELSE cats[c].state
    BY <1>3 DEF Commit
  <2>. QED BY <2>1, <2>2 DEF Climbs
<1>4. ASSUME NEW s \in SweepId, Scheduler(s), ~Commit(s) PROVE cats' = cats
  BY <1>4 DEF Scheduler, BeginLoop, BeginTask, Begin, FetchNews, Judge, Flush, EvaluateThesis,
              Notify, Abort, DeadlockVictim, rows
<1>. QED
  BY <1>1, <1>2, <1>3, <1>4 DEF Next, List, LoopStopped, rows, vars

\* Swept by the loop alone, the stored state of a catalyst the owner never
\* touched only climbs the ladder, for any verdicts in any order
\* (catalysts.py:80-125, catalyst_repository.py:71-84).
THEOREM LoopClimbsLadder == ~ProposalsEnabled => (Spec => LadderHolds)
<1> SUFFICES ASSUME ~ProposalsEnabled PROVE Spec => LadderHolds
  OBVIOUS
<1>1. TypeOK /\ OneSweep /\ AheadInv /\ [Next]_vars => OneSweep' /\ AheadInv'
  BY OneSweepStep, AheadStep
<1>2. TypeOK /\ AheadInv /\ [Next]_vars =>
        [\A c \in Catalysts \ handset' : Climbs(cats[c].state, cats'[c].state)]_vars
  BY LadderStep
<1>. QED
  BY <1>1, <1>2, TypeCorrect, OneSweepInit, AheadInit, PTL DEF Spec, LadderHolds

\* Swept by the loop alone, a confirmed catalyst the owner never touched keeps
\* an entry that confirmed it (ml_adapter.py:67-84, catalyst_repository.py:71-84).
THEOREM LoopKeepsGrounds == ~ProposalsEnabled => (Spec => []ConfirmedHasGrounds)
<1> SUFFICES ASSUME ~ProposalsEnabled PROVE Spec => []ConfirmedHasGrounds
  OBVIOUS
<1>1. TypeOK /\ OneSweep /\ AheadInv /\ [Next]_vars => OneSweep' /\ AheadInv'
  BY OneSweepStep, AheadStep
<1>2. AheadInv => ConfirmedHasGrounds
  BY DEF AheadInv
<1>. QED
  BY <1>1, <1>2, TypeCorrect, OneSweepInit, AheadInit, PTL DEF Spec
=============================================================================
