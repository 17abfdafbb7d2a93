------------------------ MODULE ApprovalSweepProofs ------------------------
(***************************************************************************)
(* ApprovalSweep implements Sweep: whatever approvals hold and start, the  *)
(* sweeps and the rows behave as module Sweep lets them, so what is proved *)
(* of any sweeps holds of those that approvals start.  And the sweep of an *)
(* approval evaluates the thesis as approved.                              *)
(***************************************************************************)
EXTENDS ApprovalSweep, SweepProofs

\* What an approval does is to Sweep a BeginTask, an edit by the owner, or
\* nothing yet (api/v1/proposal.py:104-147, quant_proposal_repository.py:109-114).
LEMMA ApprovalSteps ==
  ASSUME TypeOK, NEW p \in Approvals, ApprovalStep(p)
  PROVE  Next \/ UNCHANGED vars
<1>1. ASSUME NEW type \in {"ADD", "UPDATE", "REMOVE"}, NEW r \in Quants \union Catalysts,
             Approve(p, type, r)
      PROVE  UNCHANGED vars
  BY <1>1 DEF Approve
<1>2. CASE StartTask(p)
  <2>1. begun + 1 \in SweepId
    BY <1>2, BoundsAssumption DEF StartTask, SweepId, TypeOK
  <2>2. Scheduler(begun + 1)
    BY <1>2 DEF StartTask, Scheduler
  <2> QED BY <2>1, <2>2 DEF Next
<1>3. CASE CommitApproval(p)
  <2> DEFINE r == approval[p].row
  <2>1. CASE r \in Quants /\ EditQuant(r)
    BY <2>1 DEF Next, Owner
  <2>2. CASE r \in Catalysts /\ EditCatalyst(r, TRUE, "unconfirmed", {})
    <3>1. "unconfirmed" \in CatalystState BY DEF CatalystState
    <3> QED BY <2>2, <3>1 DEF Next, Owner
  <2>3. ASSUME NEW enabled \in BOOLEAN, r \in Catalysts,
               EditCatalyst(r, enabled, cats[r].state, cats[r].evidence)
        PROVE  Next
    <3>1. cats[r].state \in CatalystState BY <2>3 DEF TypeOK, Row
    <3> QED BY <2>3, <3>1 DEF Next, Owner
  <2>4. r \in Catalysts => cats[r].enabled \in BOOLEAN
    BY DEF TypeOK, Row
  <2> QED BY <1>3, <2>1, <2>2, <2>3, <2>4 DEF CommitApproval
<1>4. CASE LoseApproval(p)
  BY <1>4 DEF LoseApproval
<1> QED BY <1>1, <1>2, <1>3, <1>4 DEF ApprovalStep

\* Every step of ApprovalSweep is a step of Sweep or changes none of its
\* variables (api/v1/proposal.py:104-147, scheduler_service.py:188-362).
LEMMA StepsOfSweep ==
  ASSUME TypeOK, [ApprovalNext]_approvalvars
  PROVE  [Next]_vars
<1>1. CASE List \/ LoopStopped
  BY <1>1 DEF Next
<1>2. CASE OwnerEdits
  <2>1. ASSUME NEW c \in Catalysts, NEW enabled \in BOOLEAN,
               EditCatalyst(c, enabled, cats[c].state, cats[c].evidence)
        PROVE  Next
    <3>1. cats[c].state \in CatalystState BY DEF TypeOK, Row
    <3> QED BY <2>1, <3>1 DEF Next, Owner
  <2>2. ASSUME NEW q \in Quants, EditQuant(q)
        PROVE  Next
    BY <2>2 DEF Next, Owner
  <2> QED BY <1>2, <2>1, <2>2 DEF OwnerEdits
<1>3. ASSUME NEW s \in SweepId, SweepStep(s)
      PROVE  Next
  <2>1. Scheduler(s)
    BY <1>3 DEF SweepStep, SweepGoesOn, Proceed, Scheduler
  <2> QED BY <2>1 DEF Next
<1>4. ASSUME NEW p \in Approvals, ApprovalStep(p)
      PROVE  [Next]_vars
  BY <1>4, ApprovalSteps
<1>5. CASE UNCHANGED approvalvars
  BY <1>5 DEF approvalvars
<1> QED BY <1>1, <1>2, <1>3, <1>4, <1>5 DEF ApprovalNext

\* The sweeps and the rows of ApprovalSweep behave as Sweep's: the approvals
\* add no behaviour to theirs
\* (api/v1/proposal.py:104-147, scheduler_service.py:188-362).
THEOREM ImplementsSweep == ApprovalSpec => Spec
<1>1. ApprovalInit => Init BY DEF ApprovalInit
<1>2. Init => TypeOK BY InitTyped
<1>3. TypeOK /\ [ApprovalNext]_approvalvars => [Next]_vars
  BY StepsOfSweep
<1>4. TypeOK /\ [Next]_vars => TypeOK'
  BY StepTyped
<1> QED BY <1>1, <1>2, <1>3, <1>4, PTL DEF ApprovalSpec, Spec

\* No article is judged twice for one catalyst by different sweeps, those of
\* approvals included (scheduler_service.py:234-238, :352-362).
THEOREM ApprovedNoRejudged == ApprovalSpec => []NoRejudgedArticle
BY ImplementsSweep, NoArticleRejudged, PTL

\* Only a committed sweep has left rows, those of approvals included
\* (scheduler_service.py:194-202, :352-362).
THEOREM ApprovedOnlyCommitted == ApprovalSpec => []OnlyCommittedSweepsLeaveRows
BY ImplementsSweep, OnlyCommittedRows, PTL

\* An alert repeats only after a newer evaluation found the signal off, the
\* sweeps of approvals included (scheduler_service.py:269-271, 291, :352-362).
THEOREM ApprovedRepeatAlert == ApprovalSpec => []RepeatAlertNeedsReset
BY ImplementsSweep, AlertsNeedReset, PTL

-----------------------------------------------------------------------------
(***************************************************************************)
(* What a step of the sweeps or the owner does to the sweeps under way, to *)
(* what they loaded, and to the evaluations of those that are done.        *)
(***************************************************************************)
\* Sweep s goes on with what it had loaded, or begins and loads the rows that
\* are enabled now.
Loads(s) ==
  \/ pc[s] \in Running /\ snap'[s] = snap[s]
  \/ /\ s = begun + 1 /\ begun' = s
     /\ UNCHANGED <<quants, cats>>
     /\ snap'[s].quants = quants
     /\ snap'[s].enabled = {c \in Catalysts : cats[c].enabled}

\* A sweep under way has the rows it loaded when it began
\* (scheduler_service.py:204-216).
LEMMA SweepsLoadOnce ==
  ASSUME TypeOK, [Next]_vars
  PROVE  /\ begun' \in Nat /\ begun <= begun'
         /\ \A s \in SweepId : pc'[s] \in Running => Loads(s)
<1>0. /\ begun \in Nat /\ pc \in [SweepId -> {"waiting"} \union Running \union Finished]
      /\ snap \in [SweepId -> Snapshot]
  BY BoundsAssumption DEF TypeOK
<1>1. CASE UNCHANGED <<begun, pc, snap>>
  BY <1>0, <1>1 DEF Loads
<1>2. CASE List \/ LoopStopped \/ UNCHANGED vars
  BY <1>1, <1>2 DEF List, LoopStopped, vars
<1>3. CASE Owner
  BY <1>1, <1>3 DEF Owner, EditCatalyst, EditQuant, EditThesis, DeleteThesis, EditChat, Request
\* A step of a sweep under way, which stays so or ends.
<1>4. ASSUME NEW s \in SweepId, pc[s] \in Running, begun' = begun,
             \A t \in SweepId \ {s} : pc'[t] = pc[t] /\ snap'[t] = snap[t],
             pc'[s] \in Running => snap'[s] = snap[s]
      PROVE  /\ begun' \in Nat /\ begun <= begun'
             /\ \A t \in SweepId : pc'[t] \in Running => Loads(t)
  BY <1>0, <1>4 DEF Loads
<1>5. ASSUME NEW s \in SweepId, NEW source \in {"loop", "task"}, Begin(s, source)
      PROVE  /\ begun' \in Nat /\ begun <= begun'
             /\ \A t \in SweepId : pc'[t] \in Running => Loads(t)
  <2>1. /\ s = begun + 1 /\ begun' = s /\ UNCHANGED <<quants, cats>>
        /\ \A t \in SweepId \ {s} : pc'[t] = pc[t] /\ snap'[t] = snap[t]
        /\ snap'[s].quants = quants
        /\ snap'[s].enabled = {c \in Catalysts : cats[c].enabled}
    BY <1>0, <1>5 DEF Begin, rows
  <2>. QED BY <1>0, <2>1 DEF Loads
<1>6. ASSUME NEW s \in SweepId, FetchNews(s) \/ Flush(s) \/ EvaluateThesis(s) \/ Notify(s)
      PROVE  /\ begun' \in Nat /\ begun <= begun'
             /\ \A t \in SweepId : pc'[t] \in Running => Loads(t)
  <2>1. /\ pc[s] \in Running /\ begun' = begun /\ snap' = snap
        /\ \A t \in SweepId \ {s} : pc'[t] = pc[t]
    BY <1>0, <1>6 DEF FetchNews, Flush, EvaluateThesis, Notify, Running
  <2>. QED BY <1>4, <2>1
<1>7. ASSUME NEW s \in SweepId, NEW c \in Catalysts, NEW a \in Articles, NEW v \in Verdicts,
             Judge(s, c, a, v)
      PROVE  /\ begun' \in Nat /\ begun <= begun'
             /\ \A t \in SweepId : pc'[t] \in Running => Loads(t)
  <2>1. /\ pc[s] \in Running /\ begun' = begun /\ snap' = snap
        /\ \A t \in SweepId \ {s} : pc'[t] = pc[t]
    BY <1>0, <1>7 DEF Judge, Running
  <2>. QED BY <1>4, <2>1
<1>8. ASSUME NEW s \in SweepId, Commit(s) \/ Abort(s) \/ DeadlockVictim(s)
      PROVE  /\ begun' \in Nat /\ begun <= begun'
             /\ \A t \in SweepId : pc'[t] \in Running => Loads(t)
  <2>1. pc[s] \in Running
    BY <1>8 DEF Commit, Abort, Running, DeadlockVictim, Deadlocked, WaitsFor
  <2>2. PICK how \in Finished : begun' = begun /\ Finish(s, how)
    BY <1>8 DEF Commit, Abort, DeadlockVictim, Finished
  <2>3. /\ pc'[s] = how /\ how \notin Running
        /\ \A t \in SweepId \ {s} : pc'[t] = pc[t] /\ snap'[t] = snap[t]
    BY <1>0, <2>2 DEF Finish, Finished, Running
  <2>. QED BY <1>4, <2>1, <2>2, <2>3
<1>. QED
  BY <1>2, <1>3, <1>5, <1>6, <1>7, <1>8 DEF Next, Scheduler, BeginLoop, BeginTask

\* A sweep that is done has committed its evaluation.
DoneInv == \A s \in SweepId : pc[s] = "done" => \E e \in evals : e.id = s

\* No sweep is done without its evaluation, and none of them is removed
\* (scheduler_service.py:276-283, 194-202).
LEMMA DoneStep ==
  ASSUME TypeOK, DoneInv, [Next]_vars
  PROVE  DoneInv'
<1>0. pc \in [SweepId -> {"waiting"} \union Running \union Finished]
  BY DEF TypeOK
<1>1. CASE UNCHANGED <<evals, pc>>
  BY <1>1 DEF DoneInv
<1>2. CASE List \/ LoopStopped \/ UNCHANGED vars
  BY <1>1, <1>2 DEF List, LoopStopped, vars, record
<1>3. CASE Owner
  BY <1>1, <1>3, OwnerOnlyTrims DEF record
\* A step that ends no sweep well.
<1>4. ASSUME NEW s \in SweepId, UNCHANGED evals, pc'[s] # "done",
             \A t \in SweepId \ {s} : pc'[t] = pc[t]
      PROVE  DoneInv'
  BY <1>4 DEF DoneInv
<1>5. ASSUME NEW s \in SweepId, NEW source \in {"loop", "task"}, Begin(s, source)
      PROVE  DoneInv'
  BY <1>0, <1>4, <1>5 DEF Begin, record
<1>6. ASSUME NEW s \in SweepId, FetchNews(s) \/ Flush(s) \/ EvaluateThesis(s) \/ Notify(s)
      PROVE  DoneInv'
  <2>1. UNCHANGED evals /\ pc'[s] # "done" /\ \A t \in SweepId \ {s} : pc'[t] = pc[t]
    BY <1>0, <1>6 DEF FetchNews, Flush, EvaluateThesis, Notify, record
  <2>. QED BY <1>4, <2>1
<1>7. ASSUME NEW s \in SweepId, NEW c \in Catalysts, NEW a \in Articles, NEW v \in Verdicts,
             Judge(s, c, a, v)
      PROVE  DoneInv'
  BY <1>0, <1>4, <1>7 DEF Judge, record
<1>8. ASSUME NEW s \in SweepId, Abort(s) \/ DeadlockVictim(s) PROVE DoneInv'
  BY <1>0, <1>4, <1>8 DEF Abort, DeadlockVictim, Finish, record
<1>9. ASSUME NEW s \in SweepId, Commit(s) PROVE DoneInv'
  <2>1. PICK new : new = [id |-> s, outcome |-> outcome[s]]
    OBVIOUS
  <2>2. new.id = s /\ evals' = evals \union {new} /\ \A t \in SweepId \ {s} : pc'[t] = pc[t]
    BY <1>0, <1>9, <2>1 DEF Commit, Finish
  <2>. QED BY <2>2 DEF DoneInv
<1>. QED
  BY <1>2, <1>3, <1>5, <1>6, <1>7, <1>8, <1>9 DEF Next, Scheduler, BeginLoop, BeginTask

-----------------------------------------------------------------------------
(***************************************************************************)
(* Type correctness of the requests.  A request is given the number of the *)
(* newest sweep when its task starts, so no two have the same.             *)
(***************************************************************************)
Change == [pc   : {"new", "open", "answered", "started", "undone", "unswept"},
           type : {"none", "ADD", "UPDATE", "REMOVE"},
           row  : {"none"} \union Quants \union Catalysts,
           task : Nat]

\* Request a, with n sweeps begun.
Orderly(a, n) ==
  /\ a \in Change
  /\ a.pc # "new" => a.type \in {"ADD", "UPDATE", "REMOVE"} /\ a.row \in Quants \union Catalysts
  /\ a.task <= n
  /\ (a.pc = "started") = (a.task # 0)

RequestsInv ==
  /\ approval \in [Approvals -> Change]
  /\ \A p \in Approvals : Orderly(approval[p], begun)
  /\ \A p, q \in Approvals : p # q /\ approval[p].task = approval[q].task => approval[p].task = 0
  /\ amended \subseteq Approvals

\* No request has been made, no sweep has begun.
LEMMA RequestsInit == ApprovalInit => RequestsInv
<1> SUFFICES ASSUME ApprovalInit PROVE RequestsInv
  OBVIOUS
<1>1. approval = [p \in Approvals |-> NewApproval] /\ begun = 0 /\ amended = {}
  BY DEF ApprovalInit, Init
<1>2. NewApproval \in Change /\ Orderly(NewApproval, 0) /\ NewApproval.task = 0
  BY DEF Orderly, NewApproval, Change
<1>. QED BY <1>1, <1>2 DEF RequestsInv

\* What a step of request p makes of it: a flushed change, a commit, a sweep
\* of its own, or an end.
Becomes(a, p) ==
  \/ \E type \in {"ADD", "UPDATE", "REMOVE"}, r \in Quants \union Catalysts :
       Approve(p, type, r) /\ a = [pc |-> "open", type |-> type, row |-> r, task |-> 0]
  \/ CommitApproval(p) /\ a = [approval[p] EXCEPT !.pc = "answered"]
  \/ StartTask(p) /\ a = [approval[p] EXCEPT !.pc = "started", !.task = begun + 1]
  \/ /\ LoseApproval(p)
     /\ \E how \in {"undone", "unswept"} : a = [approval[p] EXCEPT !.pc = how]

\* A step of a request changes that request only.
LEMMA OneRequest ==
  ASSUME RequestsInv, NEW p \in Approvals, ApprovalStep(p)
  PROVE  \E a : Becomes(a, p) /\ approval' = [approval EXCEPT ![p] = a]
<1>0. approval \in [Approvals -> Change]
  BY DEF RequestsInv
<1>1. ASSUME NEW type \in {"ADD", "UPDATE", "REMOVE"}, NEW r \in Quants \union Catalysts,
             Approve(p, type, r)
      PROVE  \E a : Becomes(a, p) /\ approval' = [approval EXCEPT ![p] = a]
  <2>1. PICK a : a = [pc |-> "open", type |-> type, row |-> r, task |-> 0]
    OBVIOUS
  <2>2. approval' = [approval EXCEPT ![p] = a]
    BY <1>1, <2>1 DEF Approve
  <2>3. Becomes(a, p)
    BY <1>1, <2>1, Zenon DEF Becomes
  <2>. QED BY <2>2, <2>3
<1>2. CASE CommitApproval(p)
  <2>1. PICK a : a = [approval[p] EXCEPT !.pc = "answered"]
    OBVIOUS
  <2>2. approval' = [approval EXCEPT ![p] = a]
    BY <1>0, <1>2, <2>1 DEF CommitApproval
  <2>3. Becomes(a, p)
    BY <1>2, <2>1, Zenon DEF Becomes
  <2>. QED BY <2>2, <2>3
<1>3. CASE StartTask(p)
  <2>1. PICK a : a = [approval[p] EXCEPT !.pc = "started", !.task = begun + 1]
    OBVIOUS
  <2>2. approval' = [approval EXCEPT ![p] = a]
    BY <1>0, <1>3, <2>1 DEF StartTask
  <2>3. Becomes(a, p)
    BY <1>3, <2>1, Zenon DEF Becomes
  <2>. QED BY <2>2, <2>3
<1>4. CASE LoseApproval(p)
  <2>1. PICK how \in {"undone", "unswept"} : approval' = [approval EXCEPT ![p].pc = how]
    BY <1>0, <1>4 DEF LoseApproval
  <2>2. PICK a : a = [approval[p] EXCEPT !.pc = how]
    OBVIOUS
  <2>3. approval' = [approval EXCEPT ![p] = a]
    BY <1>0, <2>1, <2>2
  <2>4. Becomes(a, p)
    BY <1>4, <2>2, Zenon DEF Becomes
  <2>. QED BY <2>3, <2>4
<1>. QED BY <1>1, <1>2, <1>3, <1>4 DEF ApprovalStep

\* Every step keeps each request in order, and its sweep its own.
LEMMA RequestsStep ==
  ASSUME TypeOK, RequestsInv, [ApprovalNext]_approvalvars
  PROVE  RequestsInv'
<1>0. begun \in Nat /\ begun' \in Nat /\ begun <= begun'
  BY StepsOfSweep, SweepsLoadOnce, BoundsAssumption DEF TypeOK
<1>1. \A p \in Approvals : Orderly(approval[p], begun')
  BY <1>0 DEF RequestsInv, Orderly, Change
<1>2. amended' \subseteq Approvals
  BY DEF ApprovalNext, approvalvars, RequestsInv
<1>3. CASE UNCHANGED approval
  BY <1>1, <1>2, <1>3 DEF RequestsInv
<1>4. ASSUME NEW p \in Approvals, ApprovalStep(p) PROVE RequestsInv'
  <2>1. PICK a : Becomes(a, p) /\ approval' = [approval EXCEPT ![p] = a]
    BY <1>4, OneRequest
  <2>2. PICK w : w = approval[p]
    OBVIOUS
  <2>3. w \in Change /\ Orderly(w, begun)
    BY <2>2 DEF RequestsInv
  <2>4. Orderly(a, begun') /\ (a.task = 0 \/ a.task = begun + 1)
    <3>1. ASSUME NEW type \in {"ADD", "UPDATE", "REMOVE"}, NEW r \in Quants \union Catalysts,
                 a = [pc |-> "open", type |-> type, row |-> r, task |-> 0]
          PROVE  Orderly(a, begun') /\ a.task = 0
      BY <1>0, <3>1 DEF Orderly, Change
    <3>2. CASE CommitApproval(p) /\ a = [w EXCEPT !.pc = "answered"]
      <4>1. w.pc = "open" /\ w.task = 0
        BY <2>2, <2>3, <3>2 DEF CommitApproval, Orderly
      <4>. QED BY <1>0, <2>3, <3>2, <4>1 DEF Orderly, Change
    <3>3. CASE StartTask(p) /\ a = [w EXCEPT !.pc = "started", !.task = begun + 1]
      <4>1. w.pc = "answered" /\ begun' = begun + 1
        BY <2>2, <3>3 DEF StartTask, BeginTask, Begin
      <4>2. /\ a.pc = "started" /\ a.task = begun + 1 /\ a.type = w.type /\ a.row = w.row
            /\ a \in Change
        <5>1. begun + 1 \in Nat
          BY <1>0
        <5>2. PICK n \in Nat : n = begun + 1
          BY <5>1
        <5>3. w \in Change /\ a = [w EXCEPT !.pc = "started", !.task = n]
          BY <2>3, <3>3, <5>2
        <5>. QED BY <5>2, <5>3 DEF Change
      <4>3. a.task # 0
        BY <1>0, <4>2
      <4>. QED BY <1>0, <2>3, <4>1, <4>2, <4>3 DEF Orderly
    <3>4. ASSUME NEW how \in {"undone", "unswept"}, LoseApproval(p), a = [w EXCEPT !.pc = how]
          PROVE  Orderly(a, begun') /\ a.task = 0
      <4>1. w.pc \in {"open", "answered"} /\ w.task = 0
        BY <2>2, <2>3, <3>4 DEF LoseApproval, InFlight, Orderly
      <4>. QED BY <1>0, <2>3, <3>4, <4>1 DEF Orderly, Change
    <3>. QED BY <2>1, <2>2, <3>1, <3>2, <3>3, <3>4 DEF Becomes
  <2>5. approval' \in [Approvals -> Change] /\ a \in Change
    BY <2>1, <2>4 DEF RequestsInv, Orderly
  <2>6. \A q \in Approvals : Orderly(approval'[q], begun')
    BY <1>1, <2>1, <2>4 DEF RequestsInv
  <2>7. \A q \in Approvals \ {p} : approval[q].task <= begun /\ approval[q].task \in Nat
    BY DEF RequestsInv, Orderly, Change
  <2>8. \A q \in Approvals \ {p} : approval'[q] = approval[q] /\ a.task = approval[q].task => a.task = 0
    BY <1>0, <2>1, <2>4, <2>7 DEF RequestsInv
  <2>9. \A q, r \in Approvals : q # r /\ approval'[q].task = approval'[r].task => approval'[q].task = 0
    <3>1. approval'[p] = a /\ \A q \in Approvals \ {p} : approval'[q] = approval[q]
      BY <2>1 DEF RequestsInv
    <3>. QED BY <2>8, <3>1 DEF RequestsInv
  <2>. QED BY <1>2, <2>5, <2>6, <2>9 DEF RequestsInv
<1>. QED BY <1>3, <1>4 DEF ApprovalNext, approvalvars

\* A request's row and change are known once it is made, and it has a sweep of
\* its own exactly when its background task has started
\* (api/v1/proposal.py:104-147).
THEOREM ApprovalTypeCorrect == ApprovalSpec => []ApprovalTypeOK
<1>1. TypeOK /\ RequestsInv => ApprovalTypeOK
  BY BoundsAssumption DEF RequestsInv, Orderly, ApprovalTypeOK, Change, TypeOK
<1>2. ApprovalSpec => []TypeOK
  BY ImplementsSweep, TypeCorrect, PTL
<1>. QED BY <1>1, <1>2, RequestsInit, RequestsStep, PTL DEF ApprovalSpec

-----------------------------------------------------------------------------
(***************************************************************************)
(* The sweep of an approval evaluates the thesis as approved.  While a     *)
(* request is open its row is locked, or not there for others to edit, so  *)
(* its commit makes the row what it asks for.  The row stays that way, or  *)
(* the request is amended; so a sweep that begins from then on loads it    *)
(* that way, and has what it loaded until it ends.                         *)
(***************************************************************************)
OpenStands(p) ==
  approval[p].pc = "open" =>
    /\ AsApproved(approval[p].type, ~Enabled(approval[p].row))
    /\ \A q \in Approvals \ {p} : ~Claims(q, approval[p].row)

CommittedStands(p) ==
  p \notin amended /\ approval[p].pc \in {"answered", "started"} =>
    AsApproved(approval[p].type, Enabled(approval[p].row))

SweepsStand(p) ==
  p \notin amended /\ approval[p].pc = "started" =>
    \A s \in SweepId : pc[s] \in Running /\ approval[p].task <= s =>
      AsApproved(approval[p].type, Counts(s, approval[p].row))

StandInv ==
  /\ \A p \in Approvals : OpenStands(p) /\ CommittedStands(p) /\ SweepsStand(p)
  /\ \A s \in SweepId : pc[s] \in Running => s <= begun

\* No step of a sweep switches a row (catalyst_repository.py:71-84).
LEMMA SweepsSwitchNothing ==
  ASSUME NEW s \in SweepId, SweepStep(s) \/ BeginTask(s)
  PROVE  quants' = quants /\ \A c \in Catalysts : cats'[c].enabled = cats[c].enabled
<1>1. CASE Commit(s)
  BY <1>1 DEF Commit
<1>2. CASE UNCHANGED rows
  BY <1>2 DEF rows
<1>3. ASSUME Abort(s) \/ DeadlockVictim(s) \/ FetchNews(s) \/ Flush(s) \/ EvaluateThesis(s)
             \/ Notify(s) \/ BeginLoop(s) \/ BeginTask(s)
      PROVE  UNCHANGED rows
  BY <1>3 DEF Abort, DeadlockVictim, FetchNews, Flush, EvaluateThesis, Notify,
              BeginLoop, BeginTask, Begin
<1>4. ASSUME NEW c \in Catalysts, NEW a \in Articles, NEW v \in Verdicts, Judge(s, c, a, v)
      PROVE  UNCHANGED rows
  BY <1>4 DEF Judge
<1>. QED BY <1>1, <1>2, <1>3, <1>4 DEF SweepStep, SweepGoesOn, Proceed

\* The commit of an approval switches its own row, if any
\* (proposal_service.py:113-140, 165-194).
LEMMA CommitSwitches ==
  ASSUME TypeOK, NEW p \in Approvals, NEW r, r = approval[p].row, CommitApproval(p),
         AsApproved(approval[p].type, ~Enabled(r)),
         approval[p].type \in {"ADD", "UPDATE", "REMOVE"}
  PROVE  /\ AsApproved(approval[p].type, Enabled(r)')
         /\ \A x : x # r => (Enabled(x)' <=> Enabled(x))
<1>1. CASE r \in Quants /\ EditQuant(r)
  <2>1. r \notin Catalysts /\ cats' = cats
    BY <1>1, RowsAssumption DEF EditQuant
  <2>2. quants' = IF r \in quants THEN quants \ {r} ELSE quants \union {r}
    BY <1>1 DEF EditQuant
  <2>. QED BY <2>1, <2>2 DEF Enabled, AsApproved
<1>2. ASSUME NEW on \in BOOLEAN, NEW state, NEW evidence, r \in Catalysts,
             EditCatalyst(r, on, state, evidence), AsApproved(approval[p].type, on)
      PROVE  /\ AsApproved(approval[p].type, Enabled(r)')
             /\ \A x : x # r => (Enabled(x)' <=> Enabled(x))
  <2>1. quants' = quants /\ r \notin quants
    BY <1>2, RowsAssumption DEF EditCatalyst, TypeOK
  <2>2. /\ cats'[r].enabled = on
        /\ \A c \in Catalysts \ {r} : cats'[c] = cats[c]
    BY <1>2 DEF EditCatalyst, TypeOK
  <2>3. Enabled(r)' <=> on
    BY <1>2, <2>1, <2>2 DEF Enabled
  <2>4. \A x : x # r => (Enabled(x)' <=> Enabled(x))
    BY <2>1, <2>2 DEF Enabled
  <2>. QED BY <1>2, <2>3, <2>4 DEF AsApproved
<1>3. r \in Catalysts => cats[r].enabled \in BOOLEAN
  BY DEF TypeOK, Row
<1>. QED BY <1>1, <1>2, <1>3 DEF CommitApproval, AsApproved

\* Nobody else switches the row of an open request: owners and approvals wait
\* for its lock, and sweeps switch no row.
LEMMA OpenRowsStand ==
  ASSUME TypeOK, RequestsInv, StandInv, ApprovalNext,
         NEW p \in Approvals, approval[p].pc = "open", approval'[p] = approval[p],
         NEW r, r = approval[p].row
  PROVE  Enabled(r)' <=> Enabled(r)
<1>1. CASE UNCHANGED <<quants, cats>>
  BY <1>1 DEF Enabled
<1>2. CASE List \/ LoopStopped
  BY <1>1, <1>2 DEF List, LoopStopped, rows
<1>3. CASE OwnerEdits
  <2>1. ASSUME NEW c \in Catalysts, NEW enabled \in BOOLEAN, Unclaimed(c),
               EditCatalyst(c, enabled, cats[c].state, cats[c].evidence)
        PROVE  Enabled(r)' <=> Enabled(r)
    <3>1. r # c
      BY <2>1 DEF Unclaimed, Claims
    <3>. QED BY <2>1, <3>1 DEF EditCatalyst, Enabled, TypeOK
  <2>2. ASSUME NEW q \in Quants, Unclaimed(q), EditQuant(q)
        PROVE  Enabled(r)' <=> Enabled(r)
    <3>1. r # q
      BY <2>2 DEF Unclaimed, Claims
    <3>. QED BY <2>2, <3>1 DEF EditQuant, Enabled
  <2>. QED BY <1>3, <2>1, <2>2 DEF OwnerEdits
<1>4. ASSUME NEW s \in SweepId, SweepStep(s) \/ BeginTask(s) PROVE Enabled(r)' <=> Enabled(r)
  BY <1>4, SweepsSwitchNothing DEF Enabled
<1>5. ASSUME NEW q \in Approvals, ApprovalStep(q) PROVE Enabled(r)' <=> Enabled(r)
  <2>1. CASE StartTask(q)
    <3>1. begun + 1 \in SweepId
      BY <2>1, BoundsAssumption DEF StartTask, SweepId, TypeOK
    <3>. QED BY <1>4, <2>1, <3>1 DEF StartTask
  <2>2. CASE CommitApproval(q)
    <3>1. q # p
      BY <2>2 DEF CommitApproval, RequestsInv, Change
    <3>2. PICK x : x = approval[q].row
      OBVIOUS
    <3>3. /\ approval[q].pc = "open" /\ AsApproved(approval[q].type, ~Enabled(x)) /\ x # r
          /\ approval[q].type \in {"ADD", "UPDATE", "REMOVE"}
      BY <2>2, <3>1, <3>2 DEF CommitApproval, StandInv, OpenStands, Claims, RequestsInv, Orderly
    <3>. QED BY <2>2, <3>2, <3>3, CommitSwitches
  <2>3. ASSUME NEW type \in {"ADD", "UPDATE", "REMOVE"}, NEW x \in Quants \union Catalysts,
               Approve(q, type, x)
        PROVE  UNCHANGED <<quants, cats>>
    BY <2>3 DEF Approve, vars
  <2>4. CASE LoseApproval(q)
    BY <1>1, <2>4 DEF LoseApproval, vars
  <2>. QED BY <1>1, <1>5, <2>1, <2>2, <2>3, <2>4 DEF ApprovalStep
<1>. QED BY <1>2, <1>3, <1>4, <1>5 DEF ApprovalNext

\* Nothing has been asked for, nothing is under way.
LEMMA StandInit == ApprovalInit => StandInv
BY DEF ApprovalInit, Init, NewApproval, StandInv, OpenStands, CommittedStands, SweepsStand, Running

\* A request whose row is switched after its commit is amended.
LEMMA AmendedIfSwitched ==
  ASSUME ApprovalNext, NEW p \in Approvals \ amended', NEW r, r = approval[p].row,
         r = approval'[p].row, approval[p].pc \in {"answered", "started"}
  PROVE  Enabled(r)' <=> Enabled(r)
BY DEF ApprovalNext, Enabled

\* Each step keeps open rows locked, committed ones as approved, and the sweeps
\* that began since in line with them.
LEMMA StandStep ==
  ASSUME TypeOK, RequestsInv, StandInv, [ApprovalNext]_approvalvars
  PROVE  StandInv'
<1>1. CASE UNCHANGED approvalvars
  <2>1. UNCHANGED <<quants, cats, pc, snap, begun, approval, amended>>
    BY <1>1 DEF approvalvars, vars
  <2>. QED
    BY <2>1 DEF StandInv, OpenStands, CommittedStands, SweepsStand, Enabled, Counts, Claims
<1>2. CASE ApprovalNext
  <2>0. /\ begun \in Nat /\ begun' \in Nat /\ begun <= begun'
        /\ \A s \in SweepId : pc'[s] \in Running => Loads(s)
        /\ amended \subseteq amended'
    BY <1>2, StepsOfSweep, SweepsLoadOnce, BoundsAssumption DEF TypeOK, ApprovalNext
  <2>1. \A s \in SweepId : pc'[s] \in Running => s <= begun'
    BY <2>0 DEF Loads, StandInv, SweepId
  <2>2. approval' \in [Approvals -> Change] /\ \A p \in Approvals : Orderly(approval'[p], begun')
    BY <1>2, RequestsStep DEF RequestsInv
  \* How request p got to where it is.
  <2>3. ASSUME NEW p \in Approvals
        PROVE  \/ approval'[p] = approval[p]
               \/ ApprovalStep(p) /\ Becomes(approval'[p], p)
    <3>1. ASSUME NEW q \in Approvals, ApprovalStep(q)
          PROVE  approval'[p] = approval[p] \/ (ApprovalStep(p) /\ Becomes(approval'[p], p))
      <4>1. PICK a : Becomes(a, q) /\ approval' = [approval EXCEPT ![q] = a]
        BY <3>1, OneRequest
      <4>. QED BY <3>1, <4>1 DEF RequestsInv
    <3>. QED BY <1>2, <3>1 DEF ApprovalNext
  <2>4. ASSUME NEW p \in Approvals, NEW a, a = approval'[p], NEW r, r = a.row,
               NEW w, w = approval[p]
        PROVE  OpenStands(p)' /\ CommittedStands(p)' /\ SweepsStand(p)'
    <3>0. w \in Change /\ a \in Change /\ (a.pc # "new" => r \in Quants \union Catalysts)
      BY <2>2, <2>4 DEF RequestsInv, Orderly
    \* What a sweep has loaded that began after the commit.
    <3>1. ASSUME NEW s \in SweepId, pc'[s] \in Running, a.task <= s, a.type = w.type, w.row = r,
                 p \notin amended,
                 \/ w.pc = "started" /\ a = w
                 \/ w.pc = "answered" /\ a.task = begun + 1
          PROVE  AsApproved(a.type, Counts(s, r)')
      <4>1. CASE pc[s] \in Running /\ snap'[s] = snap[s]
        <5>1. s <= begun /\ w.pc = "started" /\ a = w
          BY <2>0, <3>1, <4>1 DEF StandInv, SweepId
        <5>2. Counts(s, r)' <=> Counts(s, r)
          BY <4>1 DEF Counts
        <5>3. AsApproved(w.type, Counts(s, r))
          BY <2>4, <3>1, <4>1, <5>1 DEF StandInv, SweepsStand
        <5>. QED BY <3>1, <5>2, <5>3 DEF AsApproved
      <4>2. CASE /\ snap'[s].quants = quants
                 /\ snap'[s].enabled = {c \in Catalysts : cats[c].enabled}
        <5>1. Counts(s, r)' <=> Enabled(r)
          BY <4>2 DEF Counts, Enabled
        <5>2. AsApproved(w.type, Enabled(r))
          BY <2>4, <3>1 DEF StandInv, CommittedStands
        <5>. QED BY <3>1, <5>1, <5>2 DEF AsApproved
      <4>. QED BY <2>0, <3>1, <4>1, <4>2 DEF Loads
    <3>2. ASSUME w.pc \in {"answered", "started"}, p \notin amended', w.row = r, a.type = w.type
          PROVE  AsApproved(a.type, Enabled(r)')
      <4>1. Enabled(r)' <=> Enabled(r)
        BY <1>2, <2>4, <3>2, AmendedIfSwitched
      <4>2. AsApproved(w.type, Enabled(r))
        BY <2>0, <2>4, <3>2 DEF StandInv, CommittedStands
      <4>. QED BY <3>2, <4>1, <4>2 DEF AsApproved
    <3>3. CASE a = w
      <4>1. OpenStands(p)'
        <5>1. SUFFICES ASSUME a.pc = "open"
                       PROVE  /\ AsApproved(a.type, ~Enabled(r)')
                              /\ \A q \in Approvals \ {p} : ~Claims(q, r)'
          BY <2>4 DEF OpenStands, Claims
        <5>2. Enabled(r)' <=> Enabled(r)
          BY <1>2, <2>4, <3>3, <5>1, OpenRowsStand
        <5>3. AsApproved(a.type, ~Enabled(r)) /\ \A q \in Approvals \ {p} : ~Claims(q, r)
          BY <2>4, <3>3, <5>1 DEF StandInv, OpenStands
        <5>4. ASSUME NEW q \in Approvals \ {p}, Claims(q, r)' PROVE FALSE
          <6>1. PICK b : b = approval'[q]
            OBVIOUS
          <6>2. b.pc = "open" /\ b.row = r
            BY <5>4, <6>1 DEF Claims
          <6>3. Becomes(b, q)
            BY <2>3, <5>3, <6>1, <6>2 DEF Claims
          <6>4. approval[q] \in Change
            BY DEF RequestsInv
          <6>5. PICK type \in {"ADD", "UPDATE", "REMOVE"}, x \in Quants \union Catalysts :
                  /\ Approve(q, type, x)
                  /\ b = [pc |-> "open", type |-> type, row |-> x, task |-> 0]
            BY <6>2, <6>3, <6>4 DEF Becomes, Change
          <6>6. Unclaimed(r)
            BY <6>2, <6>5 DEF Approve
          <6>. QED BY <2>4, <3>3, <5>1, <6>6 DEF Unclaimed, Claims
        <5>. QED BY <5>2, <5>3, <5>4 DEF AsApproved
      <4>2. CommittedStands(p)'
        BY <2>4, <3>2, <3>3 DEF CommittedStands
      <4>3. SweepsStand(p)'
        <5>1. \A s \in SweepId : p \notin amended' /\ a.pc = "started" /\ pc'[s] \in Running /\ a.task <= s =>
                AsApproved(a.type, Counts(s, r)')
          BY <2>0, <2>4, <3>1, <3>3
        <5>. QED BY <2>4, <5>1 DEF SweepsStand, Counts
      <4>. QED BY <4>1, <4>2, <4>3
    <3>4. CASE ApprovalStep(p) /\ Becomes(a, p)
      <4>1. ASSUME NEW type \in {"ADD", "UPDATE", "REMOVE"}, NEW x \in Quants \union Catalysts,
                   Approve(p, type, x), a = [pc |-> "open", type |-> type, row |-> x, task |-> 0]
            PROVE  OpenStands(p)' /\ CommittedStands(p)' /\ SweepsStand(p)'
        <5>1. a.pc = "open" /\ a.type = type /\ r = x
          BY <2>4, <4>1
        <5>2. UNCHANGED <<quants, cats>> /\ Unclaimed(r)
          BY <4>1, <5>1 DEF Approve, vars
        <5>3. AsApproved(type, ~Enabled(r)')
          BY <4>1, <5>1, <5>2 DEF Approve, AsApproved, Enabled
        <5>4. \A q \in Approvals \ {p} : ~Claims(q, r)'
          BY <4>1, <5>2 DEF Approve, Unclaimed, Claims, RequestsInv
        <5>. QED
          BY <2>4, <5>1, <5>3, <5>4 DEF OpenStands, CommittedStands, SweepsStand, Claims
      <4>2. CASE CommitApproval(p) /\ a = [w EXCEPT !.pc = "answered"]
        <5>1. a.pc = "answered" /\ a.type = w.type /\ w.row = r /\ w.pc = "open"
          BY <2>4, <3>0, <4>2 DEF Change, CommitApproval
        <5>2. AsApproved(w.type, ~Enabled(r)) /\ w.type \in {"ADD", "UPDATE", "REMOVE"}
          BY <2>4, <5>1 DEF StandInv, OpenStands, RequestsInv, Orderly
        <5>3. AsApproved(a.type, Enabled(r)')
          BY <2>4, <4>2, <5>1, <5>2, CommitSwitches
        <5>. QED BY <2>4, <5>1, <5>3 DEF OpenStands, CommittedStands, SweepsStand
      <4>3. CASE StartTask(p) /\ a = [w EXCEPT !.pc = "started", !.task = begun + 1]
        <5>1. /\ a.pc = "started" /\ a.type = w.type /\ w.row = r /\ w.pc = "answered"
              /\ a.task = begun + 1
          BY <2>0, <2>4, <3>0, <4>3 DEF Change, StartTask
        <5>2. CommittedStands(p)'
          BY <2>4, <3>2, <5>1 DEF CommittedStands
        <5>3. SweepsStand(p)'
          BY <2>0, <2>4, <3>1, <5>1 DEF SweepsStand, Counts
        <5>. QED BY <2>4, <5>1, <5>2, <5>3 DEF OpenStands
      <4>4. ASSUME NEW how \in {"undone", "unswept"}, a = [w EXCEPT !.pc = how]
            PROVE  OpenStands(p)' /\ CommittedStands(p)' /\ SweepsStand(p)'
        <5>1. a.pc = how
          BY <3>0, <4>4 DEF Change
        <5>. QED BY <2>4, <5>1 DEF OpenStands, CommittedStands, SweepsStand
      <4>. QED BY <2>4, <3>4, <4>1, <4>2, <4>3, <4>4 DEF Becomes
    <3>. QED BY <2>3, <2>4, <3>3, <3>4
  <2>. QED BY <2>1, <2>4 DEF StandInv
<1>. QED BY <1>1, <1>2

\* The sweep of an approval, and every sweep that begins after it, counts the
\* rows as approved unless they were switched again, and no older sweep's
\* evaluation is the newest once it has committed (api/v1/proposal.py:113-114,
\* quant_proposal_repository.py:109-114, scheduler_service.py:352-362).
THEOREM ApprovalEvaluated == ApprovalSpec => []ApprovalIsEvaluated
<1>1. TypeOK /\ RequestsInv /\ StandInv /\ DoneInv /\ AlertsInv => ApprovalIsEvaluated
  <2> SUFFICES ASSUME TypeOK, RequestsInv, StandInv, DoneInv, AlertsInv,
                      NEW p \in Approvals, approval[p].pc = "started"
               PROVE  /\ p \notin amended => \A s \in SweepId :
                           pc[s] \in Running /\ approval[p].task <= s =>
                             AsApproved(approval[p].type, Counts(s, approval[p].row))
                      /\ pc[approval[p].task] = "done" =>
                           LatestEvaluation.id >= approval[p].task
    BY DEF ApprovalIsEvaluated
  <2>1. p \notin amended => \A s \in SweepId :
          pc[s] \in Running /\ approval[p].task <= s =>
            AsApproved(approval[p].type, Counts(s, approval[p].row))
    BY DEF StandInv, SweepsStand
  <2>2. ASSUME pc[approval[p].task] = "done"
        PROVE  LatestEvaluation.id >= approval[p].task
    <3>1. approval[p].task \in SweepId
      BY BoundsAssumption DEF RequestsInv, Orderly, Change, SweepId, TypeOK
    <3>2. PICK e \in evals : e.id = approval[p].task
      BY <2>2, <3>1 DEF DoneInv
    <3>3. PICK last : last = LatestEvaluation
      OBVIOUS
    <3>4. last \in evals /\ \A f \in evals : f.id <= last.id
      BY <3>2, <3>3 DEF AlertsInv, LatestEvaluation
    <3>5. last.id \in SweepId /\ e.id \in SweepId /\ e.id <= last.id
      BY <3>2, <3>4 DEF TypeOK
    <3>. QED BY <3>2, <3>3, <3>5 DEF SweepId
  <2>. QED BY <2>1, <2>2
<1>2. Init => DoneInv
  BY DEF Init, DoneInv
<1>3. TypeOK /\ DoneInv /\ [Next]_vars => DoneInv'
  BY DoneStep
<1>4. TypeOK /\ RowsInv /\ [Next]_vars => RowsInv'
  BY RowsStep
<1>5. TypeOK /\ RowsInv /\ AlertsInv /\ [Next]_vars => AlertsInv'
  BY AlertsStep
<1>6. ApprovalSpec => [](TypeOK /\ DoneInv /\ AlertsInv)
  BY <1>2, <1>3, <1>4, <1>5, ImplementsSweep, TypeCorrect, RowsInit, AlertsInit, PTL DEF Spec
<1>7. TypeOK /\ RequestsInv /\ StandInv /\ [ApprovalNext]_approvalvars => StandInv'
  BY StandStep
<1>8. TypeOK /\ RequestsInv /\ [ApprovalNext]_approvalvars => RequestsInv'
  BY RequestsStep
<1>. QED
  BY <1>1, <1>6, <1>7, <1>8, RequestsInit, StandInit, PTL DEF ApprovalSpec
=============================================================================
