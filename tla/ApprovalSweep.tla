--------------------------- MODULE ApprovalSweep ---------------------------
(***************************************************************************)
(* Approvals of proposals and the sweeps they start (api/v1/proposal.py).  *)
(* The service changes the row in the request's session, which locks it;   *)
(* the proposal's repository commits that session; and only then does the  *)
(* route add sweep_thesis to the response's background tasks, which read   *)
(* the rows anew in a session of their own.  Whatever else sweeps or edits *)
(* the thesis runs between any two of these steps.                         *)
(*                                                                         *)
(* The sweeps, the rows and the owner's other requests are module Sweep's. *)
(* An approval adds or removes a row or re-words a catalyst; an update of  *)
(* a condition, and the removal of a row already removed, change nothing   *)
(* there and are left out, and so are the proposal's own row and its       *)
(* rivals, which no sweep writes: they are module ProposalLifecycle's.     *)
(***************************************************************************)
EXTENDS Sweep, FiniteSets

CONSTANT Approvals     \* approval requests, each made once at most

ASSUME RowsAssumption == Quants \intersect Catalysts = {}

VARIABLES
  approval,  \* each request: where it is, its change, its sweep
  amended    \* history: requests whose row was switched again after they committed

requestvars  == <<vars, approval>>
approvalvars == <<vars, approval, amended>>

NewApproval == [pc |-> "new", type |-> "none", row |-> "none", task |-> 0]

ApprovalInit == Init /\ approval = [p \in Approvals |-> NewApproval] /\ amended = {}

Enabled(r) == r \in quants \/ (r \in Catalysts /\ cats[r].enabled)

\* Slip: the repository only flushes and leaves the commit to the session's
\* end, after the background task.
ClaimsUntilSwept(p, r) ==
  /\ approval[p].row = r
  /\ \/ approval[p].pc \in {"open", "answered"}
     \/ approval[p].pc = "started" /\ pc[approval[p].task] \in Running

\* The request p has changed row r, or is about to insert it, and has not
\* committed.
Claims(p, r) == approval[p].pc = "open" /\ approval[p].row = r

Unclaimed(r) == \A p \in Approvals : ~Claims(p, r)

InFlight(p) == approval[p].pc \in {"open", "answered"}

\* Bounds kept free for the commits and the sweeps of the requests in flight.
RoomForRequest == edits + Cardinality({p \in Approvals : approval[p].pc = "open"}) < MaxEdits
RoomForSweep   == begun + Cardinality({p \in Approvals : InFlight(p)}) < MaxSweeps

-----------------------------------------------------------------------------
\* The service has changed the row and flushed; an UPDATE or a REMOVE has
\* waited for the row's lock and holds it now.
Approve(p, type, r) ==
  /\ approval[p].pc = "new" /\ ProposalsEnabled
  /\ RoomForRequest /\ RoomForSweep
  /\ type = "ADD" => ~Enabled(r)
  /\ type = "UPDATE" => r \in Catalysts
  /\ type = "REMOVE" => Enabled(r)
  /\ Unclaimed(r) /\ (r \in Catalysts => ~Locked(r))
  /\ approval' = [approval EXCEPT ![p] = [pc |-> "open", type |-> type, row |-> r, task |-> 0]]
  /\ UNCHANGED vars

\* approve_quant_proposal and approve_catalyst_proposal of the repositories
\* commit the row with its proposal; the response is on its way.
CommitApproval(p) ==
  LET r == approval[p].row IN
  /\ approval[p].pc = "open"
  /\ \/ r \in Quants /\ EditQuant(r)
     \/ r \in Catalysts /\ approval[p].type = "ADD" /\ EditCatalyst(r, TRUE, "unconfirmed", {})
     \/ r \in Catalysts /\ approval[p].type = "UPDATE"
          /\ EditCatalyst(r, cats[r].enabled, cats[r].state, cats[r].evidence)
     \/ r \in Catalysts /\ approval[p].type = "REMOVE"
          /\ EditCatalyst(r, FALSE, cats[r].state, cats[r].evidence)
  /\ approval' = [approval EXCEPT ![p].pc = "answered"]

\* Slip: the task does not wait for the commit.
StartTaskEarly(p) ==
  /\ InFlight(p) /\ begun < MaxSweeps
  /\ BeginTask(begun + 1)
  /\ approval' = [approval EXCEPT ![p].pc = "started", ![p].task = begun + 1]

\* Slip: the task is given the number of the sweep before it.
StartTaskMisnumbered(p) ==
  /\ approval[p].pc = "answered" /\ begun < MaxSweeps
  /\ BeginTask(begun + 1)
  /\ approval' = [approval EXCEPT ![p].pc = "started", ![p].task = begun]

\* The background task: sweep_thesis in a session of its own.
StartTask(p) ==
  /\ approval[p].pc = "answered" /\ begun < MaxSweeps
  /\ BeginTask(begun + 1)
  /\ approval' = [approval EXCEPT ![p].pc = "started", ![p].task = begun + 1]

\* The request fails before its commit, which undoes it, or the process dies
\* after it, and the sweep is never started.
LoseApproval(p) ==
  /\ InFlight(p)
  /\ approval' = [approval EXCEPT ![p].pc = IF @ = "open" THEN "undone" ELSE "unswept"]
  /\ UNCHANGED vars

-----------------------------------------------------------------------------
\* A flush waits for the row lock of an approval too.
SweepGoesOn(s) == (\A c \in tx[s].dirty : Unclaimed(c)) /\ Proceed(s)

SweepStep(s) ==
  \/ RoomForSweep /\ BeginLoop(s)
  \/ \E c \in Catalysts, a \in Articles, v \in Verdicts : Judge(s, c, a, v)
  \/ SweepGoesOn(s) \/ Abort(s)

\* The owner's own edits of rows, which wait for those of the approvals.
OwnerEdits ==
  /\ RoomForRequest
  /\ \/ \E c \in Catalysts, enabled \in BOOLEAN :
          Unclaimed(c) /\ EditCatalyst(c, enabled, cats[c].state, cats[c].evidence)
     \/ \E q \in Quants : Unclaimed(q) /\ EditQuant(q)

ApprovalStep(p) ==
  \/ \E type \in {"ADD", "UPDATE", "REMOVE"}, r \in Quants \union Catalysts : Approve(p, type, r)
  \/ CommitApproval(p) \/ StartTask(p) \/ LoseApproval(p)

ApprovalNext ==
  /\ \/ (List \/ LoopStopped \/ OwnerEdits) /\ UNCHANGED approval
     \/ \E s \in SweepId : SweepStep(s) /\ UNCHANGED approval
     \/ \E p \in Approvals : ApprovalStep(p)
  /\ amended' = amended \union {p \in Approvals :
       /\ approval[p].pc \in {"answered", "started"}
       /\ Enabled(approval[p].row)' # Enabled(approval[p].row)}

ApprovalSpec == ApprovalInit /\ [][ApprovalNext]_approvalvars

(***************************************************************************)
(* Awaits end, a request's session is committed or rolled back, and the    *)
(* event loop runs a response's task unless the process dies.              *)
(***************************************************************************)
FairApprovalSpec ==
  /\ ApprovalSpec
  /\ \A s \in SweepId : WF_requestvars(SweepGoesOn(s) /\ UNCHANGED approval)
  /\ \A p \in Approvals : /\ WF_requestvars(CommitApproval(p) \/ LoseApproval(p))
                          /\ WF_requestvars(StartTask(p) \/ LoseApproval(p))

-----------------------------------------------------------------------------
\* Requests stay in their types, and each has a sweep of its own once its
\* background task has started.
ApprovalTypeOK ==
  /\ \A p \in Approvals :
       LET a == approval[p] IN
       /\ a.pc \in {"new", "open", "answered", "started", "undone", "unswept"}
       /\ a.pc # "new" => /\ a.type \in {"ADD", "UPDATE", "REMOVE"}
                          /\ a.row \in Quants \union Catalysts
       /\ a.task \in 0..begun
       /\ (a.pc = "started") = (a.task # 0)
       /\ \A q \in Approvals \ {p} : a.task = approval[q].task => a.task = 0
  /\ amended \subseteq Approvals

\* Sweep s loaded row r.
Counts(s, r) == r \in snap[s].quants \union snap[s].enabled

\* A row that is on is what a change of this type asks for.
AsApproved(type, on) == (type = "ADD" => on) /\ (type = "REMOVE" => ~on)

\* The sweep that an approval starts, and every sweep that begins after it,
\* evaluates the thesis as approved, unless a later request switched the row
\* again; and once that sweep has committed, no sweep that loaded the thesis
\* before it is the one the dashboard shows, however late it commits ("so the
\* dashboard reflects the new conditions", scheduler_service.py:353-355).
ApprovalIsEvaluated ==
  \A p \in Approvals :
    LET a == approval[p] IN
    a.pc = "started" =>
      /\ p \notin amended => \A s \in SweepId :
           pc[s] \in Running /\ a.task <= s => AsApproved(a.type, Counts(s, a.row))
      /\ pc[a.task] = "done" => LatestEvaluation.id >= a.task

\* Every sweep and every approval ends, whichever of them fails, overlaps or
\* waits for another's row: an approval holds its row no longer than to its
\* own commit, so the sweep it starts never waits for it
\* (quant_proposal_repository.py:109-114, catalyst_proposal_repository.py:115-120).
ApprovalsEnd ==
  /\ \A s \in SweepId : pc[s] \in Running ~> pc[s] \in Finished
  /\ \A p \in Approvals : InFlight(p) ~> ~InFlight(p)
=============================================================================
