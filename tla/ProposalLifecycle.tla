------------------------- MODULE ProposalLifecycle -------------------------
(***************************************************************************)
(* The proposals of one thesis, from the sweep whose reviewer drafts them  *)
(* (pipeline/proposals.py, app/service/proposal_generator.py) to the       *)
(* owner's answer (app/service/proposal_service.py), with any number of    *)
(* sweeps and requests in flight at once.                                  *)
(*                                                                         *)
(* The quant and the catalyst side are each other's mirror image; the      *)
(* module is one of them.  A row is about a topic and says something of    *)
(* it: for a quant condition the topic is the metric and the say is the    *)
(* operator with the value; for a catalyst the topic is its description    *)
(* and there is one say only.                                              *)
(*                                                                         *)
(* A request or a sweep is one database session: what it reads is          *)
(* committed, an object keeps the values it was first loaded with, and an  *)
(* UPDATE writes the columns that differ from them, by primary key, and    *)
(* locks the row until the session ends.                                   *)
(***************************************************************************)
EXTENDS Naturals, Sequences

CONSTANTS
  Rows,            \* the rows the thesis was created with
  Topics, Says,    \* what a row may be about, and say
  Requests,        \* the owner's approvals and rejections
  Reviews,         \* sweeps that call the reviewer
  NoTerm,          \* what a row not yet there says
  NoProposal,      \* what a request not yet made answers
  MaxSuggestions,  \* bound: suggestions that survive the caps of one review
  MaxEdits         \* bound: the owner's direct edits

RowId      == Rows \union Requests        \* an approval adds at most one row
Slots      == 1..MaxSuggestions
ProposalId == Reviews \X Slots
Term       == [topic : Topics, says : Says]
NoRow      == [enabled |-> FALSE, term |-> NoTerm]
Row        == [enabled : BOOLEAN, term : Term] \union {NoRow}

Add(t)       == [type |-> "ADD", term |-> t]
Update(r, t) == [type |-> "UPDATE", target |-> r, term |-> t]
Remove(r)    == [type |-> "REMOVE", target |-> r]
Ask          == {Add(t) : t \in Term}
                  \union {Update(r, t) : r \in RowId, t \in Term}
                  \union {Remove(r) : r \in RowId}
NoAsk        == Add(NoTerm)

ASSUME DisjointAssumption == Rows \intersect Requests = {}
ASSUME BlankAssumption    == NoTerm \notin Term /\ NoProposal \notin ProposalId
ASSUME BoundsAssumption   == MaxSuggestions \in Nat /\ MaxEdits \in Nat

VARIABLES
  rows,        \* the committed rows
  asked,       \* what each committed proposal proposes
  status,      \* its status; "none" before its sweep commits
  recent,      \* proposals resolved within REJECTED_SUPPRESSION_DAYS
  sweep,       \* where each reviewing sweep is
  saw,         \* the rows each sweep read when it began
  draft,       \* the proposals each sweep has inserted, not yet committed
  pc,          \* where each request is
  of,          \* the proposal each request answers
  loaded,      \* the row its proposal is about, as each request loaded it
  todo, held,  \* rivals each request has still to reject, and has
  edits,       \* the owner's direct edits so far
  applied,     \* history: <<request, proposal>> of the changes committed
  contended,   \* history: proposals two requests dealt with at once
  overlapped   \* history: sweeps that ran while another did

queue   == <<asked, status, recent>>
sweeps  == <<sweep, saw, draft, overlapped>>
session == <<pc, of, loaded, todo, held>>
vars    == <<rows, asked, status, recent, sweep, saw, draft, pc, of,
             loaded, todo, held, edits, applied, contended, overlapped>>

Deciding == {"approving", "rejecting", "written", "rivals"}   \* a request in flight

TypeOK ==
  /\ rows \in [RowId -> Row]
  /\ asked \in [ProposalId -> Ask \union {NoAsk}]
  /\ status \in [ProposalId -> {"none", "PENDING", "APPROVED", "REJECTED"}]
  /\ recent \in SUBSET ProposalId
  /\ sweep \in [Reviews -> {"waiting", "began", "reviewed", "over"}]
  /\ saw \in [Reviews -> [RowId -> Row]]
  /\ draft \in [Reviews -> UNION {[1..n -> Ask] : n \in 0..MaxSuggestions}]
  /\ pc \in [Requests -> {"waiting", "done"} \union Deciding]
  /\ of \in [Requests -> ProposalId \union {NoProposal}]
  /\ loaded \in [Requests -> Row]
  /\ todo \in [Requests -> SUBSET ProposalId]
  /\ held \in [Requests -> SUBSET ProposalId]
  /\ edits \in 0..MaxEdits
  /\ applied \in SUBSET (Requests \X ProposalId)
  /\ contended \in SUBSET ProposalId
  /\ overlapped \in SUBSET Reviews

Blank == [r \in RowId |-> NoRow]

Init ==
  /\ \E terms \in [Rows -> Term] :
       rows = [r \in RowId |-> IF r \in Rows
                 THEN [enabled |-> TRUE, term |-> terms[r]] ELSE NoRow]
  /\ asked = [p \in ProposalId |-> NoAsk]
  /\ status = [p \in ProposalId |-> "none"]
  /\ recent = {}
  /\ sweep = [v \in Reviews |-> "waiting"]
  /\ saw = [v \in Reviews |-> Blank]
  /\ draft = [v \in Reviews |-> <<>>]
  /\ pc = [q \in Requests |-> "waiting"]
  /\ of = [q \in Requests |-> NoProposal]
  /\ loaded = [q \in Requests |-> NoRow]
  /\ todo = [q \in Requests |-> {}] /\ held = [q \in Requests |-> {}]
  /\ edits = 0
  /\ applied = {} /\ contended = {} /\ overlapped = {}

-----------------------------------------------------------------------------
(***************************************************************************)
(* A sweep's reviewer.  It is shown the rows as the sweep read them and    *)
(* may answer anything; the guards of proposals._reject_reason that depend *)
(* on the rows are here, and those on confidence, vocabulary and today's   *)
(* values only leave suggestions out, which the reviewer may do as well.   *)
(***************************************************************************)
Begin(v) ==
  /\ sweep[v] = "waiting"
  /\ sweep' = [sweep EXCEPT ![v] = "began"]
  /\ saw' = [saw EXCEPT ![v] = rows]
  /\ LET others == {w \in Reviews : sweep[w] \in {"began", "reviewed"}}
     IN overlapped' = IF others = {} THEN overlapped ELSE overlapped \union others \union {v}
  /\ UNCHANGED <<rows, queue, draft, session, edits, applied, contended>>

\* Guards 1, 3, 4 and 9 on the rows the sweep read: an update or a removal
\* names an enabled row, an update changes it, and an add is about a topic no
\* enabled row is about.
Fits(a, seen) ==
  \/ /\ a.type = "ADD"
     /\ \A r \in RowId : seen[r].enabled => seen[r].term.topic # a.term.topic
  \/ a.type = "UPDATE" /\ seen[a.target].enabled /\ seen[a.target].term # a.term
  \/ a.type = "REMOVE" /\ seen[a.target].enabled

\* Slip: only the pending proposals are looked up.
PendingOnly == {asked[p] : p \in {x \in ProposalId : status[x] = "PENDING"}}

\* The generator's dedup set: pending proposals and recent rejections.
Known == {asked[p] : p \in {x \in ProposalId :
            \/ status[x] = "PENDING"
            \/ status[x] = "REJECTED" /\ x \in recent}}

\* suggest and generate: what fits and is not known is inserted, each in a
\* SAVEPOINT of its own, so that any of them may be missing.  Two suggestions of
\* one review may be the same.
Review(v) ==
  /\ sweep[v] = "began"
  /\ \E n \in 0..MaxSuggestions :
       \E made \in [1..n -> {a \in Ask \ Known : Fits(a, saw[v])}] :
         draft' = [draft EXCEPT ![v] = made]
  /\ sweep' = [sweep EXCEPT ![v] = "reviewed"]
  /\ saw' = [saw EXCEPT ![v] = Blank]
  /\ UNCHANGED <<rows, queue, session, edits, applied, contended, overlapped>>

\* The sweep commits, and its proposals are in the queue.
Publish(v) ==
  /\ sweep[v] = "reviewed"
  /\ LET new == {p \in ProposalId : p[1] = v /\ p[2] \in DOMAIN draft[v]}
     IN /\ asked' = [p \in ProposalId |-> IF p \in new THEN draft[v][p[2]] ELSE asked[p]]
        /\ status' = [p \in ProposalId |-> IF p \in new THEN "PENDING" ELSE status[p]]
  /\ sweep' = [sweep EXCEPT ![v] = "over"]
  /\ draft' = [draft EXCEPT ![v] = <<>>]
  /\ UNCHANGED <<rows, recent, saw, session, edits, applied, contended, overlapped>>

SweepFails(v) ==
  /\ sweep[v] \in {"began", "reviewed"}
  /\ sweep' = [sweep EXCEPT ![v] = "over"]
  /\ saw' = [saw EXCEPT ![v] = Blank]
  /\ draft' = [draft EXCEPT ![v] = <<>>]
  /\ UNCHANGED <<rows, queue, session, edits, applied, contended, overlapped>>

\* REJECTED_SUPPRESSION_DAYS pass.
RejectionAges(p) ==
  /\ p \in recent
  /\ recent' = recent \ {p}
  /\ UNCHANGED <<rows, asked, status, sweeps, session, edits, applied, contended>>

-----------------------------------------------------------------------------
(***************************************************************************)
(* The owner's answers.                                                    *)
(***************************************************************************)
InHand(p) == {q \in Requests : /\ pc[q] \in Deciding
                               /\ of[q] = p \/ p \in todo[q] \union held[q]}

\* Slip: any proposal found will do.
Found(p) == status[p] # "none"

CheckStatus(p) == status[p] = "PENDING"

\* get_by_..._proposal_id_and_user_id and _check_status; the thesis comes with
\* the proposal, and its rows with the thesis.  Of a proposal that is not
\* pending the request is refused.
Load(q, p, answer) ==
  /\ pc[q] = "waiting" /\ CheckStatus(p)
  /\ pc' = [pc EXCEPT ![q] = answer]
  /\ of' = [of EXCEPT ![q] = p]
  /\ loaded' = [loaded EXCEPT ![q] = IF asked[p].type = "ADD" THEN NoRow ELSE rows[asked[p].target]]
  /\ contended' = IF InHand(p) = {} THEN contended ELSE contended \union {p}
  /\ UNCHANGED <<rows, queue, sweeps, todo, held, edits, applied>>

\* The session ends and releases its locks.
EndSession(q) ==
  /\ pc' = [pc EXCEPT ![q] = "done"]
  /\ loaded' = [loaded EXCEPT ![q] = NoRow]
  /\ todo' = [todo EXCEPT ![q] = {}]
  /\ held' = [held EXCEPT ![q] = {}]
  /\ of' = [of EXCEPT ![q] = NoProposal]

\* A rival's row is locked by the session that rejected it.
Free(p, q) == \A other \in Requests \ {q} : p \notin held[other]

Reject(q) ==
  /\ pc[q] = "rejecting" /\ Free(of[q], q)
  /\ status' = [status EXCEPT ![of[q]] = "REJECTED"]
  /\ recent' = recent \union {of[q]}
  /\ EndSession(q)
  /\ UNCHANGED <<rows, asked, sweeps, edits, applied, contended>>

\* create_quant_condition or create_catalyst, then the status.
ApproveAdd(q) ==
  /\ pc[q] = "approving" /\ Free(of[q], q)
  /\ asked[of[q]].type = "ADD"
  /\ rows' = [rows EXCEPT ![q] =
       [enabled |-> TRUE, term |-> asked[of[q]].term]]
  /\ status' = [status EXCEPT ![of[q]] = "APPROVED"]
  /\ applied' = applied \union {<<q, of[q]>>}
  /\ EndSession(q)
  /\ UNCHANGED <<asked, recent, sweeps, edits, contended>>

\* The columns an UPDATE of row `before` for ask a writes.
Columns(a, before) ==
  IF a.type = "REMOVE" THEN {c \in {"enabled"} : before.enabled}
  ELSE {c \in {"topic", "says"} : before.term[c] # a.term[c]}

Target(q)  == asked[of[q]].target
Written(q) == Columns(asked[of[q]], loaded[q])
RowLocked(r) == \E q \in Requests : /\ pc[q] \in {"written", "rivals"}
                                    /\ Target(q) = r /\ Written(q) # {}

\* update_quant_condition, delete_quant_condition and their catalyst
\* counterparts: the flush waits for the lock on the row, if it writes it.
WriteRow(q) ==
  /\ pc[q] = "approving" /\ asked[of[q]].type # "ADD"
  /\ Written(q) # {} => ~RowLocked(Target(q))
  /\ pc' = [pc EXCEPT ![q] = "written"]
  /\ UNCHANGED <<rows, queue, sweeps, of, loaded, todo, held, edits, applied, contended>>

\* Slip: the rivals are looked for among the removals.
Removals(q) == {p \in ProposalId \ {of[q]} :
                  /\ status[p] = "PENDING"
                  /\ asked[p].type = "REMOVE" /\ asked[p].target = Target(q)}

\* Slip: whatever else is pending about the row.
OthersOfRow(q) == {p \in ProposalId \ {of[q]} :
                     /\ status[p] = "PENDING"
                     /\ asked[p].type # "ADD" /\ asked[p].target = Target(q)}

\* The other pending updates of the same row.
Rivals(q) == {p \in ProposalId \ {of[q]} :
                /\ status[p] = "PENDING"
                /\ asked[p].type = "UPDATE" /\ asked[p].target = Target(q)}

FindRivals(q) ==
  /\ pc[q] = "written" /\ asked[of[q]].type = "UPDATE"
  /\ todo' = [todo EXCEPT ![q] = Rivals(q)]
  /\ pc' = [pc EXCEPT ![q] = "rivals"]
  /\ contended' = contended \union {p \in Rivals(q) : InHand(p) # {}}
  /\ UNCHANGED <<rows, queue, sweeps, of, loaded, held, edits, applied>>

\* One turn of supersede_pending_updates; the flush waits for the lock.
RejectRival(q, p) ==
  /\ pc[q] = "rivals" /\ p \in todo[q] /\ Free(p, q)
  /\ todo' = [todo EXCEPT ![q] = @ \ {p}]
  /\ held' = [held EXCEPT ![q] = @ \union {p}]
  /\ UNCHANGED <<rows, queue, sweeps, pc, of, loaded, edits, applied, contended>>

\* Slip: a superseded proposal gets the status the enum has for it.
SupersededStatus == "SUPERSEDED"

\* What a superseded proposal becomes.
RivalStatus == "REJECTED"

\* The status, and the commit of everything: the row's written columns, the
\* rivals' rejections and the approval.
Approve(q) ==
  LET a == asked[of[q]]
      r == Target(q)
  IN
  /\ \/ pc[q] = "written" /\ a.type = "REMOVE"
     \/ pc[q] = "rivals" /\ todo[q] = {}
  /\ Free(of[q], q)
  /\ rows' = IF a.type = "REMOVE"
             THEN [rows EXCEPT ![r].enabled = @ /\ Written(q) = {}]
             ELSE [rows EXCEPT ![r].term =
                     [topic |-> IF "topic" \in Written(q) THEN a.term.topic ELSE @.topic,
                      says  |-> IF "says"  \in Written(q) THEN a.term.says  ELSE @.says]]
  /\ status' = [p \in ProposalId |-> IF p = of[q] THEN "APPROVED"
                                     ELSE IF p \in held[q] THEN RivalStatus ELSE status[p]]
  /\ recent' = recent \union held[q]
  /\ applied' = applied \union {<<q, of[q]>>}
  /\ EndSession(q)
  /\ UNCHANGED <<asked, sweeps, edits, contended>>

\* The request fails, or is the victim of a deadlock: everything rolls back.
RequestFails(q) ==
  /\ pc[q] \in Deciding
  /\ EndSession(q)
  /\ UNCHANGED <<rows, queue, sweeps, edits, applied, contended>>

\* The owner edits, disables or enables a row directly.
EditRow(r) ==
  /\ edits < MaxEdits
  /\ rows[r] # NoRow /\ ~RowLocked(r)
  /\ \E enabled \in BOOLEAN, t \in Term :
       rows' = [rows EXCEPT ![r] = [enabled |-> enabled, term |-> t]]
  /\ edits' = edits + 1
  /\ UNCHANGED <<queue, sweeps, session, applied, contended>>

Sweeping(v) == Begin(v) \/ Review(v) \/ Publish(v) \/ SweepFails(v)

Answering(q) ==
  \/ \E p \in ProposalId, answer \in {"approving", "rejecting"} : Load(q, p, answer)
  \/ Reject(q) \/ ApproveAdd(q)
  \/ WriteRow(q) \/ FindRivals(q) \/ (\E p \in ProposalId : RejectRival(q, p)) \/ Approve(q)
  \/ RequestFails(q)

Next == \/ \E v \in Reviews : Sweeping(v)
        \/ \E p \in ProposalId : RejectionAges(p)
        \/ \E q \in Requests : Answering(q)
        \/ \E r \in RowId : EditRow(r)

Spec == Init /\ [][Next]_vars

-----------------------------------------------------------------------------
(***************************************************************************)
(* Properties                                                              *)
(***************************************************************************)
\* A proposal whose requests never crossed is applied exactly once when it is
\* approved, and not at all when it is pending or rejected, whatever other
\* proposals of the row are answered meanwhile and whatever request fails half
\* way (proposal_service.py:104-153, 210-213).
AppliedIffApproved ==
  \A p \in ProposalId \ contended :
    /\ \A q, r \in Requests : <<q, p>> \in applied /\ <<r, p>> \in applied => q = r
    /\ status[p] = "APPROVED" <=> \E q \in Requests : <<q, p>> \in applied

\* Two updates of one row that a sweep queued together are not both approved:
\* approving one rejects the other (quant_proposal_repository.py:101-107).
RivalsNotBothApproved ==
  \A p, x \in ProposalId \ contended :
    /\ p # x /\ p[1] = x[1]
    /\ status[p] = "APPROVED" /\ status[x] = "APPROVED"
    => \/ asked[p].type # "UPDATE" \/ asked[x].type # "UPDATE"
       \/ asked[p].target # asked[x].target

\* Two sweeps that did not overlap never leave the owner with the same
\* suggestion twice, pending or recently declined
\* (proposal_generator.py:42-45, 153-160, 283-308).
NoRepeatedSuggestion ==
  LET open == {p \in ProposalId \ contended :
                 status[p] = "PENDING" \/ (status[p] = "REJECTED" /\ p \in recent)}
  IN \A p, x \in open :
       /\ p[1] # x[1] /\ p[1] \notin overlapped /\ x[1] \notin overlapped
       => asked[p] # asked[x]

\* The service answers each proposal once and for good, and an approved update
\* takes its rivals with it in the commit that decides it, whatever sessions
\* cross, wait and fail on the way (proposal_service.py:104-213).
PQ == INSTANCE ProposalQueue WITH
        Proposals <- ProposalId,
        Asks      <- Ask,
        Batch     <- [p \in ProposalId |-> p[1]],
        standing  <- [p \in ProposalId |-> IF p \in contended THEN "CROSSED" ELSE status[p]]

ImplementsQueue == PQ!Spec

\* "Guard 9: one condition per metric" (pipeline/proposals.py:375): approving
\* two proposals adds no second enabled row about a topic.
OneRowPerTopic ==
  \A d, e \in applied :
    /\ rows[d[1]].enabled /\ rows[e[1]].enabled
    /\ d[2] # e[2]
    => rows[d[1]].term.topic # rows[e[1]].term.topic
=============================================================================
