------------------------------- MODULE Sweep -------------------------------
(***************************************************************************)
(* The sweeps of one thesis: app/service/scheduler_service.py with the     *)
(* repositories it writes through.  A sweep is one database session.  It   *)
(* reads the thesis and its rows once, then awaits the news, the           *)
(* classifier, the market data, the proposal reviewer and Telegram, and    *)
(* commits everything it wrote at the end.  The scheduler's loop runs one  *)
(* sweep of the thesis at a time; every approved proposal starts another   *)
(* one as a background task; and the owner edits the rows all the while.   *)
(*                                                                         *)
(* The database is PostgreSQL at READ COMMITTED: a session sees what is    *)
(* committed, its own objects keep the values they were loaded with, an    *)
(* UPDATE writes the changed columns only and locks the row to the end of  *)
(* the transaction, and a transaction in a cycle of waits is aborted.      *)
(*                                                                         *)
(* Left out: the reviewer's proposals (their rows are written in the same  *)
(* session, failures swallowed), and the WebSocket push, which changes no  *)
(* row.  Evidence is the set of its entries.                               *)
(***************************************************************************)
EXTENDS ThesisEvaluator, Naturals

CONSTANTS
  Quants, Catalysts,   \* ids of the thesis's rows
  Articles,            \* articles the news sources may return
  Verdicts,            \* verdicts the classifier may give
  Chats, NoChat,       \* Telegram chats the owner may link
  Created,             \* the thesis rows the owner may have created
  ProposalsEnabled,    \* settings.PROPOSALS_ENABLED is, or once was, on
  MaxSweeps,           \* bound: sweeps begun
  MaxVerdicts,         \* bound: verdicts in one sweep
  MaxEdits             \* bound: requests by the owner

ASSUME VerdictsAssumption == Verdicts \subseteq Verdict
ASSUME CreatedAssumption  == Created \subseteq [status : {"TRACKING"}, qmode : QuantMode, cmode : CatalystMode]
ASSUME NoChatAssumption   == NoChat \notin Chats
ASSUME SwitchAssumption   == ProposalsEnabled \in BOOLEAN
ASSUME BoundsAssumption   == /\ MaxSweeps \in Nat
                             /\ MaxVerdicts \in Nat
                             /\ MaxEdits \in Nat

VARIABLES
  thesis,    \* the Theses row: status, quant_mode, catalyst_mode
  quants,    \* the enabled QuantCondition rows
  cats,      \* the Catalyst rows
  chat,      \* the owner's telegram_chat_id
  evals,     \* committed Evaluation rows
  alerts,    \* evaluation ids of the committed Alert rows
  messages,  \* evaluation ids whose signal message reached Telegram
  loop,      \* where run_once is with this thesis
  begun,     \* number of sweeps begun; sweep ids are created_at order
  pc,        \* where each sweep is
  snap,      \* what each sweep read when it began
  tx,        \* each sweep's session: its objects and the rows it has locked
  fresh,     \* the articles each sweep had classified
  left,      \* verdicts each sweep may still receive
  outcome,   \* the evaluation each sweep is about to commit
  edits,     \* requests by the owner so far
  handset    \* history: catalysts whose state or evidence the owner ever set

rows   == <<thesis, quants, cats, chat>>
record == <<evals, alerts>>
owner  == <<edits, handset>>
vars   == <<thesis, quants, cats, chat, evals, alerts, messages, loop, begun,
            pc, snap, tx, fresh, left, outcome, edits, handset>>

SweepId  == 1..MaxSweeps
Finished == {"done", "aborted"}
Running  == {"fetch", "verdicts", "flush", "metrics", "notify", "commit"}

Entry    == [article : Articles, verdict : Verdicts, by : SweepId]
Thesis   == [status : {"TRACKING", "DELETED"}, qmode : QuantMode, cmode : CatalystMode]
Row      == [enabled : BOOLEAN, state : CatalystState, evidence : SUBSET Entry]
Snapshot == [source : {"loop", "task"}, thesis : Thesis, quants : SUBSET Quants,
             enabled : SUBSET Catalysts, chat : Chats \union {NoChat}]
Session  == [state : [Catalysts -> CatalystState],
             evidence : [Catalysts -> SUBSET Entry],
             moved : SUBSET Catalysts,    \* state column written
             dirty : SUBSET Catalysts,    \* changed, not yet flushed
             held  : SUBSET Catalysts]    \* flushed: evidence written, row locked
Outcome  == [status : EvalStatus, flipped : BOOLEAN, saw : SUBSET SweepId]

NoThesis   == [status |-> "TRACKING", qmode |-> "ANY", cmode |-> "ANY"]
NoSnapshot == [source |-> "task", thesis |-> NoThesis, quants |-> {},
               enabled |-> {}, chat |-> NoChat]
NoSession  == [state |-> [c \in Catalysts |-> "unconfirmed"],
               evidence |-> [c \in Catalysts |-> {}],
               moved |-> {}, dirty |-> {}, held |-> {}]
NoOutcome  == [status |-> "not_met", flipped |-> FALSE, saw |-> {}]

TypeOK ==
  /\ thesis \in Thesis
  /\ quants \in SUBSET Quants
  /\ cats \in [Catalysts -> Row]
  /\ chat \in Chats \union {NoChat}
  /\ evals \in SUBSET [id : SweepId, outcome : Outcome]
  /\ alerts \in SUBSET SweepId
  /\ messages \in SUBSET SweepId
  /\ loop \in {"idle", "listed", "sweeping"}
  /\ begun \in 0..MaxSweeps
  /\ pc \in [SweepId -> {"waiting"} \union Running \union Finished]
  /\ snap \in [SweepId -> Snapshot]
  /\ tx \in [SweepId -> Session]
  /\ fresh \in [SweepId -> SUBSET Articles]
  /\ left \in [SweepId -> 0..MaxVerdicts]
  /\ outcome \in [SweepId -> Outcome]
  /\ edits \in 0..MaxEdits
  /\ handset \in SUBSET Catalysts

\* A thesis as the owner has just created it, never swept before; a catalyst
\* the owner creates in another state is a first EditCatalyst.
Init ==
  /\ thesis \in Created
  /\ quants = Quants
  /\ cats = [c \in Catalysts |-> [enabled |-> TRUE, state |-> "unconfirmed", evidence |-> {}]]
  /\ chat \in Chats \union {NoChat}
  /\ evals = {} /\ alerts = {} /\ messages = {}
  /\ loop = "idle" /\ begun = 0
  /\ pc = [s \in SweepId |-> "waiting"]
  /\ snap = [s \in SweepId |-> NoSnapshot]
  /\ tx = [s \in SweepId |-> NoSession]
  /\ fresh = [s \in SweepId |-> {}]
  /\ left = [s \in SweepId |-> 0]
  /\ outcome = [s \in SweepId |-> NoOutcome]
  /\ edits = 0 /\ handset = {}

-----------------------------------------------------------------------------
(***************************************************************************)
(* The scheduler's loop (run_once).                                        *)
(***************************************************************************)
\* run_once lists the TRACKING theses once, in a session of its own, and
\* sweeps them one after another; other theses' sweeps may come first.
List ==
  /\ loop = "idle"
  /\ thesis.status = "TRACKING"
  /\ loop' = "listed"
  /\ UNCHANGED <<rows, record, messages, begun, pc, snap, tx, fresh, left, outcome, owner>>

\* stop() cancels the loop before it gets to this thesis.
LoopStopped ==
  /\ loop = "listed"
  /\ loop' = "idle"
  /\ UNCHANGED <<rows, record, messages, begun, pc, snap, tx, fresh, left, outcome, owner>>

(***************************************************************************)
(* _process_thesis.  The first SELECT opens the transaction, whose start   *)
(* becomes the created_at of the evaluation, and loads the thesis with all *)
(* its rows and its owner.  The status is not looked at again.             *)
(***************************************************************************)
Begin(s, source) ==
  /\ pc[s] = "waiting" /\ s = begun + 1
  /\ begun' = s
  /\ snap' = [snap EXCEPT ![s] =
       [source |-> source, thesis |-> thesis, quants |-> quants, chat |-> chat,
        enabled |-> {c \in Catalysts : cats[c].enabled}]]
  /\ tx' = [tx EXCEPT ![s] =
       [state |-> [c \in Catalysts |-> cats[c].state],
        evidence |-> [c \in Catalysts |-> cats[c].evidence],
        moved |-> {}, dirty |-> {}, held |-> {}]]
  /\ pc' = [pc EXCEPT ![s] = IF \E c \in Catalysts : cats[c].enabled
                             THEN "fetch" ELSE "metrics"]
  /\ UNCHANGED <<rows, record, messages, fresh, left, outcome, owner>>

BeginLoop(s) ==
  /\ loop = "listed"
  /\ loop' = "sweeping"
  /\ Begin(s, "loop")

\* sweep_thesis, after the owner approved a proposal; without the reviewer
\* there is none to approve.
BeginTask(s) ==
  /\ ProposalsEnabled
  /\ Begin(s, "task")
  /\ UNCHANGED loop

\* Slip: the dedup set holds only the articles on the evidence of all of the
\* enabled catalysts, not of any of them.
SeenOnAll(s) == {a \in Articles : \A c \in snap[s].enabled :
                   \E e \in tx[s].evidence[c] : e.article = a}

\* The articles already on the evidence of an enabled catalyst.
Seen(s) == {e.article : e \in UNION {tx[s].evidence[c] : c \in snap[s].enabled}}

\* The sources return any articles; those already judged are dropped.  With
\* none left the classifier is not called.
FetchNews(s) ==
  /\ pc[s] = "fetch"
  /\ \E returned \in SUBSET Articles :
       /\ fresh' = [fresh EXCEPT ![s] = returned \ Seen(s)]
       /\ left' = [left EXCEPT ![s] = IF returned \ Seen(s) = {} THEN 0 ELSE MaxVerdicts]
       /\ pc' = [pc EXCEPT ![s] = IF returned \ Seen(s) = {} THEN "metrics" ELSE "verdicts"]
  /\ UNCHANGED <<rows, record, messages, loop, begun, snap, tx, outcome, owner>>

\* One verdict of the batch, on any of the articles and catalysts and in any
\* order, applied to the session's objects (catalysts.apply, record_verdict).
Judge(s, c, a, v) ==
  LET state == Apply(tx[s].state[c], v)
      entry == [article |-> a, verdict |-> v, by |-> s]
  IN
  /\ pc[s] = "verdicts" /\ left[s] > 0
  /\ c \in snap[s].enabled /\ a \in fresh[s]
  /\ tx' = [tx EXCEPT ![s] =
       [state    |-> [tx[s].state EXCEPT ![c] = state],
        evidence |-> [tx[s].evidence EXCEPT ![c] = @ \union {entry}],
        moved    |-> IF state # tx[s].state[c] THEN tx[s].moved \union {c} ELSE tx[s].moved,
        dirty    |-> {c},
        held     |-> tx[s].held]]
  /\ left' = [left EXCEPT ![s] = @ - 1]
  /\ pc' = [pc EXCEPT ![s] = "flush"]
  /\ UNCHANGED <<rows, record, messages, loop, begun, snap, fresh, outcome, owner>>

Locked(c) == \E t \in SweepId : c \in tx[t].held

WaitsFor(s, t) == /\ pc[s] = "flush" /\ s # t
                  /\ tx[s].dirty \intersect tx[t].held # {}

\* The session with its pending UPDATE sent.
Flushed(s) == [tx EXCEPT ![s] =
                 [state |-> tx[s].state, evidence |-> tx[s].evidence, moved |-> tx[s].moved,
                  dirty |-> {}, held |-> tx[s].held \union tx[s].dirty]]

\* Slip: the repository commits where it should flush.
FlushCommits(s) ==
  /\ pc[s] = "flush"
  /\ \A t \in SweepId : ~WaitsFor(s, t)
  /\ tx' = Flushed(s)
  /\ cats' = [c \in Catalysts |->
       [cats[c] EXCEPT !.evidence = IF c \in tx[s].dirty THEN tx[s].evidence[c] ELSE @]]
  /\ pc' = [pc EXCEPT ![s] = "verdicts"]
  /\ UNCHANGED <<thesis, quants, chat, record, messages, loop, begun, snap, fresh, left, outcome, owner>>

\* The flush that ends record_verdict sends the UPDATE, which waits for
\* another session's lock on the row.
Flush(s) ==
  /\ pc[s] = "flush"
  /\ \A t \in SweepId : ~WaitsFor(s, t)
  /\ tx' = Flushed(s)
  /\ pc' = [pc EXCEPT ![s] = "verdicts"]
  /\ UNCHANGED <<rows, record, messages, loop, begun, snap, fresh, left, outcome, owner>>

\* Slip: the newest evaluation is not asked for, just any one.
AnyEvaluation == CHOOSE e \in evals : \A f \in evals : e.id <= f.id

\* ORDER BY created_at DESC LIMIT 1
LatestEvaluation == CHOOSE e \in evals : \A f \in evals : f.id <= e.id

WasFiring == evals # {} /\ LatestEvaluation.outcome.status = "firing"

\* The verdict list is done; the metrics are fetched, the thesis evaluated on
\* the session's objects, the latest committed evaluation read, the new one
\* inserted, and the reviewer's turn begins.
EvaluateThesis(s) ==
  /\ pc[s] \in {"verdicts", "metrics"}
  /\ \E readings \in [snap[s].quants -> Reading] :
       LET status  == Evaluate(snap[s].thesis.qmode, readings, snap[s].thesis.cmode,
                               [c \in snap[s].enabled |-> tx[s].state[c]])
           flipped == status = "firing" /\ ~WasFiring
       IN /\ outcome' = [outcome EXCEPT ![s] =
               [status |-> status, flipped |-> flipped,
                saw |-> IF flipped THEN {e.id : e \in evals} ELSE {}]]
          /\ pc' = [pc EXCEPT ![s] = IF flipped THEN "notify" ELSE "commit"]
  /\ fresh' = [fresh EXCEPT ![s] = {}]
  /\ left' = [left EXCEPT ![s] = 0]
  /\ UNCHANGED <<rows, record, messages, loop, begun, snap, tx, owner>>

\* _on_signal_fired: with a chat linked, an alert row is inserted and the
\* message sent; _safe_send swallows a failure, and the alert is marked SENT
\* either way.
Notify(s) ==
  /\ pc[s] = "notify"
  /\ \/ snap[s].chat # NoChat /\ messages' = messages \union {s}
     \/ messages' = messages
  /\ pc' = [pc EXCEPT ![s] = "commit"]
  /\ UNCHANGED <<rows, record, loop, begun, snap, tx, fresh, left, outcome, owner>>

\* The session is over: its objects and locks are gone, and the loop moves on
\* if the sweep was its own.
Finish(s, how) ==
  /\ loop' = IF snap[s].source = "loop" THEN "idle" ELSE loop
  /\ pc' = [pc EXCEPT ![s] = how]
  /\ snap' = [snap EXCEPT ![s] = NoSnapshot]
  /\ tx' = [tx EXCEPT ![s] = NoSession]
  /\ fresh' = [fresh EXCEPT ![s] = {}]
  /\ left' = [left EXCEPT ![s] = 0]
  /\ outcome' = [outcome EXCEPT ![s] = NoOutcome]

\* Slip: the evidence list is appended to in place, which SQLAlchemy does not
\* notice, so the column is not written.
CommitForgetsEvidence(s) ==
  /\ pc[s] = "commit"
  /\ cats' = [c \in Catalysts |->
       [cats[c] EXCEPT !.state = IF c \in tx[s].moved THEN tx[s].state[c] ELSE @]]
  /\ evals' = evals \union {[id |-> s, outcome |-> outcome[s]]}
  /\ alerts' = IF outcome[s].flipped /\ snap[s].chat # NoChat THEN alerts \union {s} ELSE alerts
  /\ Finish(s, "done")
  /\ UNCHANGED <<thesis, quants, chat, messages, begun, owner>>

\* session.commit(): the written columns of the locked rows, the evaluation and
\* the alert become visible together.
Commit(s) ==
  /\ pc[s] = "commit"
  /\ cats' = [c \in Catalysts |->
       [enabled  |-> cats[c].enabled,
        state    |-> IF c \in tx[s].moved THEN tx[s].state[c] ELSE cats[c].state,
        evidence |-> IF c \in tx[s].held THEN tx[s].evidence[c] ELSE cats[c].evidence]]
  /\ evals' = evals \union {[id |-> s, outcome |-> outcome[s]]}
  /\ alerts' = IF outcome[s].flipped /\ snap[s].chat # NoChat THEN alerts \union {s} ELSE alerts
  /\ Finish(s, "done")
  /\ UNCHANGED <<thesis, quants, chat, messages, begun, owner>>

\* The sweep raises (every news source failed, the model or the database did),
\* is cancelled by stop(), or dies with the process: its session rolls back.
\* A message already sent stays sent.
Abort(s) ==
  /\ pc[s] \in Running
  /\ Finish(s, "aborted")
  /\ UNCHANGED <<rows, record, messages, begun, owner>>

\* Slip: the database does not look for deadlocks.
NeverDeadlocked(s) == FALSE

\* The sessions of S wait for each other in a circle, s among them.
Deadlocked(s) ==
  \E S \in SUBSET SweepId :
    /\ s \in S
    /\ \A t \in S : /\ \E u \in S : WaitsFor(t, u)
                    /\ \E u \in S : WaitsFor(u, t)

\* PostgreSQL aborts a transaction of such a circle.
DeadlockVictim(s) ==
  /\ Deadlocked(s)
  /\ Finish(s, "aborted")
  /\ UNCHANGED <<rows, record, messages, begun, owner>>

-----------------------------------------------------------------------------
(***************************************************************************)
(* The owner's requests.  Each is a short transaction of its own, taken as *)
(* one step; an UPDATE of a catalyst waits while a sweep holds the row.    *)
(* Approving a proposal changes the same rows in the same ways; the locks  *)
(* of its session and the sweep it starts are module ApprovalSweep's.      *)
(***************************************************************************)
Request == /\ edits < MaxEdits
           /\ edits' = edits + 1
           /\ UNCHANGED <<record, messages, loop, begun, pc, snap, tx, fresh, left, outcome>>

\* create_catalyst, update_catalyst (state, evidence, enabled) and
\* delete_catalyst.  Evidence comes from the client as a JSON object, which
\* the scheduler treats as no entries.
EditCatalyst(c, enabled, state, evidence) ==
  /\ ~Locked(c)
  /\ cats' = [cats EXCEPT ![c] =
                [enabled |-> enabled, state |-> state, evidence |-> evidence]]
  /\ handset' = IF state # cats[c].state \/ evidence # cats[c].evidence
                THEN handset \union {c} ELSE handset
  /\ UNCHANGED <<thesis, quants, chat>>
  /\ Request

\* Adding, disabling and enabling a quant condition.
EditQuant(q) ==
  /\ quants' = IF q \in quants THEN quants \ {q} ELSE quants \union {q}
  /\ UNCHANGED <<thesis, cats, chat, handset>>
  /\ Request

\* update_theses may set any field; it restores no row when it sets the status
\* back to TRACKING.
EditThesis(t) ==
  /\ thesis' = t
  /\ UNCHANGED <<quants, cats, chat, handset>>
  /\ Request

\* delete_theses disables every row.
DeleteThesis ==
  /\ \A c \in Catalysts : cats[c].enabled => ~Locked(c)
  /\ thesis' = [thesis EXCEPT !.status = "DELETED"]
  /\ quants' = {}
  /\ cats' = [c \in Catalysts |-> [cats[c] EXCEPT !.enabled = FALSE]]
  /\ UNCHANGED <<chat, handset>>
  /\ Request

\* The owner links a Telegram chat, or disconnects it.
EditChat(ch) ==
  /\ chat' = ch
  /\ UNCHANGED <<thesis, quants, cats, handset>>
  /\ Request

Scheduler(s) == \/ BeginLoop(s) \/ BeginTask(s)
                \/ FetchNews(s)
                \/ \E c \in Catalysts, a \in Articles, v \in Verdicts : Judge(s, c, a, v)
                \/ Flush(s) \/ EvaluateThesis(s) \/ Notify(s) \/ Commit(s)
                \/ Abort(s) \/ DeadlockVictim(s)

Owner == \/ \E c \in Catalysts, enabled \in BOOLEAN, state \in CatalystState :
              \E evidence \in {cats[c].evidence, {}} :
                EditCatalyst(c, enabled, state, evidence)
         \/ \E q \in Quants : EditQuant(q)
         \/ \E t \in Thesis : EditThesis(t)
         \/ DeleteThesis
         \/ \E ch \in Chats \union {NoChat} : EditChat(ch)

Next == List \/ LoopStopped \/ (\E s \in SweepId : Scheduler(s)) \/ Owner

Spec == Init /\ [][Next]_vars

(***************************************************************************)
(* Every await of a running sweep ends, and PostgreSQL's deadlock check    *)
(* runs.  Nothing obliges the owner to act, the loop to start a sweep, or  *)
(* a sweep to fail.                                                        *)
(***************************************************************************)
Proceed(s) == \/ FetchNews(s) \/ Flush(s) \/ EvaluateThesis(s) \/ Notify(s) \/ Commit(s)
              \/ DeadlockVictim(s)

FairSpec == Spec /\ \A s \in SweepId : WF_vars(Proceed(s))

-----------------------------------------------------------------------------
(***************************************************************************)
(* Properties                                                              *)
(***************************************************************************)
\* No article is judged for the same catalyst by two different sweeps in one
\* evidence trail, overlapping sweeps and lost writes included: a sweep drops
\* the articles of the trail it loaded, and what it writes replaces the whole
\* trail (scheduler_service.py:234-238, catalyst_repository.py:71-84).
NoRejudgedArticle ==
  \A c \in Catalysts : \A e, f \in cats[c].evidence :
    e.article = f.article => e.by = f.by

\* A sweep that has not committed has left nothing in the database: no
\* evidence, no evaluation, no alert (scheduler_service.py:194-202).
OnlyCommittedSweepsLeaveRows ==
  /\ \A c \in Catalysts : \A e \in cats[c].evidence : pc[e.by] = "done"
  /\ \A e \in evals : pc[e.id] = "done"
  /\ \A s \in alerts : pc[s] = "done" /\ \E e \in evals : e.id = s

Confirming(trail) == \E e \in trail : Effective(e.verdict) = "confirmed"

\* A catalyst the owner never touched is confirmed only with an entry that
\* confirmed it in its evidence, so that an alert can cite the story
\* (ml_adapter.py:67-84, 99-102).
ConfirmedHasGrounds ==
  \A c \in Catalysts \ handset :
    cats[c].state = "confirmed" => Confirming(cats[c].evidence)

\* How the state of a catalyst may change without the owner.
Climbs(from, to) == \/ from = to
                    \/ from = "unconfirmed"
                    \/ from = "rumored" /\ to # "unconfirmed"
                    \/ from = "confirmed" /\ to = "invalidated"
                    \/ from = "invalidated" /\ to = "confirmed"

\* The stored state of a catalyst the owner never touched never moves down on
\* a weaker proposal: only an invalidation takes a confirmed one back, and only
\* a confirmation revives an invalidated one (catalysts.py:87-89).
LadderHolds == [][\A c \in Catalysts \ handset' : Climbs(cats[c].state, cats'[c].state)]_vars

\* If an evaluation with an alert was already committed when a later alert was
\* decided, a newer evaluation that found the signal off was committed too: an
\* alert repeats without a reset only across overlapping sweeps
\* (evaluation_repository.py:29-32, scheduler_service.py:269-271,291).
RepeatAlertNeedsReset ==
  \A s \in alerts : \A e \in evals :
    e.id \in alerts /\ s \in e.outcome.saw =>
      \E f \in evals : /\ f.id > s /\ f.id \in e.outcome.saw
                       /\ f.outcome.status # "firing"

\* An alert is sent only for a thesis the sweep found tracked.
NoAlertForDeletedThesis ==
  \A s \in messages : pc[s] = "commit" => snap[s].thesis.status = "TRACKING"

\* Every sweep that begins ends: two sweeps that wrote the same catalysts in
\* opposite orders do not wait for each other for ever
\* (catalyst_repository.py:83, scheduler_service.py:244-253).
SweepsEnd == \A s \in SweepId : pc[s] \in Running ~> pc[s] \in Finished

\* The newest evaluation as EdgeAlerts sees it.
NewestEvaluation == IF evals = {} THEN [id |-> 0, firing |-> FALSE]
                    ELSE [id |-> LatestEvaluation.id,
                          firing |-> LatestEvaluation.outcome.status = "firing"]

\* The rows of a thesis swept by one session at a time are those of the
\* edge-triggered alerts that module EdgeAlerts specifies: one alert at most
\* per evaluation that finds the signal newly on, whatever sweeps fail
\* (scheduler_service.py:269-292).
EA == INSTANCE EdgeAlerts WITH
        Ids     <- SweepId,
        newest  <- NewestEvaluation,
        alerted <- alerts

ImplementsEdgeAlerts == EA!Spec
=============================================================================
