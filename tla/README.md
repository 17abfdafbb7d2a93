# Kestrel: a TLA+ verification project

Kestrel watches investment theses. A thesis belongs to one owner and one stock; it has
quant conditions (a metric against a threshold) and catalysts (events the news may
confirm). A scheduler sweeps every tracked thesis: it fetches news, lets a language model
judge the articles against the catalysts, reads the market data, evaluates the thesis, and
alerts the owner when the signal turns on. A second model reviews the thesis and queues
proposals to change it, which the owner approves or rejects. This directory models the
parts of that program whose correctness depends on order, overlap and failure, checks the
models with TLC, and proves the main results with TLAPS.

Line references are to the repository's files; `scheduler_service.py` stands for
`app/service/scheduler_service.py`, and so on.

## 1. The system

| Part | State | Operations | Talks to |
|---|---|---|---|
| Catalyst state machine, `pipeline/catalysts.py` | none (pure) | `initial_state`, `is_met`, `apply` | called for every verdict by the sweep |
| Classifier, `pipeline/llm.py` | none | `classify_batch`: Pass 1 relevance, Pass 2 confirmation, `_apply_guards` | OpenAI; called by the sweep |
| Evaluator, `pipeline/evaluator.py` | none (pure) | `evaluate` | called at the end of every sweep |
| News, `pipeline/news.py` | none | `fetch` merges three sources, oldest first | HTTP; called by the sweep |
| Quant metrics, `quant_service.py` | a process-wide cache with a TTL | `fetch_metrics`, `evaluate_conditions` | market data; worker threads share the cache |
| Scheduler, `scheduler_service.py` | the loop task; one session per sweep | `start`, `stop`, `run_once`, `sweep_thesis`, `_process_thesis` | everything above and below |
| Repositories, `app/repository/*` | PostgreSQL rows: theses, conditions, catalysts, evaluations, alerts, proposals, users | create, read, update, soft delete, `record_verdict` | the session they are given |
| Thesis service, `theses_service.py` | none of its own | the owner's edits and deletions | the same rows as the sweep |
| Proposal generator and reviewer, `proposal_generator.py`, `pipeline/proposals.py` | none of its own | `suggest` with its guards; dedup, suppression and insertion | inside a sweep's session |
| Proposal service, `proposal_service.py` | proposal rows | approve, reject, supersede; an approval starts a sweep | rows of the thesis, the scheduler |
| Telegram, `telegram_service.py` | token and chat id on the user row | link, webhook, send | Telegram |
| WebSocket, `websocket/connection_manager.py` | the sets of open sockets | connect, disconnect, `push_to_user` | browsers |
| Authentication, REST, history tables, evaluation harness | see section 6 | | |

All of it is one asyncio process over PostgreSQL at READ COMMITTED, with no row lock taken
on purpose and no version column. What interacts is therefore what shares rows:

* the loop's sweep and the sweeps that approvals start (background tasks) on the same thesis;
* a sweep, which loads its rows at the start, awaits for minutes and commits at the end, and
  the owner's short requests on those rows;
* two of the owner's requests on one proposal, or on two proposals of one row;
* a sweep's reviewer, which reads the queue, and the requests that empty it;
* an approval, the sweep it starts once it has committed, and a sweep of the loop that loaded
  the thesis before the approval and commits after it;
* worker threads of several sweeps, which share the metrics cache without a lock;
* requests and sweeps that push to the user's sockets before they commit, and the sockets
  that open, close and break meanwhile.

The hard behaviours follow: stale copies written back, edge detection against a committed
row that another session is about to supersede, locks held across awaits and taken in the
order a model happens to answer, half-done sessions that roll back while a Telegram message
has already left, and rules enforced when a proposal is queued but not when it is approved.
`PROJECT.json` lists each hazard at its line with the property that covers it, or why none
does.

What makes each part correct, in one line each:

* state machine: a catalyst is where its evidence puts it, and nowhere else;
* evaluator: missing data is neither good nor bad news;
* sweep: all or nothing in the database; no article judged twice; one alert per rising edge;
  the stored state never moves down on weaker evidence; every sweep ends;
* proposals: applied exactly once if approved, never otherwise; one winner among rivals; no
  suggestion twice, none the owner has just declined; the sweep an approval starts shows the
  dashboard the thesis as approved;
* reviewer: asked about everything new, and nothing it suggests makes a thesis fire by
  being approved;
* news and classifier: the newest deciding article decides, relevant news is heard in the end;
* metrics cache: a thesis fires on data less than a TTL old when asked for, all of one instant; a failed
  lookup is nobody else's failure;
* delivery: a linked user has no token left; what a push raises undoes nothing, but for one
  request.

## 2. Modules

| Module | Models | Builds on |
|---|---|---|
| `CatalystRules` | `_apply_guards`, `is_met`, `apply` as operators | |
| `CatalystTrail` | the life of one catalyst that only the classifier moves | `CatalystRules` |
| `NewsClassify` | from the news sources through Pass 1 and Pass 2 to the trail, sweep after sweep | `CatalystTrail` |
| `CatalystTrailProofs` | theorems about these two | `NewsClassify` |
| `ThesisEvaluator` | `evaluate` as operators | `CatalystRules` |
| `EvaluatorDrift` | a thesis whose readings, states, rows and modes change between evaluations | `ThesisEvaluator` |
| `QuantCache` | `fetch_metrics`: the shared cache, the worker threads, the retries | |
| `MarketReadings` | a thesis evaluated on what the cache serves | `EvaluatorDrift`, instance of `QuantCache` |
| `EvaluatorDriftProofs` | theorems about these three; `MarketReadings` implements `EvaluatorDrift` | `MarketReadings` |
| `EdgeAlerts` | abstract: evaluations one after another, an alert only at a rising edge | |
| `Sweep` | the sweeps of one thesis, concurrent sessions, the owner's edits | `ThesisEvaluator`; refines `EdgeAlerts` |
| `SweepProofs` | theorems for any number of overlapping sweeps | `Sweep` |
| `SweepSerialProofs` | theorems for a deployment without the reviewer | `SweepProofs` |
| `ApprovalSweep` | approvals, their commit, and the sweeps they start | `Sweep` |
| `ApprovalSweepProofs` | theorems about it; it implements `Sweep` | `ApprovalSweep`, `SweepProofs` |
| `ProposalQueue` | abstract: proposals are queued, then answered once and for good, rivals together | |
| `ProposalLifecycle` | a thesis's proposals from the reviewing sweep to the owner's answer | refines `ProposalQueue` |
| `ProposalProofs` | theorems about it, for any number of sweeps and requests | `ProposalLifecycle` |
| `ProposalGuards` | the reviewer's guards as operators over drafts | `ThesisEvaluator` |
| `ThesisReview` | the change gate, the review, the updates approved from it | `ProposalGuards` |
| `ThesisReviewProofs` | theorems about it | `ThesisReview` |
| `TelegramLink` | the user's row and the requests that link and unlink a chat | |
| `ConnectionManager` | the user's open sockets and the pushes that iterate over them | |
| `Delivery` | requests and a firing sweep that push before they commit | `TelegramLink`, `ConnectionManager` |
| `DeliveryProofs` | theorems about these three | `Delivery` |
| `MC*` | instances for TLC: sets of verdicts, drafts and markets, symmetry | |

An operator introduced by a comment "Slip:" is a plausible mistake in the code at that
place. It is used by nothing in the specification; `PROJECT.json` ("mutants") says which
definition it stands in for and which property then fails, so that every property is known
to be able to fail.

### CatalystRules and CatalystTrail

A raw answer of the model is a record of what it proposes, how it rates the source, whether
its quote is in the article, and whether the article has a body. `ApplyGuards` turns it
into a verdict (`llm._apply_guards`), `Apply` into the next state (`catalysts.apply`).
`CatalystTrail` appends answers to the evidence. `StateIsLastDecision` states the promise
without the rules: the state is what the last *deciding* answer said, and before there is
one it is `rumored` exactly when some answer hinted. `Decides` and `Hints` are written from
the meaning of a traceable, credible, full-text quote and share no operator with the rules.

### NewsClassify

An article is its instant of publication, so articles are numbers and what two sources list
is one article. Between sweeps the sources list articles, possibly late (`List`), and the
lookback window moves on (`Age`). A sweep goes `idle`, `pass1`, `pass2`, `commit`: `Fetch` is
`news.fetch` (a source that fails among several is skipped, the order is that of
publication) with the sweep's dedup (`Seen`); `Pass1` is one call on one chunk, which may name
pairs in any order and twice; `Pass2` is one call on one pair, which fails, or answers under
any catalyst id, and is recorded by `File` with `RecordVerdict` of `CatalystTrail`; `Commit` and
`Abort` end the session. `faults` bounds failures and misnamed verdicts. `heldUp` and
`shuffled` are bookkeeping for `LatestArticleDecides`: the articles that had a reason to
come after a newer one, which are a late listing, a source that failed an earlier sweep, an
earlier sweep that gave them no entry, and an order in which Pass 1 named them.

### ThesisEvaluator and EvaluatorDrift

Readings are `pass`, `fail` or `unknown`. The reference is two-valued truth over all ways
the unknown readings might turn out: `StatusIsForced` says `firing` means true in every
completion, `not_met` false in every one. `LostDataIsNeverSilent` is about steps: when the
only change is that a reading is lost, a firing thesis becomes `incomplete` at worst and
nothing starts firing.

### QuantCache and MarketReadings

The market is what the source would answer at each instant. A worker thread goes `idle`
(`Call`: a live entry is returned at once), `lookup` (`Lookup`: an attempt of
`_fetch_with_retry`, answered, turned away and retried, or failed for good), `store` (`Store`: the
entry expires a TTL after the thread's *call*, `now` of `fetch_metrics`, and is not written
if every metric is missing), `done` (`Return`). Nothing synchronises threads. `MarketReadings`
evaluates the thesis of `EvaluatorDrift` on what a thread returns; a return may also
belong to another thesis on the ticker, which then only warms the cache. `FiringIsRecent` ties the
cache to the signal: in the step that makes a thesis fire, its conditions hold of the
market at one instant, less than a TTL before the sweep asked or since (with a TTL of 0, which
turns the cache off, only since). `FailureIsNotShared` says that
an answer from the cache is never the one that says nothing.

### Sweep

One sweep is one session, with a program counter for each await in `_process_thesis`:

| `pc` | Where the code is | Action that leaves it |
|---|---|---|
| `waiting` | not begun | `BeginLoop` (`run_once`), `BeginTask` (`sweep_thesis`): load the thesis, its rows and its owner |
| `fetch` | `news.fetch` in a thread | `FetchNews`: drop the articles already on an enabled catalyst's evidence |
| `verdicts` | the verdict loop | `Judge`: `apply` and `record_verdict` on the session's objects; or `EvaluateThesis` when the list is done |
| `flush` | the flush at the end of `record_verdict` | `Flush`: send the UPDATE, wait for the row's lock |
| `metrics` | no catalyst to judge, or nothing fresh | `EvaluateThesis`: readings, `evaluate`, the latest committed evaluation, the insert |
| `notify` | `_on_signal_fired` | `Notify`: the message reaches Telegram or is lost; the alert row is SENT either way |
| `commit` | the end of the session | `Commit` |

`Abort` is an exception, a cancellation by `stop()` or the death of the process at any of
these points. `Deadlocked` and `DeadlockVictim` are PostgreSQL's deadlock detection.
`snap` is what the sweep loaded, `tx` its objects with the columns changed, not yet flushed,
and flushed (locked) rows. A commit writes the `state` column only if it changed, and the
whole `evidence` column, which is what makes lost updates possible. Sweep ids are in the
order of `created_at`, which is the start of the transaction: `LatestEvaluation` is
`ORDER BY created_at DESC`. `handset` and `edits` are bookkeeping: the catalysts whose state
or evidence the owner ever set, and a bound.

The owner's requests are single steps (`EditCatalyst`, `EditQuant`, `EditThesis`,
`DeleteThesis`, `EditChat`), since each is one short transaction; an UPDATE waits for a lock.

`ProposalsEnabled` is the switch of section 4: without the reviewer there are no proposals,
hence no approvals and no background sweeps, and a thesis is swept by the loop alone. The
approval endpoints are not gated by the setting, so the constant is TRUE as soon as the
reviewer ever ran and left a proposal.

### ApprovalSweep

A request to approve goes `new`, `open` (`Approve`: the service has changed the row and flushed,
which locks it, or is about to insert it), `answered` (`CommitApproval`: `approve_quant_proposal` and
`approve_catalyst_proposal` of the repositories commit themselves, and only then does the route
add the background task), `started` (`StartTask`: a `BeginTask` of `Sweep`, whose number the request
keeps). `LoseApproval` is a failure before the commit, which leaves nothing, or the death of the
process between the commit and the task, which leaves the change without its sweep. An open
request claims its row (`Claims`): the flush of a sweep and the owner's other edits wait for it,
and it waits for theirs. `amended` remembers the requests whose row was switched on or off again
after their commit, which `ApprovalIsEvaluated` excuses.

What makes this right is the order commit, task, load. If the repositories left the commit to
`get_db`, after the response and its tasks, the approval's sweep could wait for a lock that only
the end of that very sweep releases (`ClaimsUntilSwept`, with which `ApprovalsEnd` fails).

### ProposalLifecycle

The quant and catalyst sides of proposals are mirror images, and the module is one of them:
a row is about a topic (metric, or description) and says something of it (operator and
value; nothing more for a catalyst). A reviewing sweep loads the rows (`Begin`), asks the
reviewer and drops what the guards or the dedup set reject (`Review`), and commits
(`Publish`). A request loads a pending proposal with the row it is about (`Load`), then either rejects it, or adds a
row, or writes the row, looks for rivals, rejects them one by one and approves (`WriteRow`,
`FindRivals`, `RejectRival`, `Approve`), holding the locks of what it wrote; it may fail at
any point (`RequestFails`). `contended` and `overlapped` record which proposals were dealt
with by two requests at once and which sweeps overlapped; the code takes no lock against
either, and the properties speak about the rest.

`ProposalQueue` is what the owner may rely on, without requests, locks or rows: a proposal arrives
pending, is answered once and for good, and approving an update rejects in that same moment
pending updates of the same row and nothing else, all those of its own review included.
`ImplementsQueue` maps a proposal to `CROSSED` once two requests have dealt with it, since the
promise ends there.

The guards on confidence, vocabulary and today's value are not written out here: the
reviewer may suggest anything, and leaving a suggestion out is one of the things it may do.
They are in `ProposalGuards`.

### ProposalGuards and ThesisReview

`Stands` is `_reject_reason`, guard by guard, with a draft abstracted to what the guards
read; `Top` is the cap on refinements and discoveries, where a tie may fall either way.
`ThesisReview` puts them in the sweep: `Begin` (the transaction starts, `cutoff` is
`created_at`), `Fetch`, `Evaluation` (the readings, the status, `NothingNew` as the gate, and the
review unless quiet: shown the newest articles, failing, or leaving updates that stand), `Commit`,
`SweepFails`. Between sweeps the world publishes and the sources list, the owner approves an
offer (`Approve`) or edits a condition. Sweeps may overlap. `reviewed` and `missed` keep which
articles the reviewer was shown and which a sweep had reason not to show it; an evaluation's
`asked` is the status and outcomes of the last sweep that was not quiet; `touched` is whether
anything but an approval of the evaluation's own offers has changed a condition since.

The lookback window is left out here: an article that a sweep did not get counts as missed.

### TelegramLink, ConnectionManager and Delivery

A request reads the user's row, flushes the columns that differ from what it read, which
takes the row's lock (`Flush`), and commits at its end. `alone` and `mixed` keep whether the row
was last written by a request that crossed another. A push iterates over the live set of
sockets with an await at each send: CPython raises when the size differs and otherwise goes
on over the changed table, so after an unnoticed change anything may be left to visit
(`MayBeLeft`). `Delivery` joins them: webhook, disconnect and a firing sweep push before they
commit, and what a push raises is caught by the scheduler and by the webhook's route, by
nobody for a disconnect (`Catches`). The push of an ALERT raises whenever there is someone to send
it to (`Dumps`): its payload holds a `datetime`.

## 3. Runs

| Run | Instance | Shows |
|---|---|---|
| `catalyst_trail` | 3 articles, 2 with a body, 1 source, chunks of 2, 1 fault | `NewsTypeOK`, `StateIsLastDecision`, `LatestArticleDecides`, and under fairness `RelevantNewsIsHeard` |
| `evaluator_drift` | 2 conditions, 1 catalyst, all modes; 2 threads, TTL 2, 1 retry, 2 courses of the market | `TypeOK`, `MarketTypeOK`, `StatusIsForced`, `LostDataIsNeverSilent`, `FiringIsRecent`, `FailureIsNotShared` |
| `sweep_serial` | reviewer off; 3 sweeps, 1 catalyst, 1 condition, 2 articles, 4 verdicts, 1 edit | `TypeOK`, `ConfirmedHasGrounds`, `LadderHolds`, `ImplementsEdgeAlerts` (refinement) |
| `sweep_overlap` | reviewer on; 2 overlapping sweeps, 2 catalysts, 2 verdicts each, 1 edit | `NoRejudgedArticle`, `OnlyCommittedSweepsLeaveRows`, and under fairness `SweepsEnd` |
| `approvals` | 2 approvals, 2 sweeps, 1 condition, 1 catalyst, 2 changes of rows | `ApprovalTypeOK`, `ApprovalIsEvaluated`, and under fairness `ApprovalsEnd` |
| `alerts_overlap` | reviewer on; 3 overlapping sweeps, 1 condition, 1 chat, 1 edit | `RepeatAlertNeedsReset` |
| `delivery` | 2 requests and a firing sweep, 1 chat, 2 tokens, 2 sockets | `DeliveryTypeOK`, `LinkedHasNoToken`, `FailsForAReason`, `DeadSocketsCostNothing` |
| `review` | 2 overlapping sweeps, 2 theses, 2 conditions, 2 articles of which 1 is shown, 2 reviews, 1 edit | `TypeOK`, `NewsReachesReviewer`, `ReviewerAskedOfThis`, `ApprovalsAloneDoNotFire` |
| `proposals` | 2 reviewing sweeps, 2 suggestions each, 2 requests, 3 terms, 1 edit | `TypeOK`, `AppliedIffApproved`, `RivalsNotBothApproved`, `NoRepeatedSuggestion`, `ImplementsQueue` (refinement) |
| `sweep_ladder` | 2 overlapping sweeps | finding 1 |
| `sweep_deleted` | the loop and an owner who deletes the thesis | finding 2 |
| `proposals_metric` | one review, two approvals | finding 3 |

Why the bounds are enough. In `catalyst_trail` three articles and chunks of two give a full and
a partial chunk, an older article listed after a newer one was judged, and a hint or a
decision before and after; `MaxTrail` is large enough never to bind, and one fault is enough
for any step to fail once and be retried; for trails of any length `StateIsLastDecision` is
proved. Two conditions tell "all" from "any", two threads overlap in every order, and TTL 2 with
three instants lets an entry be live, expire and be overwritten by a slower lookup; the
evaluator's results are proved for any sets of rows. In `sweep_serial` the
third sweep follows a failed or committed second one, so edge detection sees on, off and on;
two articles are enough for one already judged and one fresh. In `sweep_overlap` two
catalysts and two verdicts per sweep are what a cycle of two waits needs. In `approvals` two
requests cross on one row or on two, or one crosses an owner's edit, and either's sweep
overlaps the other's or the loop's; one catalyst is enough for a flush to meet a request's lock.
In `alerts_overlap` three sweeps are needed for one that ends between the other two, and no
catalyst takes part in edge detection. In `delivery` two requests make every pair of link, redeem and unlink cross, and
two sockets are one that dies and one that must still be served. In `review` the second sweep is
gated or not against the first, before or after its commit; one shown article of two lets
news be crowded out; the drafts hold two updates that stand together, a change of metric, an
invalid operator, a removal and a discovery. In `proposals` two
suggestions is the code's own cap on refinements (`MAX_REFINEMENTS`), three terms give a row
and two different updates of it, and two requests make every crossing of a pair.
`CHECK_DEADLOCK FALSE` is in all of them, since the bounds on sweeps, requests and edits
let every behaviour come to its end.

Symmetry is used only in runs without liveness properties, over values that no expression of
the model tells apart. `MCSweepSerial` permutes articles and catalysts: the one `CHOOSE`, in
`LatestEvaluation`, is on the numbers of sweeps and has a unique result. `MCProposals`
permutes requests, sweeps and the says; `MCMarketReadings` threads; `MCThesisReview` sessions;
`MCDelivery` requests and sockets; none of these modules uses a `CHOOSE` over them.

## 4. Fairness

`FairSpec` has weak fairness, for each sweep, on the actions that end an await or detect a
deadlock (`Proceed`). The code justifies it: HTTP calls and the model client have timeouts,
worker threads return, the event loop runs every ready task, and PostgreSQL checks for
deadlocks after `deadlock_timeout`. The verdict list is finite (`MaxVerdicts` bounds it),
so `EvaluateThesis` being enabled during the list does not cut fairness short: it ends the
list early, which is one of the lists the model may give. Nothing obliges the owner to act,
the loop to begin a sweep, or a sweep to fail. `SweepsEnd` then says that two sweeps which
wrote the same rows in opposite orders do not wait for ever, for the sole reason that
PostgreSQL aborts one: with `NeverDeadlocked` in place of `Deadlocked` it fails.

`FairApprovalSpec` is the same for `ApprovalSweep`, with weak fairness on a request's session being
committed or rolled back, and on a response's task being run unless the process dies. A sweep whose
flush waits for a request's lock is not kept going by it, since its flush is not enabled
meanwhile; `ApprovalsEnd` says that it gets through all the same. Nothing else would end that
wait: the code sets no lock or statement timeout (`database_registry.py:16-34`).

`NewsSpec` has weak fairness on `Fetch` for some answering sources, `Pass1`, `Pass2` and `Commit`. The
loop never stops sweeping ("a bad cycle must never kill the loop", `scheduler_service.py:180`), and each
of its awaits ends. Faults are bounded, which is the assumption that sources and models do
not fail for ever; without it no news could be promised to be heard. `Fetch` is a step only when
something is fresh, since a sweep that finds nothing changes nothing. Nothing obliges a
source to list an article or time to pass.

## 5. Theorems

TLAPS checks every proof for all values of the constants that satisfy the named assumptions:
any rows, articles, sockets and chats, any set of verdicts or suggestions within the vocabulary,
any natural bounds. Every safety property that a passing run checks is also a theorem, so the
runs guard the models, and the theorems take the bounds away.

| Theorem | Says | Along |
|---|---|---|
| `CatalystTrailProofs!TypeCorrect`, `LastDecisionHolds` | `TypeOK`, `StateIsLastDecision` for trails of any length | `StateIsLastDecision` is inductive with `TypeOK`; the step splits on whether the new answer decides, hints or does neither |
| `CatalystTrailProofs!NewsTypeCorrect`, `NewsDecides`, `LatestDecides` | `NewsTypeOK`, `StateIsLastDecision`, `LatestArticleDecides` with any articles and any finite set of sources | `NewsInv` |
| `EvaluatorDriftProofs!TypeCorrect`, `StatusForced`, `LostDataNeverSilent` | the status is what the completions force, for any sets of rows | a lemma relates each verdict of the quant side to the completions, with the all-pass and all-fail completions as witnesses |
| `EvaluatorDriftProofs!MarketImplementsDrift` | `MarketSpec => Spec` of `EvaluatorDrift` | an evaluation through the cache is a `Sweep` step, the threads' other steps stutter |
| `EvaluatorDriftProofs!MarketTypeCorrect`, `MarketStatusForced`, `FiresOnRecent`, `FailuresNotShared` | `MarketTypeOK`, `StatusIsForced` and `LostDataIsNeverSilent` again, `FiringIsRecent`, `FailureIsNotShared` for any number of threads, TTL and retries | the refinement, and `CacheInv` |
| `SweepProofs!TypeCorrect` | `TypeOK` | inductive by itself |
| `SweepProofs!NoArticleRejudged` | `NoRejudgedArticle`, overlapping sweeps and lost writes included | `TrailsInv` |
| `SweepProofs!OnlyCommittedRows` | `OnlyCommittedSweepsLeaveRows` | `RowsInv` |
| `SweepProofs!AlertsNeedReset` | `RepeatAlertNeedsReset` | `AlertsInv` with `RowsInv` |
| `SweepSerialProofs!LoopRaisesEdgeAlerts` | without the reviewer, `Spec` implements `EdgeAlerts` | `SerialInv` and a step lemma: a commit is a `Record`, every other step a stutter |
| `SweepSerialProofs!LoopClimbsLadder`, `LoopKeepsGrounds` | without the reviewer, `LadderHolds` and `ConfirmedHasGrounds` | `AheadInv` with `SerialInv` |
| `ApprovalSweepProofs!ImplementsSweep` | `ApprovalSpec => Spec` of `Sweep` | a step lemma: an approval's start of its task is a `BeginTask`, its commit an edit by the owner, its other steps stutter; `TypeOK` carries the states that edits keep |
| `ApprovalSweepProofs!ApprovedNoRejudged`, `ApprovedOnlyCommitted`, `ApprovedRepeatAlert` | the three invariants above for the sweeps of approvals too | `ImplementsSweep` and the theorems above |
| `ApprovalSweepProofs!ApprovalTypeCorrect` | `ApprovalTypeOK`: each request whose task has started has a sweep of its own | `RequestsInv` |
| `ApprovalSweepProofs!ApprovalEvaluated` | `ApprovalIsEvaluated` for any number of approvals, sweeps and edits | `StandInv`, `DoneInv` and `RequestsInv`, with `AlertsInv` of `SweepProofs` |
| `ProposalProofs!TypeCorrect`, `AppliedOnce`, `RivalsExclusive`, `NoRepeats` | `TypeOK`, `AppliedIffApproved`, `RivalsNotBothApproved`, `NoRepeatedSuggestion` for any number of sweeps, suggestions and requests | `ShapeInv`, then `HandsInv`, then `RivalsInv` or `RepeatsInv` |
| `ProposalProofs!LifecycleKeepsPromise` | `Spec => ImplementsQueue`: the sessions of `ProposalLifecycle` keep the promise of `ProposalQueue` | `RivalsInv` and `TakenInv`, then a step lemma: a `Publish` is a `Queue`, a step that makes two requests meet a `Cross`, the commit of an answer a `Reject` or an `Approve`, every other step a stutter |
| `ThesisReviewProofs!Invariance`, `NewsIsReviewed`, `WorldIsReviewed` | the invariant `Inv` of `ThesisReview`; `NewsReachesReviewer`, `ReviewerAskedOfThis`, for any articles, conditions and number of overlapping sweeps | `Inv` is inductive |
| `ThesisReviewProofs!ApprovalsDoNotFire`, `TypeCorrect` | `ApprovalsAloneDoNotFire` for any set of updates that stand, `TypeOK` | `ApprovalInv`, `TypeInv` |
| `DeliveryProofs!DeliveryTypeCorrect`, `OneLinkAtATime`, `PushUndoesNothing`, `DeadSocketsHarmless` | `DeliveryTypeOK`, `LinkedHasNoToken`, `FailsForAReason`, `DeadSocketsCostNothing` for any number of requests, pushes and sockets | `DeliveryInv` |

Why the invariants are stronger than the properties.

* `NoRejudgedArticle` is about committed trails, but a commit writes a session's copy.
  `TrailsInv` adds that every session's copy has the property too, and that what is fresh
  for a session is not in its copy under another sweep's name. That is why lost writes do
  no harm here: whole trails replace whole trails.
* `OnlyCommittedSweepsLeaveRows` needs `RowsInv`: a session's copy holds entries of itself
  and of committed sweeps only.
* `RepeatAlertNeedsReset` compares what two evaluations saw. `AlertsInv` says it of each by
  itself: the newest evaluation that an alert's sweep saw had found the signal off, already
  when the sweep has decided and not yet committed; and an evaluation, once committed, is
  never changed or joined by another of the same sweep. An earlier alert among those seen is
  firing, hence older than that newest one, which is the reset.
* Without the reviewer `OneSweep` holds: the sweep that runs is the newest begun and the
  loop's. `AlertInv` adds that the newest evaluation exists and that a decided alert still
  finds the signal off, which a second sweep would falsify; with `RowsInv` it gives that
  the running sweep's id is newer than every committed one, hence that it becomes the newest.
* `AheadInv` relates the session's copy of an untouched catalyst to the committed row: it is
  a state the ladder allows from there, with grounds if confirmed.
* `LatestArticleDecides` looks at the trail only. `NewsInv` follows an article on its way there:
  what is fresh and what is queued is oldest first but for the shuffled (`QueueInv`), what is in
  the session's trail or the committed one is in order but for the excused (`TrailInv`), and
  nothing in the window that is older than a recorded article can still arrive, unless it is
  held up (`ArrivalInv`). `saved` has its own copy of each, for a sweep that dies.
* `FiringIsRecent` spans a lookup, a store, another thread's call and an evaluation. `CacheInv`
  gives each stage its own instant: a thread about to store has an answer given since its
  call, an entry's answer was given no earlier than a TTL before it expires, and a thread that
  returns has one of `Recent`.
* `AppliedIffApproved` would fail if a second request found the proposal pending while a first was
  on its way to approving it. `HandsInv` says that a proposal no two requests dealt with is in one hand at most and
  pending there. `RivalsInv` adds that a request which is approving has the pending rivals on its
  list, or has rejected them already. `RepeatsInv` says of a draft, before it is queued,
  that it differs from what is open. The refinement needs `TakenInv`: what an approving request
  has rejected or is to reject are updates of its own row, which were right when it looked for
  them and must still be when it commits.
* `ApprovalIsEvaluated` speaks of sweeps that run, but what they count was decided when the request
  committed. `StandInv` follows the row from the open request, which nobody else can switch, over
  the committed row, on as approved unless amended, to the copy of every sweep that
  begins after it. `DoneInv` says that a sweep which is done has left an evaluation, so that
  nothing older is the newest.
* `ApprovalsAloneDoNotFire` is about whatever subset of the offers has been approved. `NoBetter` is
  what each approval keeps: no condition passes on the evaluation's values that did not then.
  Guard 7 gives `Harmless` for each offer alone; that together they are harmless is a lemma
  (`NoBetterDoesNotFire`), since the quant side, all or any, is monotone in its conditions. This is
  the step in which judging each update by itself is enough.
* `LinkedHasNoToken` needs what a request *will* write: `After` is the row as its commit leaves it,
  and `LinkInv` says that a request alone leaves no chat beside a token. `PushInv` says of a push that
  nobody disturbs that every socket in the set is still to visit, or got it, or is dead, and
  that the size it compares with is the set's.
* `NewsReachesReviewer` is about the latest evaluation, which a running sweep will replace.
  `Inv` therefore says of every sweep that has evaluated that what was published when it
  started is in what it showed, what it lost or never got, or what earlier sweeps accounted
  for; the gate closes only on news no newer than
  the latest evaluation's `created_at`, which is the *start* of that sweep's transaction: with the
  time of the insert instead (`InsertedAt`), news that arrives during a sweep slips through.

The three serial theorems have the hypothesis `~ProposalsEnabled`. It is needed: the first two
fail with overlapping sweeps (finding 1, and two sweeps that both see the signal off). All the
others are about the specifications as they are.

What the assumptions on constants stand for: verdicts, answers and created theses are of their
enumerations, which Pydantic checks at the boundary (`VerdictsAssumption`, `CreatedAssumption`,
`NewsAssumption`, `RequestsAssumption`); a review is a finite list of drafts whose values are numbers or
null (`ReviewsAssumption`); the sources are finitely many (`NewsAssumption`); a value for "none" is not
also a chat, a token, a term or a proposal (`NoChatAssumption`, `NothingAssumption`,
`BlankAssumption`); rows of different tables and requests of different kinds differ
(`RowsAssumption`, `DisjointAssumption`, `DeliveryAssumption`); bounds are natural numbers. TLC
evaluates each of them in a run.

Two proof attempts failed for a good reason, and TLC then showed the counterexamples.

* `FiringIsRecent` used to say "less than a TTL before the sweep asked". With the TTL at 0, which
  the run does not have, nothing is, though the answer is as fresh as can be: it was given after
  the sweep asked. The property now says "or since"; `evaluator_drift` passes with a TTL of 0 too.
* `LatestArticleDecides` did not list a failing source among the reasons for an article to come late.
  With one source, the code's default and the run's instance, its failure stops the sweep; with two,
  the sweep goes on with the other, and the older article of the failed one comes a sweep
  later. `heldUp` now has it, and the run passes with two sources and two articles as well.

And one model was wrong. `ApprovalSweep` used to commit an approval after the sweep it starts, as
`get_db` alone would, and recorded `ApprovalIsEvaluated` as violated. Read again line by line for
its proof, the repositories turned out to commit before the route adds the task
(`quant_proposal_repository.py:109-114`, `catalyst_proposal_repository.py:115-120`). The model now
has that order, the finding is withdrawn, and the property is proved.

Only model-checked: `SweepsEnd`, `ApprovalsEnd` and `RelevantNewsIsHeard`, since liveness
under fairness, and `ENABLED`, are out of the prover's reach.

## 6. What is not modelled

* Wording: reasons, notes, messages, rationales, ticker, logging.
* In `Sweep` and `MarketReadings`, the values of metrics and thresholds; a reading is its
  three-valued result.
* Chronology within `Sweep`, where any order of verdicts is allowed; it is the subject of
  `NewsClassify`.
* Catalyst states outside the vocabulary, which the API accepts as a plain string; the next
  sweep of the thesis then raises.
* Each news source's parsing, and each metric's computation. "Finnhub primary, yfinance
  fallback" (`quant_service.py:4-5`) is a choice by configuration (`_fetch_raw`): a failing
  source is not replaced by the other, and the model has one source.
* The reviewer's turn within `Sweep`: its rows are those of `ProposalLifecycle`, its gate and its
  guards those of `ThesisReview`, and its failures are swallowed. In `Sweep` it is only time that
  passes before the commit. `ThesisReview` has no lookback window.
* Two approvals among three or more sweeps, in the `approvals` instance: the module has them,
  and its safety theorems cover them, but for the liveness run the state space is too large.
* Proposals of whole theses: nothing creates them yet, and approving one is the status check
  and inserts.
* Values of metrics, but for the small ones of `ThesisReview`, and their slow creep below the
  gate's tolerance, which is relative to the previous evaluation only.
* The loop's interval timer: the loop may sweep at any time.
* Authentication (password hashing and JWTs around one lookup), the REST layer, the history
  tables (copies nothing reads back), the offline evaluation harness `eval/run_eval.py` and the
  command-line driver `pipeline/run.py`.
* The connection pool: sweeps, requests and sockets are bounded instead.

## 7. Findings

1. **A stale sweep overwrites a confirmed catalyst** (`sweep_ladder`). `record_verdict`
   writes the state computed from the sweep's own copy. If the loop's sweep and a background
   sweep overlap, the later commit can put `rumored` over `confirmed`, which
   `pipeline/catalysts.py:87-89` rules out.
2. **A deleted thesis alerts** (`sweep_deleted`). `run_once` lists tracked theses and re-reads
   each by id only. One deleted in between has no enabled rows, fires vacuously, and its owner is
   alerted about a thesis `theses_repository.py:86` says is off the watchlist.
3. **Two conditions on one metric** (`proposals_metric`). Guard 9 promises one condition per
   metric, and names the harm of two; but pending adds are not compared with each other,
   nor is an approval with the rows.

Two more places where the documentation and the code disagree, found while modelling. The
models follow the code, so no run can show them.

* **Repositories do commit.** `src/README.md:36` says of the repositories "flush only, never
  commit", and `:299` "Repositories flush but never commit; `get_db` owns the transaction".
  The repositories of proposals commit the request's session themselves, in `approve_*` and `reject_*`
  (`quant_proposal_repository.py:113`, `:125`, `catalyst_proposal_repository.py:119`, `:131`,
  `theses_proposal_repository.py:43`, `:51`). What the approvals promise rests on it: were the code
  brought into line with the document, the sweep an approval starts could load the rows as
  they were before it (`ApprovalIsEvaluated`), or wait for its own request's lock
  (`ApprovalsEnd`, which `ClaimsUntilSwept` breaks).
* **One verdict per pair.** `classify_batch` promises "One CatalystVerdict per (article,
  catalyst) pair that survived Pass 1" (`pipeline/llm.py:102`), but Pass 1 may name a pair twice,
  in two items or twice in one, and nothing removes the repeat (`llm.py:150-156`): the article is
  then judged twice and both verdicts are filed. `NoRejudgedArticle` holds across sweeps only.

## 8. Plan

Done, in this order: `CatalystRules`, `CatalystTrail`, `ThesisEvaluator`, `EvaluatorDrift`,
`EdgeAlerts`, `Sweep` with their proofs, `ProposalLifecycle`, `NewsClassify`, `QuantCache` with
`MarketReadings`, `ConnectionManager` and `TelegramLink` with `Delivery`, `ProposalGuards` with
`ThesisReview` and its proofs, `ApprovalSweep` and its refinement, `ProposalQueue` and its
refinement by `ProposalLifecycle`, and proofs of every safety property that a run checks: those of `ProposalLifecycle`, `Delivery`,
`MarketReadings` and `NewsClassify`, the alerts of overlapping sweeps, and guard 7 over any set
of approved updates.

What would add most next:

1. `AlertsNeedReset` as a refinement: a version of `EdgeAlerts` for overlapping sweeps.
2. That an approved update leaves its row as proposed, unless requests on that row crossed or
   the owner edited it.
3. An abstract queue of verdicts that `NewsClassify` implements.
