----------------------- MODULE EvaluatorDriftProofs ------------------------
(***************************************************************************)
(* Proofs about EvaluatorDrift, for any sets of conditions and catalysts,  *)
(* and about MarketReadings, for any threads, courses of the market,       *)
(* retries and lifetime of the cache.                                      *)
(***************************************************************************)
EXTENDS MarketReadings, TLAPS

\* The inductive invariant: the status is the evaluation of the inputs.
Evaluated == status = Evaluate(qmode, readings, cmode, states)

IInv == TypeOK /\ Evaluated

\* Every evaluation gives one of the three statuses.
LEMMA EvaluateInStatus ==
  ASSUME NEW qm, NEW rs, NEW cm, NEW ss
  PROVE  Evaluate(qm, rs, cm, ss) \in EvalStatus
BY DEF Evaluate, EvalStatus

\* A thesis is evaluated as it is created.
LEMMA InitIInv == Init => IInv
<1> SUFFICES ASSUME Init PROVE IInv
  OBVIOUS
<1>1. PICK Q \in SUBSET Quants : readings \in [Q -> Reading]
  BY DEF Init
<1>2. PICK C \in SUBSET Catalysts : states = [c \in C |-> "unconfirmed"]
  BY DEF Init
<1>. QED
  BY <1>1, <1>2, EvaluateInStatus DEF Init, IInv, TypeOK, Evaluated, CatalystState

\* A sweep that finds new inputs evaluates them.
LEMMA StepIInv == IInv /\ [Next]_vars => IInv'
<1> SUFFICES ASSUME IInv, [Next]_vars PROVE IInv'
  OBVIOUS
<1>1. ASSUME NEW found \in [DOMAIN readings -> Reading],
             NEW judged \in [DOMAIN states -> CatalystState], SweepFinds(found, judged)
      PROVE  IInv'
  <2>1. /\ readings' = found /\ DOMAIN found = DOMAIN readings
        /\ states' = judged /\ DOMAIN judged = DOMAIN states
    BY <1>1 DEF SweepFinds
  <2>. QED
    BY <1>1, <2>1, EvaluateInStatus DEF SweepFinds, Sweep, IInv, TypeOK, Evaluated
<1>2. ASSUME RowsOrModesChange PROVE IInv'
  <2>1. PICK Q \in SUBSET Quants : readings' \in [Q -> Reading]
    BY <1>2 DEF RowsOrModesChange
  <2>2. PICK C \in SUBSET Catalysts :
          states' = [c \in C |-> IF c \in DOMAIN states THEN states[c] ELSE "unconfirmed"]
    BY <1>2 DEF RowsOrModesChange
  <2>3. states' \in [C -> CatalystState]
    BY <2>2 DEF IInv, TypeOK, CatalystState
  <2>4. qmode' \in QuantMode /\ cmode' \in CatalystMode /\ Sweep
    BY <1>2 DEF RowsOrModesChange
  <2>. QED
    BY <2>1, <2>3, <2>4, EvaluateInStatus DEF Sweep, IInv, TypeOK, Evaluated
<1>3. ASSUME UNCHANGED vars PROVE IInv'
  BY <1>3 DEF vars, IInv, TypeOK, Evaluated
<1>. QED BY <1>1, <1>2, <1>3 DEF Next

-----------------------------------------------------------------------------
\* The two extreme ways the missing data may turn out.
Best  == [q \in DOMAIN readings |-> IF readings[q] = "unknown" THEN "pass" ELSE readings[q]]
Worst == [q \in DOMAIN readings |-> IF readings[q] = "unknown" THEN "fail" ELSE readings[q]]

\* Taking all missing readings as pass, or all as fail, is to complete them.
LEMMA Extremes == TypeOK => Best \in Completions /\ Worst \in Completions
BY DEF TypeOK, Best, Worst, Completions, Reading

\* The three-valued outcome of the quant side, said of the completions.
LEMMA QuantIsForced ==
  ASSUME TypeOK
  PROVE  /\ EvalQuant(qmode, readings) = "ok"   <=> \A f \in Completions : QuantHolds(f)
         /\ EvalQuant(qmode, readings) = "fail" <=> \A f \in Completions : ~QuantHolds(f)
<1> USE DEF QuantMode, Reading, TypeOK
<1>1. ASSUME NEW f \in Completions
      PROVE  /\ DOMAIN f = DOMAIN readings
             /\ \A q \in DOMAIN readings :
                  /\ f[q] \in {"pass", "fail"}
                  /\ readings[q] \in Reading
                  /\ readings[q] # "unknown" => f[q] = readings[q]
  BY DEF Completions
<1>2. ASSUME NEW f \in Completions, QuantOK(qmode, readings) PROVE QuantHolds(f)
  BY <1>1, <1>2 DEF QuantOK, Read, QuantHolds
<1>3. QuantHolds(Worst) => QuantOK(qmode, readings)
  BY DEF Worst, QuantOK, Read, QuantHolds
<1>4. ASSUME NEW f \in Completions, ~QuantOK(qmode, readings),
             ~QuantUnknown(qmode, readings), QuantHolds(f)
      PROVE  FALSE
  BY <1>1, <1>4 DEF QuantOK, QuantUnknown, Read, QuantHolds
<1>5. ASSUME QuantUnknown(qmode, readings) PROVE QuantHolds(Best)
  BY <1>5 DEF Best, QuantUnknown, QuantOK, Read, QuantHolds
<1>6. EvalQuant(qmode, readings) = "ok" <=> QuantOK(qmode, readings)
  BY DEF EvalQuant
<1>7. EvalQuant(qmode, readings) = "fail"
        <=> ~QuantOK(qmode, readings) /\ ~QuantUnknown(qmode, readings)
  BY DEF EvalQuant
<1>. QED
  BY <1>2, <1>3, <1>4, <1>5, <1>6, <1>7, Extremes

\* The catalyst side is two-valued and has no missing data.
LEMMA CatalystsAgree == TypeOK => (EvalCatalysts(cmode, states) <=> CatalystsHold)
BY DEF TypeOK, CatalystMode, EvalCatalysts, CatalystsHold, IsMet

\* A status that is evaluated from the inputs is the one they force.
LEMMA ForcedByIInv == IInv => StatusIsForced
<1> SUFFICES ASSUME IInv PROVE StatusIsForced
  OBVIOUS
<1>1. TypeOK /\ status = Evaluate(qmode, readings, cmode, states)
  BY DEF IInv, Evaluated
<1>2. EvalQuant(qmode, readings) \in {"ok", "unknown", "fail"}
  BY DEF EvalQuant
<1>3. status = "firing" <=> EvalQuant(qmode, readings) = "ok" /\ CatalystsHold
  BY <1>1, CatalystsAgree DEF Evaluate
<1>4. status = "not_met" <=> EvalQuant(qmode, readings) = "fail" \/ ~CatalystsHold
  BY <1>1, <1>2, CatalystsAgree DEF Evaluate
<1>5. Best \in Completions
  BY <1>1, Extremes
<1>. QED
  BY <1>1, <1>3, <1>4, <1>5, QuantIsForced DEF StatusIsForced, ThesisHolds

-----------------------------------------------------------------------------
\* The inputs and the status stay in their types (evaluator.py:31-82).
THEOREM TypeCorrect == Spec => []TypeOK
<1>1. IInv => TypeOK
  BY DEF IInv
<1>. QED BY <1>1, InitIInv, StepIInv, PTL DEF Spec

\* Whatever the rows, a thesis fires exactly when it is true however the
\* missing readings turn out, and is "not_met" exactly when it is false however
\* they turn out (evaluator.py:31-82, 99-127, 147-171).
THEOREM StatusForced == Spec => []StatusIsForced
BY InitIInv, StepIInv, ForcedByIInv, PTL DEF Spec

\* Losing data never makes a thesis fire and never turns a firing one into
\* "not_met" (evaluator.py:7-10).
THEOREM LostDataNeverSilent == Spec => LostDataIsNeverSilent
<1>1. IInv /\ IInv' /\ [Next]_vars =>
        [DataIsLost => /\ status = "firing"  => status' # "not_met"
                       /\ status # "firing" => status' # "firing"]_vars
  <2> SUFFICES ASSUME IInv, IInv', DataIsLost
               PROVE  /\ status = "firing"  => status' # "not_met"
                      /\ status # "firing" => status' # "firing"
    OBVIOUS
  <2>1. /\ status = "firing" <=> \A f \in Completions : ThesisHolds(f)
        /\ Best \in Completions
    BY ForcedByIInv, Extremes DEF StatusIsForced, IInv
  <2>2. /\ status' = "firing"  <=> \A f \in Completions' : ThesisHolds(f)'
        /\ status' = "not_met" <=> \A f \in Completions' : ~ThesisHolds(f)'
    <3>1. StatusIsForced'
      BY ForcedByIInv, PTL
    <3>. QED BY <3>1 DEF StatusIsForced
  \* What may still happen only grows when data is lost.
  <2>3. \A f \in Completions : f \in Completions'
    BY DEF DataIsLost, Completions
  <2>4. \A f : ThesisHolds(f)' <=> ThesisHolds(f)
    BY DEF DataIsLost, ThesisHolds, QuantHolds, CatalystsHold
  <2>. QED BY <2>1, <2>2, <2>3, <2>4
<1>. QED BY <1>1, InitIInv, StepIInv, PTL DEF Spec, LostDataIsNeverSilent

-----------------------------------------------------------------------------
(***************************************************************************)
(* The metrics the cache serves.  Whatever the threads have looked up and  *)
(* the cache holds are answers of the source, each no older than what it   *)
(* may still be used for: a thread that has asked since its question, the  *)
(* entry a TTL before it expires.                                          *)
(***************************************************************************)
\* The entry e, at the instant present of the market's course.
SoundEntry(e, course, present) ==
  /\ e.values # Cache!AllNone
  /\ \E t \in 0..present : e.values = course[t] /\ e.expires <= t + TTL

\* The thread r, at the instant present of the market's course.
SoundThread(r, course, present) ==
  /\ r.now <= present
  /\ r.pc = "store" => \/ r.values = Cache!AllNone
                       \/ \E t \in 0..present : r.now <= t /\ r.values = course[t]
  /\ r.pc = "done"  => \/ r.values = Cache!AllNone
                       \/ r.values \in Recent(course, present, r.now)

CacheInv ==
  /\ Cache!CacheTypeOK
  /\ cache # Empty => SoundEntry(cache, market, clock)
  /\ \A w \in Threads : SoundThread(thread[w], market, clock)

ThreadState == [pc : {"idle", "lookup", "store", "done"}, now : 0..MaxTime,
                tries : 0..MAX_RETRIES, values : Cache!Values]

\* What the assumptions say of the cache and of what the source answers.
LEMMA MarketFacts ==
  /\ TTL \in Nat /\ MAX_RETRIES \in Nat /\ MaxTime \in Nat
  /\ Cache!AllNone \in Cache!Values /\ Cache!Idle \in ThreadState
  /\ \A course \in Markets, t \in 0..MaxTime : course[t] \in Cache!Values
<1>1. TTL \in Nat /\ MAX_RETRIES \in Nat /\ MaxTime \in Nat
  BY CacheAssumption
<1>2. Cache!AllNone \in Cache!Values
  BY DEF Cache!AllNone, Cache!Values, Cache!Resolution
<1>3. Cache!Idle \in ThreadState
  BY <1>1, <1>2 DEF Cache!Idle, ThreadState
<1>4. ASSUME NEW course \in Markets, NEW t \in 0..MaxTime
      PROVE  course[t] \in Cache!Values
  BY CacheAssumption DEF Reading, Cache!Values, Cache!Resolution
<1>. QED BY <1>1, <1>2, <1>3, <1>4

\* An answer stays recent for a question as time passes.
LEMMA RecentGrows ==
  ASSUME NEW course, NEW now, NEW present \in Nat
  PROVE  Recent(course, present, now) \subseteq Recent(course, present + 1, now)
BY DEF Recent

\* A thread that is sound now is sound an instant later.
LEMMA SoundLater ==
  ASSUME NEW r, NEW course, NEW present \in Nat, r.now \in Nat, SoundThread(r, course, present)
  PROVE  SoundThread(r, course, present + 1)
<1>1. 0..present \subseteq 0..(present + 1)
  OBVIOUS
<1>. QED BY <1>1, RecentGrows DEF SoundThread

\* An empty cache and idle threads are sound.
LEMMA CacheInit == Cache!Init => CacheInv
<1> SUFFICES ASSUME Cache!Init PROVE CacheInv
  OBVIOUS
<1>1. Cache!CacheTypeOK
  BY MarketFacts DEF Cache!Init, Cache!CacheTypeOK, ThreadState
<1>2. SoundThread(Cache!Idle, market, clock)
  BY DEF Cache!Init, SoundThread, Cache!Idle
<1>. QED BY <1>1, <1>2 DEF Cache!Init, CacheInv

\* A step of thread w, which becomes r, at one instant of the market.
LEMMA ThreadMoves ==
  ASSUME CacheInv, NEW w \in Threads, NEW r \in ThreadState,
         thread' = [thread EXCEPT ![w] = r], SoundThread(r, market, clock),
         UNCHANGED <<market, clock>>,
         cache' = cache \/ (/\ cache' \in [expires : Nat, values : Cache!Values]
                            /\ SoundEntry(cache', market, clock))
  PROVE  CacheInv'
<1>1. Cache!CacheTypeOK'
  BY DEF CacheInv, Cache!CacheTypeOK, ThreadState
<1>2. \A u \in Threads : thread'[u] = r \/ thread'[u] = thread[u]
  BY DEF CacheInv, Cache!CacheTypeOK
<1>3. \A u \in Threads : SoundThread(thread'[u], market, clock)
  BY <1>2 DEF CacheInv
<1>4. cache' # Empty => SoundEntry(cache', market, clock)
  BY DEF CacheInv
<1>. QED BY <1>1, <1>3, <1>4 DEF CacheInv

\* No overlap of worker threads makes an entry, or an answer, unsound.
LEMMA CacheStep ==
  ASSUME CacheInv, [MarketNext]_marketvars
  PROVE  CacheInv'
<1>0. /\ clock \in 0..MaxTime /\ market \in Markets
      /\ thread \in [Threads -> ThreadState]
      /\ cache \in {Empty} \union [expires : Nat, values : Cache!Values]
  BY DEF CacheInv, Cache!CacheTypeOK, ThreadState
<1>1. CASE Cache!Tick
  <2>1. clock' = clock + 1 /\ clock' \in 0..MaxTime /\ UNCHANGED <<market, cache, thread>>
    BY <1>0, <1>1, MarketFacts DEF Cache!Tick
  <2>2. \A w \in Threads : SoundThread(thread[w], market, clock')
    BY <1>0, <2>1, SoundLater DEF CacheInv, ThreadState
  <2>3. cache # Empty => SoundEntry(cache, market, clock')
    BY <1>0, <2>1 DEF CacheInv, SoundEntry
  <2>4. Cache!CacheTypeOK'
    BY <2>1 DEF CacheInv, Cache!CacheTypeOK
  <2>. QED BY <2>1, <2>2, <2>3, <2>4 DEF CacheInv
\* A cached answer is recent: its entry has not expired.
<1>2. ASSUME NEW w \in Threads, Cache!Call(w) PROVE CacheInv'
  <2>1. PICK r : r = [Cache!Idle EXCEPT
                        !.now = clock,
                        !.pc = IF Cache!Hit(clock) THEN "done" ELSE "lookup",
                        !.values = IF Cache!Hit(clock) THEN cache.values ELSE Cache!AllNone]
    OBVIOUS
  <2>2. /\ r \in ThreadState /\ r.now = clock
        /\ r.pc = IF Cache!Hit(clock) THEN "done" ELSE "lookup"
        /\ Cache!Hit(clock) => r.values = cache.values
    BY <1>0, <2>1, MarketFacts DEF ThreadState, Cache!Hit
  <2>3. ASSUME Cache!Hit(clock) PROVE cache.values \in Recent(market, clock, clock)
    <3>1. PICK t \in 0..clock : cache.values = market[t] /\ cache.expires <= t + TTL
      BY <2>3 DEF Cache!Hit, CacheInv, SoundEntry
    <3>2. cache.expires > clock /\ cache.expires \in Nat
      BY <1>0, <2>3 DEF Cache!Hit
    <3>3. t + TTL > clock
      BY <1>0, <3>1, <3>2, MarketFacts
    <3>. QED BY <3>1, <3>3 DEF Recent
  <2>4. SoundThread(r, market, clock)
    BY <1>0, <2>2, <2>3 DEF SoundThread
  <2>5. thread' = [thread EXCEPT ![w] = r] /\ UNCHANGED <<market, clock, cache>>
    BY <1>2, <2>1 DEF Cache!Call
  <2>. QED BY <2>2, <2>4, <2>5, ThreadMoves
\* The source answers now, and the question was not put later.
<1>3. ASSUME NEW w \in Threads, Cache!Lookup(w) PROVE CacheInv'
  <2>1. PICK q : q = thread[w]
    OBVIOUS
  <2>2. /\ q \in ThreadState /\ q.pc = "lookup" /\ SoundThread(q, market, clock)
        /\ UNCHANGED <<market, clock, cache>>
    BY <1>0, <1>3, <2>1 DEF Cache!Lookup, CacheInv
  <2>3. ASSUME NEW v \in {market[clock], Cache!AllNone},
               thread' = [thread EXCEPT ![w].pc = "store", ![w].values = v]
        PROVE  CacheInv'
    <3>1. PICK r : r = [q EXCEPT !.pc = "store", !.values = v]
      OBVIOUS
    <3>2. v \in Cache!Values
      BY <1>0, MarketFacts
    <3>3. r \in ThreadState /\ r.pc = "store" /\ r.values = v /\ r.now = q.now
      BY <2>2, <3>1, <3>2 DEF ThreadState
    <3>4. SoundThread(r, market, clock)
      BY <1>0, <2>2, <3>3 DEF SoundThread
    <3>5. thread' = [thread EXCEPT ![w] = r]
      BY <1>0, <2>1, <2>3, <3>1
    <3>. QED BY <2>2, <3>3, <3>4, <3>5, ThreadMoves
  <2>4. ASSUME Cache!MayRetry(w), thread' = [thread EXCEPT ![w].tries = @ + 1]
        PROVE  CacheInv'
    <3>1. PICK r : r = [q EXCEPT !.tries = @ + 1]
      OBVIOUS
    <3>2. q.tries \in 0..MAX_RETRIES /\ q.tries < MAX_RETRIES
      BY <2>1, <2>2, <2>4 DEF Cache!MayRetry, ThreadState
    <3>3. /\ r \in ThreadState /\ r.pc = "lookup" /\ r.now = q.now
      BY <2>2, <3>1, <3>2, MarketFacts DEF ThreadState
    <3>4. SoundThread(r, market, clock)
      BY <2>2, <3>3 DEF SoundThread
    <3>5. thread' = [thread EXCEPT ![w] = r]
      BY <1>0, <2>1, <2>4, <3>1
    <3>. QED BY <2>2, <3>3, <3>4, <3>5, ThreadMoves
  <2>. QED BY <1>3, <2>3, <2>4 DEF Cache!Lookup
\* What is stored is an answer since the question, the question's age its age.
<1>4. ASSUME NEW w \in Threads, Cache!Store(w) PROVE CacheInv'
  <2>1. PICK q : q = thread[w]
    OBVIOUS
  <2>2. PICK r : r = [q EXCEPT !.pc = "done"]
    OBVIOUS
  <2>3. /\ q \in ThreadState /\ q.pc = "store" /\ SoundThread(q, market, clock)
        /\ UNCHANGED <<market, clock>> /\ thread' = [thread EXCEPT ![w] = r]
    BY <1>0, <1>4, <2>1, <2>2 DEF Cache!Store, CacheInv
  <2>4. r \in ThreadState /\ r.pc = "done" /\ r.values = q.values /\ r.now = q.now
    BY <2>2, <2>3 DEF ThreadState
  <2>5. SoundThread(r, market, clock)
    BY <2>3, <2>4 DEF SoundThread, Recent, ThreadState
  <2>6. ASSUME Cache!WorthCaching(q.values)
        PROVE  /\ cache' \in [expires : Nat, values : Cache!Values]
               /\ SoundEntry(cache', market, clock)
    <3>1. q.values # Cache!AllNone
      BY <2>6 DEF Cache!WorthCaching, Cache!AllNone
    <3>2. PICK t \in 0..clock : q.now <= t /\ q.values = market[t]
      BY <2>3, <3>1 DEF SoundThread
    <3>3. cache' = [expires |-> q.now + TTL, values |-> q.values]
      BY <1>4, <2>1, <2>6 DEF Cache!Store, Cache!Expiry
    <3>4. q.now \in Nat /\ q.values \in Cache!Values
      BY <2>3 DEF ThreadState
    <3>5. q.now + TTL \in Nat /\ q.now + TTL <= t + TTL
      BY <1>0, <3>2, <3>4, MarketFacts
    <3>. QED BY <3>1, <3>2, <3>3, <3>4, <3>5 DEF SoundEntry
  <2>7. cache' = cache \/ Cache!WorthCaching(q.values)
    BY <1>4, <2>1 DEF Cache!Store
  <2>. QED BY <2>3, <2>4, <2>5, <2>6, <2>7, ThreadMoves
<1>5. ASSUME NEW w \in Threads, Cache!Return(w) PROVE CacheInv'
  <2>1. SoundThread(Cache!Idle, market, clock)
    BY <1>0 DEF SoundThread, Cache!Idle
  <2>2. thread' = [thread EXCEPT ![w] = Cache!Idle] /\ UNCHANGED <<market, clock, cache>>
    BY <1>5 DEF Cache!Return
  <2>. QED BY <2>1, <2>2, ThreadMoves, MarketFacts
<1>6. CASE UNCHANGED marketvars
  BY <1>6 DEF marketvars, CacheInv, Cache!CacheTypeOK
<1>. QED
  BY <1>1, <1>2, <1>3, <1>4, <1>5, <1>6 DEF MarketNext, Evaluation, ElsewhereEvaluated

-----------------------------------------------------------------------------
(***************************************************************************)
(* The thesis evaluated on these metrics.                                  *)
(***************************************************************************)
LEMMA MarketInitIs == MarketInit => IInv /\ CacheInv
BY InitIInv, CacheInit DEF MarketInit

\* What a sweep reads from the metrics are readings of its conditions.
LEMMA ReadingsRead ==
  ASSUME TypeOK, CacheInv, NEW w \in Threads
  PROVE  ReadFrom(thread[w].values, DOMAIN readings) \in [DOMAIN readings -> Reading]
<1>1. thread[w].values \in Cache!Values
  BY DEF CacheInv, Cache!CacheTypeOK
<1>. QED BY <1>1 DEF ReadFrom, TypeOK, Cache!Values, Cache!Resolution, Reading

\* A sweep that reads through the cache is a sweep of EvaluatorDrift.
LEMMA MarketStepIsDrift ==
  ASSUME TypeOK, CacheInv, [MarketNext]_marketvars
  PROVE  [Next]_vars
<1>1. ASSUME NEW w \in Threads, Evaluation(w) PROVE Next
  BY <1>1, ReadingsRead DEF Evaluation, Next
<1>. QED BY <1>1 DEF MarketNext, marketvars, ElsewhereEvaluated

\* Both invariants are kept by every step of the market.
LEMMA MarketStep ==
  ASSUME IInv, CacheInv, [MarketNext]_marketvars
  PROVE  IInv' /\ CacheInv'
<1>1. [Next]_vars
  BY MarketStepIsDrift DEF IInv
<1>. QED BY <1>1, StepIInv, CacheStep

\* A thesis that reads its metrics through the cache is one whose inputs
\* drift: nothing the threads do gives it inputs EvaluatorDrift does not have
\* (quant_service.py:158-184, scheduler_service.py:255-261).
THEOREM MarketImplementsDrift == MarketSpec => Spec
<1>1. IInv /\ CacheInv /\ [MarketNext]_marketvars => [Next]_vars
  BY MarketStepIsDrift DEF IInv
<1>2. MarketInit => Init
  BY DEF MarketInit
<1>. QED BY <1>1, <1>2, MarketInitIs, MarketStep, PTL DEF MarketSpec, Spec

\* The thesis, the cache and the threads stay in their types, and no thread
\* retries more often than it may (quant_service.py:137-184).
THEOREM MarketTypeCorrect == MarketSpec => []MarketTypeOK
<1>1. IInv /\ CacheInv => MarketTypeOK
  BY DEF IInv, CacheInv, MarketTypeOK
<1>. QED BY <1>1, MarketInitIs, MarketStep, PTL DEF MarketSpec

\* The status of a thesis swept on cached metrics is forced by them, and lost
\* data is never silent there (evaluator.py:7-10, 31-82).
THEOREM MarketStatusForced == MarketSpec => []StatusIsForced /\ LostDataIsNeverSilent
BY MarketImplementsDrift, StatusForced, LostDataNeverSilent, PTL

\* A sweep answered from the cache is never told that all data is missing: an
\* entry holds a value of at least one metric (quant_service.py:177-180).
THEOREM FailuresNotShared == MarketSpec => FailureIsNotShared
<1>1. ASSUME CacheInv, [MarketNext]_marketvars, NEW w \in Threads,
             thread[w].pc = "idle", thread'[w].pc = "done"
      PROVE  thread'[w].values # Cache!AllNone
  <2>0. thread \in [Threads -> ThreadState]
    BY <1>1 DEF CacheInv, Cache!CacheTypeOK, ThreadState
  <2>1. ASSUME NEW u \in Threads, Cache!Call(u)
        PROVE  thread'[w].values # Cache!AllNone
    <3>1. w = u
      BY <1>1, <2>0, <2>1 DEF Cache!Call
    <3>2. /\ thread'[w].pc = IF Cache!Hit(clock) THEN "done" ELSE "lookup"
          /\ Cache!Hit(clock) => thread'[w].values = cache.values
      BY <2>0, <2>1, <3>1 DEF Cache!Call, Cache!Idle
    <3>3. Cache!Hit(clock)
      BY <1>1, <3>2
    <3>. QED BY <1>1, <3>2, <3>3 DEF CacheInv, SoundEntry, Cache!Hit
  \* No other step takes an idle thread to its answer.
  <2>2. ASSUME NEW u \in Threads, Cache!Lookup(u) \/ Cache!Store(u) \/ Cache!Return(u)
        PROVE  FALSE
    <3>1. thread[u].pc # "idle" /\ (u # w => thread'[w] = thread[w])
      BY <2>0, <2>2 DEF Cache!Lookup, Cache!Store, Cache!Return
    <3>. QED BY <1>1, <3>1
  <2>3. CASE UNCHANGED thread
    BY <1>1, <2>3
  <2>. QED
    BY <1>1, <2>1, <2>2, <2>3
       DEF MarketNext, marketvars, Cache!Tick, Evaluation, ElsewhereEvaluated
<1>2. CacheInv /\ [MarketNext]_marketvars =>
        [\A w \in Threads :
           thread[w].pc = "idle" /\ thread'[w].pc = "done" =>
             thread'[w].values # Cache!AllNone]_marketvars
  BY <1>1
<1>. QED BY <1>2, MarketInitIs, MarketStep, PTL DEF MarketSpec, FailureIsNotShared

-----------------------------------------------------------------------------
\* A thesis that fires holds of the readings themselves, and not because all
\* of them are missing.
FiringIsGrounded ==
  status = "firing" =>
    /\ ThesisHolds(readings)
    /\ DOMAIN readings # {} => \E q \in DOMAIN readings : readings[q] # "unknown"

\* A thesis that fires holds of its readings, and some reading is there.
LEMMA FiringGrounded == IInv => FiringIsGrounded
<1> SUFFICES ASSUME IInv, status = "firing"
             PROVE  /\ ThesisHolds(readings)
                    /\ DOMAIN readings # {} => \E q \in DOMAIN readings : readings[q] # "unknown"
  BY DEF FiringIsGrounded
<1>1. TypeOK /\ EvalQuant(qmode, readings) = "ok" /\ CatalystsHold
  BY CatalystsAgree DEF IInv, Evaluated, Evaluate
<1>2. QuantOK(qmode, readings)
  BY <1>1 DEF EvalQuant
<1>3. /\ QuantHolds(readings)
      /\ DOMAIN readings # {} => \E q \in DOMAIN readings : readings[q] # "unknown"
  BY <1>1, <1>2 DEF QuantOK, QuantHolds, Read, TypeOK, Reading, QuantMode
<1>. QED BY <1>1, <1>3 DEF ThesisHolds

\* A thesis fires only on conditions that held at one instant, less than a TTL
\* before its sweep asked or since, however threads overlap, back off or store
\* out of order (quant_service.py:167-181).
THEOREM FiresOnRecent == MarketSpec => FiringIsRecent
<1>1. ASSUME IInv, CacheInv, IInv', NEW w \in Threads, Evaluation(w), status' = "firing"
      PROVE  \E values \in RecentAnswers(thread[w].now) :
               ThesisHolds(ReadFrom(values, DOMAIN readings))'
  <2>1. PICK values : values = thread[w].values
    OBVIOUS
  <2>2. readings' = ReadFrom(values, DOMAIN readings) /\ DOMAIN readings' = DOMAIN readings
    BY <1>1, <2>1 DEF Evaluation, SweepFinds, ReadFrom
  <2>3. /\ ThesisHolds(readings)'
        /\ DOMAIN readings' # {} => \E q \in DOMAIN readings' : readings'[q] # "unknown"
    <3>1. FiringIsGrounded'
      BY <1>1, FiringGrounded, PTL
    <3>. QED BY <1>1, <3>1 DEF FiringIsGrounded
  <2>4. SoundThread(thread[w], market, clock) /\ thread[w].pc = "done"
    BY <1>1 DEF Evaluation, Cache!Return, CacheInv
  <2>5. CASE values \in RecentAnswers(thread[w].now)
    <3>1. ThesisHolds(ReadFrom(values, DOMAIN readings))'
      BY <2>2, <2>3 DEF ThesisHolds, QuantHolds, ReadFrom
    <3>. QED BY <2>5, <3>1
  \* Without conditions any answer will do, the present one among them.
  <2>6. CASE DOMAIN readings' = {}
    <3>1. /\ thread[w].now \in Nat /\ clock \in Nat /\ thread[w].now <= clock
      BY <1>1, <2>4, MarketFacts DEF CacheInv, Cache!CacheTypeOK, SoundThread
    <3>2. PICK present : present = market[clock]
      OBVIOUS
    <3>3. present \in RecentAnswers(thread[w].now)
      BY <3>1, <3>2 DEF RecentAnswers, Recent
    <3>4. ThesisHolds(ReadFrom(present, DOMAIN readings))'
      BY <2>3, <2>6 DEF ThesisHolds, QuantHolds, ReadFrom
    <3>. QED BY <3>3, <3>4
  <2>7. CASE values = Cache!AllNone /\ DOMAIN readings' # {}
    <3>1. \A q \in DOMAIN readings' : readings'[q] = "unknown"
      BY <1>1, <2>2, <2>7 DEF ReadFrom, Cache!AllNone, IInv, TypeOK
    <3>. QED BY <2>3, <2>7, <3>1
  <2>. QED BY <2>1, <2>4, <2>5, <2>6, <2>7 DEF SoundThread, RecentAnswers
<1>2. IInv /\ CacheInv /\ IInv' /\ [MarketNext]_marketvars =>
        [\A w \in Threads :
           Evaluation(w) /\ status' = "firing" =>
             \E values \in RecentAnswers(thread[w].now) :
               ThesisHolds(ReadFrom(values, DOMAIN readings))']_marketvars
  BY <1>1
<1>. QED BY <1>2, MarketInitIs, MarketStep, PTL DEF MarketSpec, FiringIsRecent
=============================================================================
