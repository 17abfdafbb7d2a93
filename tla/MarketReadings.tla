--------------------------- MODULE MarketReadings ---------------------------
(***************************************************************************)
(* A thesis evaluated on the metrics the cache serves: the evaluator of    *)
(* EvaluatorDrift with its readings taken from QuantCache.  Every worker   *)
(* thread belongs to a sweep of a thesis on the ticker; the evaluation     *)
(* that follows its return is one of this thesis or of another one.        *)
(***************************************************************************)
EXTENDS EvaluatorDrift, Naturals

CONSTANTS Threads, Markets, TTL, MAX_RETRIES, MaxTime, Empty   \* as in QuantCache

ASSUME CacheAssumption == /\ TTL \in Nat /\ MAX_RETRIES \in Nat /\ MaxTime \in Nat
                          /\ Markets \subseteq [0..MaxTime -> [Quants -> Reading]]

VARIABLES market, clock, cache, thread

Cache == INSTANCE QuantCache WITH Metrics <- Quants

marketvars == <<vars, market, clock, cache, thread>>

\* The thesis has been swept once, before any source answered.
MarketInit ==
  /\ Init /\ Cache!Init
  /\ readings = [q \in DOMAIN readings |-> "unknown"]

\* evaluate_conditions over the enabled rows.
ReadFrom(values, Q) == [q \in Q |-> values[q]]

\* A sweep of this thesis gets its metrics and evaluates, with the catalysts
\* as its verdicts left them.  Rows and modes are of any kind, and stay.
Evaluation(w) ==
  /\ Cache!Return(w)
  /\ \E judged \in [DOMAIN states -> CatalystState] :
       SweepFinds(ReadFrom(thread[w].values, DOMAIN readings), judged)

\* A sweep of another thesis on the ticker.
ElsewhereEvaluated(w) == Cache!Return(w) /\ UNCHANGED vars

MarketNext ==
  \/ Cache!Tick /\ UNCHANGED vars
  \/ \E w \in Threads :
       \/ (Cache!Call(w) \/ Cache!Lookup(w) \/ Cache!Store(w)) /\ UNCHANGED vars
       \/ Evaluation(w)
       \/ ElsewhereEvaluated(w)

MarketSpec == MarketInit /\ [][MarketNext]_marketvars

-----------------------------------------------------------------------------
\* The thesis, the cache and the threads stay in their types, retries bounded.
MarketTypeOK == TypeOK /\ Cache!CacheTypeOK

\* The answers the source gave while an answer to a question put at `now' was
\* young enough: less than a TTL before the question, or since.
Recent(course, present, now) ==
  {course[t] : t \in {t \in 0..present : t >= now \/ t + TTL > now}}

RecentAnswers(now) == Recent(market, clock, now)

\* A thesis fires only if its conditions held at one single instant, less than
\* a TTL before the sweep asked or since: overlapping threads, back-offs during which
\* time passes, and stores out of order neither stretch an entry's life nor
\* mix two lookups (quant_service.py:167-181).
FiringIsRecent ==
  [][\A w \in Threads :
       Evaluation(w) /\ status' = "firing" =>
         \E values \in RecentAnswers(thread[w].now) :
           ThesisHolds(ReadFrom(values, DOMAIN readings))']_marketvars

\* A sweep that asks and is answered at once, from the cache, is not told that
\* all data is missing: another sweep's failed lookup does not keep this one
\* from asking the source itself (quant_service.py:177-180).
FailureIsNotShared ==
  [][\A w \in Threads :
       thread[w].pc = "idle" /\ thread'[w].pc = "done" =>
         thread'[w].values # Cache!AllNone]_marketvars
=============================================================================
