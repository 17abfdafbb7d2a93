----------------------------- MODULE QuantCache -----------------------------
(***************************************************************************)
(* The metrics of one ticker: fetch_metrics of quant_service, called by    *)
(* sweeps in worker threads (asyncio.to_thread) over one module-level      *)
(* cache without a lock.  Each metric is abstracted to what the thesis's   *)
(* condition on it makes of its value; "unknown" is None, which a source   *)
(* that does not carry the metric also answers.  The market is what the    *)
(* source would answer at each instant, and does not depend on who asks.   *)
(***************************************************************************)
EXTENDS Naturals

CONSTANTS
  Metrics,       \* METRIC_MAP, those the thesis reads
  Threads,       \* worker threads
  Markets,       \* the courses the market may take
  TTL,           \* QUANT_CACHE_TTL_SECONDS
  MAX_RETRIES,   \* _MAX_RETRIES
  MaxTime,       \* bound of the model
  Empty          \* no cache entry

Resolution == {"pass", "fail", "unknown"}
Values     == [Metrics -> Resolution]

VARIABLES
  market,     \* the source's values at each instant
  clock,      \* time.monotonic()
  cache,      \* _cache[ticker]: when the entry expires and its values
  thread      \* where each worker thread is

cachevars == <<market, clock, cache, thread>>

AllNone == [m \in Metrics |-> "unknown"]        \* _all_none

Idle == [pc |-> "idle", now |-> 0, tries |-> 0, values |-> AllNone]

\* The entry and the threads stay in their types; a thread never tries more
\* often than it may (quant_service.py:143-155).
CacheTypeOK ==
  /\ market \in Markets
  /\ clock \in 0..MaxTime
  /\ cache \in {Empty} \union [expires : Nat, values : Values]
  /\ thread \in [Threads -> [pc : {"idle", "lookup", "store", "done"},
                             now : 0..MaxTime, tries : 0..MAX_RETRIES, values : Values]]

Init == /\ market \in Markets /\ clock = 0
        /\ cache = Empty
        /\ thread = [w \in Threads |-> Idle]

Tick == /\ clock < MaxTime
        /\ clock' = clock + 1
        /\ UNCHANGED <<market, cache, thread>>

Hit(now) == cache # Empty /\ cache.expires > now

\* A sweep asks: the cached values, or a lookup.
Call(w) ==
  /\ thread[w].pc = "idle"
  /\ thread' = [thread EXCEPT ![w] =
       [Idle EXCEPT !.now = clock,
                    !.pc = IF Hit(clock) THEN "done" ELSE "lookup",
                    !.values = IF Hit(clock) THEN cache.values ELSE AllNone]]
  /\ UNCHANGED <<market, clock, cache>>

\* Slip: one attempt more.
RetriesOnceMore(w) == thread[w].tries <= MAX_RETRIES

MayRetry(w) == thread[w].tries < MAX_RETRIES

\* One attempt of _fetch_with_retry: the source answers, or turns the call
\* away for its rate and the thread backs off, or it fails for good.
Lookup(w) ==
  /\ thread[w].pc = "lookup"
  /\ \/ \E v \in {market[clock], AllNone} :
          thread' = [thread EXCEPT ![w].pc = "store", ![w].values = v]
     \/ /\ MayRetry(w)
        /\ thread' = [thread EXCEPT ![w].tries = @ + 1]
  /\ UNCHANGED <<market, clock, cache>>

\* Slip: the entry lives for a whole TTL from the moment it is written.
ExpiryFromStore(w) == clock + TTL

Expiry(w) == thread[w].now + TTL

\* Slip: whatever the lookup returned is cached.
AlwaysWorthCaching(values) == TTL > 0

WorthCaching(values) == TTL > 0 /\ \E m \in Metrics : values[m] # "unknown"

Store(w) ==
  /\ thread[w].pc = "store"
  /\ cache' = IF WorthCaching(thread[w].values)
              THEN [expires |-> Expiry(w), values |-> thread[w].values] ELSE cache
  /\ thread' = [thread EXCEPT ![w].pc = "done"]
  /\ UNCHANGED <<market, clock>>

\* The values reach the sweep.
Return(w) ==
  /\ thread[w].pc = "done"
  /\ thread' = [thread EXCEPT ![w] = Idle]
  /\ UNCHANGED <<market, clock, cache>>
=============================================================================
