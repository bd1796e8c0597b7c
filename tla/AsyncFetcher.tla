---------------------------- MODULE AsyncFetcher ----------------------------
(***************************************************************************)
(* The prefetch mode (internal/exporter/asyncFetcher.go).  One AsyncFetcher *)
(* per configured endpoint: a worker goroutine that takes one permit of the *)
(* shared semaphore, refreshes the endpoint's metric cache from the broker  *)
(* and waits for the next tick; and, inside every refresh, a scraping       *)
(* goroutine that feeds the worker through a bounded channel.  A scrape of  *)
(* the endpoint copies the cache under the mutex, at any moment.            *)
(*                                                                          *)
(* Every section the code runs under f.mutex is one action.  What the       *)
(* broker reports (CollectPrometheusMetric, module Exporter) is any         *)
(* sequence of metrics; the scraping goroutine may end at any point, since  *)
(* a recovered panic and a normal return both just close the channel.       *)
(***************************************************************************)
EXTENDS Integers, Sequences, FiniteSets

CONSTANTS Fetchers,                 \* the prefetched endpoints
          Names,                    \* metric identities: PrometheusMetric.Name()
          Values,                   \* sample values
          Absent,                   \* "no such key in the map"
          ParallelSempConnections,  \* permits of the semaphore
          CapMetricChan,            \* capMetricChan (1000)
          MetricCacheChunkSize,     \* metricCacheChunkSize (100)
          Cancellable               \* FALSE: context.Background(), as main does

Metric == [name: Names, value: Values]
Entry == [value: Values, deprecated: BOOLEAN]

ASSUME FetchersFinite == IsFiniteSet(Fetchers)
ASSUME AbsentAssumption == Absent \notin Values /\ Absent \notin Entry
ASSUME BoundsAssumption == /\ ParallelSempConnections \in Nat \ {0}
                           /\ CapMetricChan \in Nat \ {0}
                           /\ MetricCacheChunkSize \in Nat \ {0}
ASSUME CancellableAssumption == Cancellable \in BOOLEAN

VARIABLES
  pc,        \* where f's worker is
  metrics,   \* f.metrics: the cache, keyed by metric name
  chan,      \* metricsChan of the running refresh
  closed,    \* the scraping goroutine has ended and closed metricsChan
  cache,     \* the chunk readMetrics has received and not yet merged
  inUse,     \* permits handed out by the semaphore
  waiters,   \* the semaphore's FIFO queue
  ctxDone,   \* the workers' context is cancelled
  reported   \* history: what the running (or last) refresh put on metricsChan

vars == <<pc, metrics, chan, closed, cache, inUse, waiters, ctxDone, reported>>
refreshVars == <<metrics, chan, closed, cache, reported>>
semVars == <<inUse, waiters>>

Phases == {"acquire", "queued", "deprecate", "receive", "delete", "release",
           "select", "stopped"}

\* The phases in which a worker owns a permit.
Holding == {"deprecate", "receive", "delete", "release"}

-----------------------------------------------------------------------------
\* s without its i-th element.
Without(s, i) == [j \in 1..(Len(s) - 1) |-> IF j < i THEN s[j] ELSE s[j + 1]]

Occurs(s, n) == \E i \in DOMAIN s : s[i].name = n

LastIndex(s, n) == CHOOSE i \in DOMAIN s :
                     /\ s[i].name = n
                     /\ \A j \in DOMAIN s : j > i => s[j].name # n

\* A faulty variant of Stored that ImplementsPrefetchCache notices: a metric
\* already received in this chunk is not overwritten.
Stored_FirstWins(m, s) ==
  [n \in Names |-> IF Occurs(s, n)
                   THEN [value |-> s[CHOOSE i \in DOMAIN s :
                                       /\ s[i].name = n
                                       /\ \A j \in DOMAIN s : j < i => s[j].name # n].value,
                         deprecated |-> FALSE]
                   ELSE m[n]]

\* Storing the metrics of s one after another under their names: the last
\* one stored under a name stays, and it is not deprecated.
Stored(m, s) ==
  [n \in Names |-> IF Occurs(s, n)
                   THEN [value |-> s[LastIndex(s, n)].value, deprecated |-> FALSE]
                   ELSE m[n]]

\* What Collect copies under the mutex: the value of every cached metric,
\* whether it is deprecated or not.
Served(m) == [n \in Names |-> IF m[n] = Absent THEN Absent ELSE m[n].value]

-----------------------------------------------------------------------------
(***************************************************************************)
(* Faulty variants of the actions below, one per property: each is a slip  *)
(* the code could contain, and the property named must notice it.          *)
(***************************************************************************)
\* TypeOK: the chunk size is compared with > instead of >=.
Receive_OffByOne(f) ==
  /\ pc[f] = "receive"
  /\ Len(cache[f]) <= MetricCacheChunkSize
  /\ chan[f] # <<>>
  /\ cache' = [cache EXCEPT ![f] = Append(@, Head(chan[f]))]
  /\ chan' = [chan EXCEPT ![f] = Tail(@)]
  /\ UNCHANGED <<pc, metrics, closed, semVars, ctxDone, reported>>

\* CacheIsLastScrape: the rest of the last chunk is not merged.
MergeRest_Forgotten(f) ==
  /\ pc[f] = "receive"
  /\ Len(cache[f]) < MetricCacheChunkSize
  /\ closed[f] /\ chan[f] = <<>>
  /\ cache' = [cache EXCEPT ![f] = <<>>]
  /\ pc' = [pc EXCEPT ![f] = "delete"]
  /\ UNCHANGED <<metrics, chan, closed, semVars, ctxDone, reported>>

\* NoGap: the cache is emptied, not flagged, before a refresh.
DeprecateAll_Clears(f) ==
  /\ pc[f] = "deprecate"
  /\ metrics' = [metrics EXCEPT ![f] = [n \in Names |-> Absent]]
  /\ chan' = [chan EXCEPT ![f] = <<>>]
  /\ closed' = [closed EXCEPT ![f] = FALSE]
  /\ cache' = [cache EXCEPT ![f] = <<>>]
  /\ reported' = [reported EXCEPT ![f] = {}]
  /\ pc' = [pc EXCEPT ![f] = "receive"]
  /\ UNCHANGED <<semVars, ctxDone>>

\* ConnectionsBounded: one permit too many.
Acquire_OffByOne(f) ==
  /\ pc[f] = "acquire"
  /\ ~ctxDone
  /\ inUse <= ParallelSempConnections
  /\ inUse' = inUse + 1
  /\ pc' = [pc EXCEPT ![f] = "deprecate"]
  /\ UNCHANGED <<refreshVars, waiters, ctxDone>>

\* PermitsAccounted: the worker goes to the select without releasing.
DeleteDeprecated_Leaks(f) ==
  /\ pc[f] = "delete"
  /\ pc' = [pc EXCEPT ![f] = "select"]
  /\ UNCHANGED <<refreshVars, semVars, ctxDone>>

\* QueueConsistent: the release does not hand the permit over.
Release_NoHandOver(f) ==
  /\ pc[f] = "release"
  /\ inUse' = inUse - 1
  /\ pc' = [pc EXCEPT ![f] = "select"]
  /\ UNCHANGED <<refreshVars, waiters, ctxDone>>

\* RefreshedForever: the chunk is merged but not started anew.
MergeChunk_KeepsChunk(f) ==
  /\ pc[f] = "receive"
  /\ Len(cache[f]) >= MetricCacheChunkSize
  /\ metrics' = [metrics EXCEPT ![f] = Stored(@, cache[f])]
  /\ UNCHANGED <<pc, chan, closed, cache, semVars, ctxDone, reported>>

\* CancelStopsAll: a failed Acquire is retried without looking at the context.
AcquireFails_Retries(f) ==
  /\ ctxDone
  /\ \/ pc[f] = "acquire" /\ UNCHANGED waiters
     \/ /\ pc[f] = "queued"
        /\ \E i \in DOMAIN waiters : waiters[i] = f /\ waiters' = Without(waiters, i)
  /\ pc' = [pc EXCEPT ![f] = "acquire"]
  /\ UNCHANGED <<refreshVars, inUse, ctxDone>>

-----------------------------------------------------------------------------
Init == /\ pc = [f \in Fetchers |-> "acquire"]
        /\ metrics = [f \in Fetchers |-> [n \in Names |-> Absent]]
        /\ chan = [f \in Fetchers |-> <<>>]
        /\ closed = [f \in Fetchers |-> TRUE]
        /\ cache = [f \in Fetchers |-> <<>>]
        /\ inUse = 0
        /\ waiters = <<>>
        /\ ctxDone = FALSE
        /\ reported = [f \in Fetchers |-> {}]

\* A permit is free and nobody has queued for it before.
PermitFree == inUse < ParallelSempConnections /\ waiters = <<>>

\* semaphore.Acquire(ctx, 1): take a free permit unless others are waiting,
\* else join the end of the queue.
Acquire(f) ==
  /\ pc[f] = "acquire"
  /\ ~ctxDone
  /\ \/ /\ PermitFree
        /\ inUse' = inUse + 1
        /\ pc' = [pc EXCEPT ![f] = "deprecate"]
        /\ UNCHANGED waiters
     \/ /\ ~PermitFree
        /\ waiters' = Append(waiters, f)
        /\ pc' = [pc EXCEPT ![f] = "queued"]
        /\ UNCHANGED inUse
  /\ UNCHANGED <<refreshVars, ctxDone>>

\* Acquire fails only because the context is done: the worker returns, and a
\* queued one leaves the queue.
AcquireFails(f) ==
  /\ ctxDone
  /\ \/ pc[f] = "acquire" /\ UNCHANGED waiters
     \/ /\ pc[f] = "queued"
        /\ \E i \in DOMAIN waiters : waiters[i] = f /\ waiters' = Without(waiters, i)
  /\ pc' = [pc EXCEPT ![f] = "stopped"]
  /\ UNCHANGED <<refreshVars, inUse, ctxDone>>

\* readMetrics starts: flag the whole cache, then start the scraping goroutine
\* on a new channel.
DeprecateAll(f) ==
  /\ pc[f] = "deprecate"
  /\ metrics' = [metrics EXCEPT ![f] =
                   [n \in Names |-> IF @[n] = Absent THEN Absent
                                    ELSE [@[n] EXCEPT !.deprecated = TRUE]]]
  /\ chan' = [chan EXCEPT ![f] = <<>>]
  /\ closed' = [closed EXCEPT ![f] = FALSE]
  /\ cache' = [cache EXCEPT ![f] = <<>>]
  /\ reported' = [reported EXCEPT ![f] = {}]
  /\ pc' = [pc EXCEPT ![f] = "receive"]
  /\ UNCHANGED <<semVars, ctxDone>>

\* The scraping goroutine sends a metric; it blocks while the channel is full.
Send(f, m) ==
  /\ ~closed[f]
  /\ Len(chan[f]) < CapMetricChan
  /\ chan' = [chan EXCEPT ![f] = Append(@, m)]
  /\ reported' = [reported EXCEPT ![f] = @ \cup {m}]
  /\ UNCHANGED <<pc, metrics, closed, cache, semVars, ctxDone>>

\* The scraping goroutine returns, or panics and is recovered.
CloseChan(f) ==
  /\ ~closed[f]
  /\ closed' = [closed EXCEPT ![f] = TRUE]
  /\ UNCHANGED <<pc, metrics, chan, cache, semVars, ctxDone, reported>>

\* One turn of "for metric := range metricsChan" below the chunk size.
Receive(f) ==
  /\ pc[f] = "receive"
  /\ Len(cache[f]) < MetricCacheChunkSize
  /\ chan[f] # <<>>
  /\ cache' = [cache EXCEPT ![f] = Append(@, Head(chan[f]))]
  /\ chan' = [chan EXCEPT ![f] = Tail(@)]
  /\ UNCHANGED <<pc, metrics, closed, semVars, ctxDone, reported>>

\* The chunk is full: merge it and start the next one.
MergeChunk(f) ==
  /\ pc[f] = "receive"
  /\ Len(cache[f]) >= MetricCacheChunkSize
  /\ metrics' = [metrics EXCEPT ![f] = Stored(@, cache[f])]
  /\ cache' = [cache EXCEPT ![f] = <<>>]
  /\ UNCHANGED <<pc, chan, closed, semVars, ctxDone, reported>>

\* The channel is closed and drained: merge what is left of the last chunk.
MergeRest(f) ==
  /\ pc[f] = "receive"
  /\ Len(cache[f]) < MetricCacheChunkSize
  /\ closed[f] /\ chan[f] = <<>>
  /\ metrics' = [metrics EXCEPT ![f] = Stored(@, cache[f])]
  /\ cache' = [cache EXCEPT ![f] = <<>>]
  /\ pc' = [pc EXCEPT ![f] = "delete"]
  /\ UNCHANGED <<chan, closed, semVars, ctxDone, reported>>

DeleteDeprecated(f) ==
  /\ pc[f] = "delete"
  /\ metrics' = [metrics EXCEPT ![f] =
                   [n \in Names |-> IF @[n] = Absent THEN Absent
                                    ELSE IF @[n].deprecated THEN Absent
                                    ELSE @[n]]]
  /\ pc' = [pc EXCEPT ![f] = "release"]
  /\ UNCHANGED <<chan, closed, cache, semVars, ctxDone, reported>>

\* semaphore.Release(1): the permit goes to the head of the queue, if any.  A
\* waiter whose context is done puts the permit it is handed back at once.
Release(f) ==
  /\ pc[f] = "release"
  /\ IF waiters = <<>> \/ ctxDone
     THEN /\ inUse' = inUse - 1
          /\ pc' = [pc EXCEPT ![f] = "select"]
          /\ UNCHANGED waiters
     ELSE /\ pc' = [pc EXCEPT ![f] = "select", ![Head(waiters)] = "deprecate"]
          /\ waiters' = Tail(waiters)
          /\ UNCHANGED inUse
  /\ UNCHANGED <<refreshVars, ctxDone>>

\* The select at the end of the loop: the next tick, or the context is done.
\* When both are ready the runtime picks either.
Tick(f) ==
  /\ pc[f] = "select"
  /\ pc' = [pc EXCEPT ![f] = "acquire"]
  /\ UNCHANGED <<refreshVars, semVars, ctxDone>>

Return(f) ==
  /\ pc[f] = "select"
  /\ ctxDone
  /\ pc' = [pc EXCEPT ![f] = "stopped"]
  /\ UNCHANGED <<refreshVars, semVars, ctxDone>>

\* The owner of the context cancels it.
Cancel ==
  /\ Cancellable /\ ~ctxDone
  /\ ctxDone' = TRUE
  /\ UNCHANGED <<pc, refreshVars, semVars>>

Worker(f) == \/ Acquire(f) \/ AcquireFails(f) \/ DeprecateAll(f)
             \/ Receive(f) \/ MergeChunk(f) \/ MergeRest(f)
             \/ DeleteDeprecated(f) \/ Release(f) \/ Tick(f) \/ Return(f)

\* Every worker has returned: the process keeps serving the last cache.
Stopped == /\ \A f \in Fetchers : pc[f] = "stopped"
           /\ UNCHANGED vars

Next == \/ \E f \in Fetchers : \/ Worker(f)
                               \/ \E m \in Metric : Send(f, m)
                               \/ CloseChan(f)
        \/ Cancel
        \/ Stopped

SafetySpec == Init /\ [][Next]_vars

\* Goroutines keep running, tickers keep firing, and every scrape ends: the
\* HTTP client's timeout bounds each request and the broker's paging ends.
Spec == /\ SafetySpec
        /\ \A f \in Fetchers : WF_vars(Worker(f)) /\ WF_vars(CloseChan(f))

-----------------------------------------------------------------------------
(***************************************************************************)
(* Properties.                                                             *)
(***************************************************************************)
TypeOK == /\ pc \in [Fetchers -> Phases]
          /\ metrics \in [Fetchers -> [Names -> Entry \cup {Absent}]]
          /\ chan \in [Fetchers -> Seq(Metric)]
          /\ closed \in [Fetchers -> BOOLEAN]
          /\ cache \in [Fetchers -> Seq(Metric)]
          /\ inUse \in Int
          /\ waiters \in Seq(Fetchers)
          /\ ctxDone \in BOOLEAN
          /\ reported \in [Fetchers -> SUBSET Metric]
          /\ \A f \in Fetchers : /\ Len(chan[f]) <= CapMetricChan
                                 /\ Len(cache[f]) <= MetricCacheChunkSize

Holders == {f \in Fetchers : pc[f] \in Holding}

\* No more prefetch workers talk to the broker at once than the semaphore has
\* permits, through every hand-over of a permit to a queued worker and every
\* cancellation (main.go: "A broker has only max 10 semp connections").
ConnectionsBounded == Cardinality(Holders) <= ParallelSempConnections

\* The semaphore counts exactly the workers between Acquire and Release: no
\* path of the worker loop leaks a permit or gives one back twice.
PermitsAccounted == inUse = Cardinality(Holders)

\* The queue holds every blocked worker once and nobody else, and nobody
\* queues while a permit is free: no wake-up is lost.
QueueConsistent ==
  /\ \A i, j \in DOMAIN waiters : waiters[i] = waiters[j] => i = j
  /\ \A f \in Fetchers : pc[f] = "queued" <=> \E i \in DOMAIN waiters : waiters[i] = f
  /\ waiters # <<>> /\ ~ctxDone => inUse = ParallelSempConnections

\* Between refreshes an endpoint serves exactly what the last refresh reported:
\* every reported metric is there with a value that refresh reported, and no
\* metric of an earlier refresh is left, however the refresh was cut into
\* chunks and wherever the scraping goroutine stopped.
CacheIsLastScrape ==
  \A f \in Fetchers : pc[f] \notin {"receive", "delete"} =>
    \A n \in Names :
      LET served == Served(metrics[f])[n] IN
      IF served = Absent THEN \A m \in reported[f] : m.name # n
                         ELSE [name |-> n, value |-> served] \in reported[f]

\* No gaps: a metric leaves the cache only when a refresh that did not report
\* it deletes the deprecated entries, so a metric the broker reports in every
\* refresh is in every scrape of the endpoint.
NoGap ==
  [][\A f \in Fetchers, n \in Names :
       metrics[f][n] # Absent /\ metrics'[f][n] = Absent
         => /\ pc[f] = "delete"
            /\ \A m \in reported[f] : m.name # n]_vars

\* The last value reported so far for n by the refresh in progress: what is
\* already merged, overlaid with the chunk and then with the channel.
Result(f) ==
  LET all == Stored(metrics[f], cache[f] \o chan[f]) IN
  [n \in Names |-> IF all[n] = Absent THEN Absent
                   ELSE IF all[n].deprecated THEN Absent ELSE all[n].value]

Promise == INSTANCE PrefetchCache WITH
             served <- [f \in Fetchers |-> Served(metrics[f])],
             result <- [f \in Fetchers |-> Result(f)],
             refreshing <- [f \in Fetchers |-> pc[f] \in {"receive", "delete"}]

\* The fetchers keep the promise of PrefetchCache: metrics become visible in
\* the order reported, none goes back to an older refresh, a finished refresh
\* is served with the last value reported under every name.
ImplementsPrefetchCache == Promise!Spec

Permits == INSTANCE Semaphore WITH
             Workers <- Fetchers, Permits <- ParallelSempConnections,
             holders <- Holders, cancelled <- ctxDone

\* Acquire, AcquireFails, Release and nothing else move the permits, and they
\* move them as Semaphore promises: in the order asked for, past nobody, from a
\* worker that leaves straight to the one that has waited longest.
ImplementsSemaphore == Permits!Spec

\* Every endpoint is refreshed again and again, unless the context is
\* cancelled: with fewer permits than endpoints no worker starves, and a full
\* channel never blocks the two goroutines of a refresh on each other.
RefreshedForever ==
  \A f \in Fetchers : []<>(pc[f] = "release" \/ ctxDone)

\* Once the context is cancelled every worker returns and all permits are back.
CancelStopsAll ==
  ctxDone ~> (inUse = 0 /\ \A f \in Fetchers : pc[f] = "stopped")

=============================================================================
