# A TLA+ model of the Solace Prometheus exporter

The exporter is one Go process between Prometheus and Solace brokers.
Prometheus scrapes an HTTP endpoint; the exporter asks a broker over SEMP
(XML over HTTP for SEMP v1, JSON for SEMP v2), turns the replies into metrics
and answers.  It either asks the broker while the scrape waits (synchronous) or
keeps a cache per endpoint that background workers refresh (prefetch).

Paths below are relative to the repository.

## 1. Inventory

| Part | State | Operations | Hard because |
|---|---|---|---|
| **Prefetch** `internal/exporter/asyncFetcher.go` | per endpoint a metric cache under a mutex; per refresh a channel and a chunk; one semaphore for all | worker loop (acquire, refresh, release, tick), scraping goroutine, `Collect` | two goroutines per refresh and any number of readers; bounded channel; a cache that must have no gaps; permits; cancellation; recovered panics |
| **Synchronous scrape** `internal/exporter/exporter.collect.go` | `up`, `err`, the channel, `distinctMetrics` | dispatch of the data sources, `solace_up`, worker/closer/reader | values carried from one data source to the next; three goroutines and one bounded channel; panics; a dispatch table of 49 targets |
| **SEMP getters** `internal/semp/get*.go`, `internal/semp/http.go` | page command, last key, open response bodies | 49 getters | each written out by hand: paging, five ways out of every page, closing, duplicates at page boundaries, return values 1, 0 and -1 |
| **Metric values** `internal/semp/prometheusMetric.struct.go`, `semp.desc.struct.go`, `metricDesc.go` | a metric: descriptor, value, labels, deprecation flag | `NewMetric`, `Name`, `Deprecate` | the name is the identity used for caching and duplicate filtering |
| **Secret resolver** `internal/secret/resolver.go` | cache with expiry, single flight | `Resolve` | waiters with their own deadlines share one fetch; each stores the result |
| **Vault backend** `internal/secret/hashicorp_backend.go` | token, failure counter | read, authenticate, renewal loop | lease against renewal period and backoff; a token file that is read once and deleted; calls the context does not end |
| **OAuth** `internal/exporter/auth.go`, `http.go` | shared token and expiry | `getOAuthToken`, request visitor | double-checked locking; tokens expire while requests are being built |
| **Handlers** `cmd/solace-prometheus-exporter/main.go` | none of their own; they own the semaphore and the fetchers | `doHandle`, `doHandleAsync`, `resolveRequestConfig`, `parseDataSources` | every request works on a copy of the configuration |
| **Configuration** `internal/exporter/config.struct.go` | `Config` | `ParseConfig`, `ResolveSecrets`, `Clone` | order of resolution and validation; values resolved once; what copies share |
| **Start** `main.go`, `internal/exporter/tlsServer.go` | the mux, the data sources of the sections | parse, resolve, register, listen | two parsers of the same entries; paths registered in the order of a map; how a failed start ends |
| **Web** `internal/web` | none | authentication of scrapes, start page | not hard: one comparison, a template |
| **Tool** `tools/endpointOwnershipStatistics.go` | none | a report | its two getters page by hand, like those of the exporter |

How they interact:

```
 Prometheus --HTTP--> handlers --copy of Config--> Exporter.Collect --channel-- worker
                         |                                                        |
                         |                  secret resolver --> Vault          getters --HTTP--> broker
                         |                        ^                               ^
                         |                Config resolved                    OAuth token
                         |
                         +--> AsyncFetcher.Collect (cache, mutex)
                                    ^
                prefetch worker --channel-- scraping goroutine (one per worker, under the semaphore)
```

What makes each part correct:

* Prefetch: a scrape sees every metric the broker keeps reporting, never an
  older value after a newer one, and after a refresh exactly what it
  reported; no more workers talk to the broker than there are permits; no
  endpoint starves; cancellation leaves nothing behind.
* Synchronous scrape: `solace_up` tells the truth about every data source; a
  failing data source does not harm the others; nothing sent is lost or sent
  to a closed channel; every scrape is answered once.
* Getters: the return value is the truth, no connection is left open, one at a
  time is used, and every listed item is sent, once.
* Secrets: a cached secret is served no longer than its lease allows; a
  caller's deadline affects that caller only.
* Vault token: renewed before it expires, failures and crashes included; the
  loop neither hangs nor outlives its context.
* OAuth: at most one fetch at a time, none while the token is good, no cached
  token is sent that may expire on the way; a silent endpoint stops nobody for
  ever.
* Requests and configuration: an exporter that serves is completely configured;
  no request sees another's values; no reference goes out as a credential.
* Start: what is configured is served as a whole or not at all, with the same
  meaning in a section as in a request.
* All together: a worker at the broker or the token endpoint holds a permit,
  and permits go round.

## 2. Modules

| Module | Models | Uses |
|---|---|---|
| `PrefetchCache` | the promise of a prefetched endpoint (abstract) | |
| `Semaphore` | the promise of the semaphore that prefetch workers share (abstract) | |
| `AsyncFetcher` | `asyncFetcher.go` in full, with the semaphore and the context it is given | `PrefetchCache` and `Semaphore` by refinement |
| `AsyncFetcherProofs` | theorems about `AsyncFetcher` | |
| `MCAsyncFetcher` | instances for TLC | |
| `Scrape` | the promise of a synchronous scrape (abstract) | |
| `ScrapeTargets` | the dispatch table of `CollectPrometheusMetric` as sets and a function | |
| `Exporter` | `exporter.collect.go` in full | `ScrapeTargets`, `Scrape` by refinement |
| `MCExporter` | instances for TLC | |
| `SempGetter` | the control flow of every getter and of `http.go` | |
| `SempGetterProofs` | theorems about `SempGetter` | |
| `MCSempGetter` | instance for TLC | |
| `SecretResolver` | `Resolve` of `resolver.go`, with single flight and a backend | |
| `SecretResolverProofs` | theorems about `SecretResolver` | |
| `MCSecretResolver` | instances for TLC | |
| `ExporterProofs` | theorems about `Exporter` | |
| `OAuthToken` | `auth.go`: the token cache, its lock, the fetch, the request that waits for it | |
| `ExporterSystem` | prefetch workers, the semaphore and synchronous requests around one broker | extends `OAuthToken`; `Semaphore` by refinement |
| `ExporterSystemProofs`, `MCExporterSystem` | theorems about `OAuthToken` and `ExporterSystem`, instances | |
| `VaultToken` | `hashicorp_backend.go` but `ReadSecret`: start, crash, renewal loop, backoff | |
| `VaultTokenProofs`, `MCVaultToken` | theorems, instance | |
| `RequestConfig` | `ResolveSecrets`, `DetermineAuthType`, `Clone`, `resolveRequestConfig`, `doHandle`, `basicAuth` | |
| `RequestConfigProofs`, `MCRequestConfig` | theorems, instances | |
| `Startup` | `main`, `ParseConfig`, `parseDataSources`, `ListenAndServeTLS` | |
| `StartupProofs`, `MCStartup` | theorems, instances | |

The first three components are layered by what they see of each other.  `AsyncFetcher`
sees of a scrape only metrics on a channel and its end, at any point, which
covers everything `Exporter` lets `CollectPrometheusMetric` do, a recovered
panic included.  `Exporter` sees of a getter only metrics on a channel and then
1, 0, -1 or a panic, which is what `SempGetter` establishes of each of them
(`ReturnIsTruthful`, `EveryGetterEnds`).  `SecretResolver` stands alone: a
request (and the start-up) resolves its secrets before anything is scraped.
`RequestConfig` has the same steps of a resolve, with a cache and a shared call for
each field, in which it follows the versions of a secret; time, deadlines and the
backend's silence are the matter of `SecretResolver`, which shows that each resolve ends.  `ExporterSystem` composes: it extends
`OAuthToken`, restricts when a worker may start a request, and leaves open what
requests ask for.  `Startup` says which handler, with which data sources, a
path gets; what the handlers then do is the matter of the others.

Every module holds faulty variants (`Receive_OffByOne` and the like):
definitions nobody uses, one per property, each the definition as a plausible slip
would have it.  Put in the place of the real action, each makes TLC report the
property named in its comment.

### AsyncFetcher

`pc[f]` is the worker of endpoint `f` (the loop of `NewAsyncFetcher` and, inside,
`readMetrics`), `metrics[f]` the map `f.metrics`, `chan[f]`/`closed[f]` the
channel of the running refresh and its scraping goroutine, `cache[f]` the chunk.
`inUse` and `waiters` are the weighted semaphore, modelled from how the code uses
it: first in, first out, a permit released goes to the first waiter, a cancelled
waiter leaves the queue.  Each critical section of `f.mutex` is one action
(`DeprecateAll`, `MergeChunk`, `MergeRest`, `DeleteDeprecated`), so a reader that
locks the mutex in `Collect` sees exactly the states between actions: `Served`
is what it copies.  `reported[f]` is a history variable.  The one-second pause
after a failed `Acquire` is not a state of its own, since `Acquire` fails only when the
context is done and the `select` then returns.

### Exporter

`pc`, `i`, `up`, `err` are the worker in `CollectPrometheusMetric`, `ch` and
`closed` the channel, `distinct` the map of `Collect`; `verdict` is a history
variable that says how each data source went.  A name of a data source is a
target with or without the suffix `V1`.  A series is a name with its labels;
for `solace_up` the labels are the error and the endpoint.

### SempGetter

The getters are one algorithm in a handful of shapes, and a shape is a record
(whether it pages, how it compares keys, how it closes bodies, what it does with
an item that lacks what it needs, what it returns if nothing answers).  Every
getter of the repository is a definition of its own, mapped to its function;
the model runs all of them, and the two of the ownership tool.  What the broker
lists is `pages`: every item once, or twice where one page ends and the next
begins (`ListedOnce`, an assumption about the broker).  `GetBridgeSemp1` and
`GetRdpInfoSemp1` also send totals without labels, before the items of each page and
outside the comparison of keys (`SendTotals`), so a listing of two pages has them
twice; `Totals` stands for all of them.  The readers of the channel filter by name and
keep the last.  Left out: which series an item becomes, and with which labels.

### SecretResolver

`pc[c]` is a caller in `Resolve`, `got[c]` its channel from `DoChan`, `cache` the
entry of the reference, `flight` and `result` the shared call.  The backend is what
`ReadSecret` may do: answer with a TTL, fail, or be silent.  `Recheck` is the
start of the shared function, `Deliver` its end: single flight forgets the call
and fills the channels in one critical section, after which each caller
receives on its own (`Receive`) or has left (`GiveUp`).

Time is relative: an entry and a result carry the time since the backend read
them, an entry also the time until `expiresAt`, and a read the time it has been
running.  Ages stop where nothing depends on them, so a run has no last moment.
`Tick` waits for what a goroutine is about to do (it measures seconds) and for the
deadline of a read.  This is an assumption about promptness: a caller that is not scheduled
for a minute after its channel was filled stores a value a minute older.

### OAuthToken

`pc[c]` is a goroutine that sends a request and calls `getOAuthToken` for it,
`cache` the shared token, `writer` the holder of the write lock, `admitted` the
readers an `Unlock` has let in.  A look under the read lock is one action.  A
fetch takes from `Lock` to `Obtain` or `Fail`, all under the write lock; `Issue` is the
endpoint, so an answer may be late.  The expiry that the exporter counts starts when the
answer arrives, the life of the token when it was issued: a token has both
(`left`, `real`).  An answer without `expires_in` is a life of 0 that never ends.

### ExporterSystem

`queue` is the semaphore: those who have asked for a permit, in order, of whom
the first ones hold the permits.  `AsyncFetcher` keeps the same semaphore as a counter and
a queue of waiters; both implement `Semaphore`.  A scrape of a worker is any number of requests
(`Step` of `OAuthToken`) between `Acquire` and `Release`, a synchronous request's
is the same without either.

### VaultToken

`phase` is the process and its renewal loop, `memory` all that a crash loses;
`file` and `left`, the token file and the token's life as Vault counts it,
outlive it.  `Grant` is Vault, `Succeed`, `Fail` and `TimesOut` are what the loop
learns, so a renewal may have happened though its answer was lost.
`retryDelay` stands for `consecutiveFailures`, from which the code computes it;
the jitter is a choice between `Shortest` and `Longest`.  Vault grants the same
lease each time: the maximal life of a token, after which nothing helps, is left out.

### RequestConfig

`heap` holds the `Config` objects, the base and one copy per request; `ptr[r]`
says on which a request works, so a copy that were shared would show.  Values
are known by where they come from: a request, the configuration, a version of the
secret, or an unresolved reference.  The path referred to holds one entry per
field, a value (`Filled`), nothing (`Blank`) or now one, now the other; `Readable` is a
static secret, the same for each read until `Rotate`, or
a dynamic one, of which each read issues another version with a lease
(`Revoke`).  A resolve takes as many steps as in the code: `Miss` (the cache),
`Join` (`DoChan`, with the second look of the call that is started), `Read` and `Deliver` of
the shared call, and the caller's own receipt, in which it stores what was read
(`Resolves`), by when the secret may have been rotated and the cache filled by another: an old
version then replaces a newer one.  `flight[f]` is the call of a field and `got[c]` how
far the caller `c`, a request or the start (`"base"`), has come; `Asked(c)` is the field
it resolves.  The first of several names of one parameter, form or header, is
abstracted to one.

### Startup

One action per stage of `main`, `Declare` once per section in any order,
`Request` for a request to any path.  A name of an entry is its target and its
number, a value (one of `Values`) the number of its parts; `FormSources` and `SectionSources` are
the two parsers.  The options are the ones control depends on.  `handlers` is
`http.DefaultServeMux`; aliases are opaque, so the patterns that `ServeMux`
reads into a path are left out.

## 3. Runs

| Run | Instance | Shows |
|---|---|---|
| `prefetch_cache` | 1 endpoint, 2 series x 2 values, channel 2, chunk 2, 1 permit | `CacheIsLastScrape`, `NoGap`, refinement of `PrefetchCache` |
| `prefetch_permits` | 3 endpoints, 2 permits, channel 1, chunk 1, cancellation | `ConnectionsBounded`, `PermitsAccounted`, `QueueConsistent`, `RefreshedForever`, `CancelStopsAll` |
| `scrape` | 2 or 3 data sources of every mix of kinds, both kinds of broker, with and without default VPN, channel 2 | `UpIsTruthful`, `OnlyUnreachableStops`, `EveryScrapeEnds`, refinement of `Scrape` |
| `semp_getter` | 51 getters x every listing of 3 items in up to 3 pages of up to 2, boundary repetitions and empty pages | `BodiesClosed`, `OneConnection`, `ReturnIsTruthful`, `NoItemSentTwice`, `EveryGetterEnds` |
| `secret_resolver` | 3 callers, TTLs 0 and 2, read timeout 1 | `LeaseRespected`, `ErrorsAreTheBackends`, `EveryResolveEnds` |
| `secret_collapse` | 2 callers | a disagreement with a comment, section 5 |
| `scrape_up` | every target alone, with and without `V1` | a disagreement with the documentation, section 5 |
| `system` | 2 workers, 1 permit, 1 synchronous request; tokens that live for 4, 1 or ever; margin 2, timeout 1 | `WorkersHoldPermits`, `PermitsGoRound`; of the token `BearerOutlastsRequest`, `NoNeedlessFetch`, `EveryRequestGoesOut` |
| `vault_token` | leases that survive no, one and two failures, and one shorter than any sleep | `NeverRunsTokenless`, `TokenSurvives`, `CallsGoOn` |
| `request_config` | 2 requests, 2 versions, static and dynamic, 5 configurations, 2 kinds of overrides; every field has a value but one | `ServesComplete`, `OwnConfiguration`, `NoReferenceSent`, `RotationHeals` |
| `request_pair` | 2 requests with references to a dynamic secret | a disagreement with the documentation, section 5 |
| `startup` | 9 lists of sections, options and certificates of every kind, 6 requests | `SectionsServed`, `AliasIsItsParameters` |

Bounds.  The number and length of refreshes and the number of metrics sent are
not bounded: channels and chunks have their capacities, so the state spaces
are finite by themselves.  Capacities of 1 and 2 stand for 1000 and 100: all the
code compares with them is "full", and both boundaries are crossed in every
way.  Two values of one series are enough for a value to be overwritten in a
chunk, across chunks and across refreshes; three fetchers on two permits are
the least in which a queue and a hand-over occur with other holders around.
Three data sources allow a state carried over from the first to the third; `Vpn` occurs
with two filters under one name, where series of `solace_up` collide.  Endpoints of the
prefetch mode share nothing but the semaphore, so the cache is checked with one
and the permits with three.  Of the resolver's three callers one can store its result
late while the second has started a call that the third joins; a TTL longer
than the read timeout and one of 0 are the two cases `cacheSet` tells apart, and
every expiry of the cache before, during and after a read occurs.

In `system` one worker holds the permit and one waits for it; of the two that are after a
token at a time one fetches while the other waits at the lock with what it
saw out of date, which is all that the second look is for.  More callers add to the queues
only, and the safety properties are proved for any number.  In `vault_token` a tick is about six
seconds; `BaseDelay`, `MinSlack` and `Fallback` are to scale, the cap of the backoff
is scaled down but reached from below, not hit, as in the code (30 s doubles to
480 s under a cap of 600 s).  Two versions are enough for a
username that differs from the password and from the secret, and two requests and the
start for an old version to be stored over a newer one, or into a cache that has been emptied.
The two kinds of overrides give every credential and setting once as a value,
once as a reference, once as a literal that looks like one, and once badly.  In `startup` every way `Setting`
may go occurs with every way
the value is used, every kind of entry (numbered, with three parts, with four,
malformed) in a section and in a request, and the certificates in all
combinations.

Fairness.  Weak fairness of each worker, scraping goroutine, closer and reader:
goroutines are scheduled.  That a scrape ends (`CloseChan`, `GetterReturns`) is
fair because `http.Client` has a timeout and paging ends if the broker's listing does.
The timeout must be positive: `main.go:240-243` sees to it for requests, but
`config.struct.go:206` does not for the configuration, where it is an
assumption.  `SempGetter`'s `EveryGetterEnds` shows the second part from the first.  Ticks
are fair because tickers fire.  In `SecretResolver` callers and the shared call
are scheduled, time passes and a timeout fires; neither the backend's answer nor
a caller's deadline is assumed.  The semaphore's queue is
first in, first out, so nothing of the prefetch mode needs strong fairness.

In `OAuthToken` `Lock` is strongly fair: `sync.Mutex`, on which `sync.RWMutex`
rests, hands itself to a waiter that has waited for a millisecond, so new callers
cannot pass an old one for ever.  The endpoint need not answer; its client's
timeout fires.  In `ExporterSystem` `Release` is strongly fair: a scrape makes
finitely many requests, and between two of them the worker is where it could
release.  In `VaultToken` timers and the client's timeout fire, Vault need not
answer and nobody need restart the process.  In `RequestConfig` requests and
shared calls end and TTLs run out; rotations and revocations need not happen, and of
the start nothing is assumed.

Deadlock is checked in every run but those of `RequestConfig`, where the exporter
may exit; elsewhere a process that has nothing left to do has an
explicit stuttering action (`Stopped`, `Done`, `Ended`, `Over`) with the state it may be in.

## 4. Proofs

`AsyncFetcherProofs` proves, for any finite set of fetchers, any names and
values and any positive capacities and permits (the assumptions of
`AsyncFetcher`):

| Theorem | States |
|---|---|
| `TypeCorrect` | `SafetySpec => []TypeOK` |
| `PermitsCorrect` | `SafetySpec => [](PermitsAccounted /\ ConnectionsBounded /\ QueueConsistent)` |
| `ConnectionsCorrect`, `QueueCorrect` | its last two parts alone |
| `CacheCorrect` | `SafetySpec => []CacheIsLastScrape` |
| `NoGapCorrect` | `SafetySpec => NoGap` |
| `Refinement` | `SafetySpec => ImplementsPrefetchCache` |
| `SemaphoreRefinement` | `SafetySpec => ImplementsSemaphore` |

The inductive invariant is `IInv == TypeOK /\ PermitInv /\ CacheInv`.
`PermitInv` counts the holders: a bound alone is not inductive, because a release
decrements a counter, so the counter must be known to equal the number of
workers between `Acquire` and `Release`, and the queue must be known to hold
exactly the queued workers once, for the head of it to be one that is waiting.
`CacheInv` says, per endpoint and phase, where each reported metric is: in the
cache undeprecated, in the chunk or in the channel, and that everything else in
the cache is deprecated; the invariant wanted is its last phase.  The refinement
rests on lemmas about `Stored` (storing a concatenation is storing the parts one
after the other) and has one lemma per step of the abstract specification.
`SemaphoreRefinement` maps the holders to the workers that `PermitInv` counts, so that
the counter is the number of elements of a set; a cancelled waiter may leave the
queue from any place in it.

`SempGetterProofs` proves, for any items, any non-empty listing of them in any
pages, and all 51 getters:

| Theorem | States |
|---|---|
| `TypeCorrect` | `SafetySpec => []TypeOK` |
| `ConnectionsCorrect` | `SafetySpec => [](BodiesClosed /\ OneConnection)` |
| `OneConnectionCorrect` | its second part alone |
| `ReturnCorrect` | `SafetySpec => []ReturnIsTruthful` |
| `SentOnceCorrect` | `SafetySpec => []NoItemSentTwice` |
| `ForwardCorrect` | `SafetySpec => [](Left \in Lefts) /\ GoesForward`, and `Less` is well-founded on `Lefts` |

`ShapeFacts` is what is needed of the getters: one that only defers the closing
reads a single page, only such a one may panic, and no one returns 1 when the
broker does not answer.  `ConnInv` adds to the two properties which body is open
(the current page's) and that a deferring getter has deferred its closing.
`ReturnInv` says that everything before the item a getter is at has been sent or
passed over; that the key of the last item belongs to something sent is what makes
passing over a duplicate harmless.  `SentInv` says where in the listing
the items sent lie: all before the place the getter is at, so that by `ListedOnce` the next
item can be one of them only if it is the last.
`ForwardCorrect` is the variant function of `EveryGetterEnds`: pages to go, stages of this
page to go and items to go, compared in this order, get less with every step.

`SecretResolverProofs` proves, for any callers, any TTLs and any positive read
timeout:

| Theorem | States |
|---|---|
| `TypeCorrect` | `SafetySpec => []TypeOK` |
| `LeaseCorrect` | `SafetySpec => []LeaseRespected` |
| `ErrorsCorrect` | `SafetySpec => []ErrorsAreTheBackends` |
| `WaitingCorrect` | `SafetySpec => []NobodyForgotten /\ WaitsForOneCall` |

`LeaseRespected` is not inductive: it says how old a live entry is now, and
nothing of the next tick.  `LeaseInv` adds that the age of an entry and the time
left to it have a sum that never exceeds its TTL and one read timeout (`Leased`),
and that an answer on its way is no older than its read has been running, which the
timeout bounds (`Prompt`).

`ExporterProofs` proves, for any requests, metrics, error texts and channel capacity:

| Theorem | States |
|---|---|
| `TypeCorrect` | `SafetySpec => []TypeOK` |
| `StopsCorrect` | `SafetySpec => []OnlyUnreachableStops` |
| `UpCorrect` | `SafetySpec => []UpIsTruthful` |
| `Refinement` | `SafetySpec => ImplementsScrape` |

`Inv` says what the worker knows in each place (`WorkerInv`), which verdicts are
settled and that `up` is the verdict of the data source it is at (`VerdictInv`), and
that an answer holds all that was received and nothing is left to receive (`ReplyInv`).
`UpIsTruthful` speaks of the answer; `UpInv` traces it back through `distinct` and the
channel: each `solace_up` series in either tells of a data source dealt with, and
each data source dealt with has its series in one of them, with the value that the map
will end up with.  That map is the channel overlaid on `distinct` in order, which is
also the refinement mapping.

`ExporterSystemProofs` proves, for any callers, lifetimes, margin and positive
timeout, for any workers among the callers and any positive number of permits:

| Theorem | States |
|---|---|
| `TypeCorrect` | `SafetySpec => []TypeOK` |
| `BearerCorrect` | `SafetySpec => []BearerOutlastsRequest` |
| `FetchCorrect` | `SafetySpec => NoNeedlessFetch` |
| `SystemTypeCorrect` | `SystemSafetySpec => []SystemTypeOK` |
| `PermitsCorrect` | `SystemSafetySpec => []WorkersHoldPermits` |
| `SystemImplementsTokens` | `SystemSafetySpec => SafetySpec` |
| `SystemBearerCorrect` | `SystemSafetySpec => []BearerOutlastsRequest` |
| `SystemFetchCorrect` | `SystemSafetySpec => NoNeedlessFetch` |
| `NoDeadlock` | `SystemSafetySpec => []NoCircularWait` |
| `QueueCorrect` | `SystemSafetySpec => NoOvertaking` |
| `SemaphoreRefinement` | `SystemSafetySpec => ImplementsSemaphore` |

The first three are about the token cache alone (`SafetySpec` of `OAuthToken`), the others
about the composition.  `ClockInv` relates the two clocks: the expiry that the exporter counts is
behind the endpoint's, by the duration of the fetch at most.  `SystemInv` adds that the busy
workers are among the holders; that there are no more holders than permits is a
lemma about the first elements of a sequence.  Sharing permits only takes behaviours
away (`SystemImplementsTokens`), so what holds of the cache holds in the composition.

`NoDeadlock` gives everybody a rank: whoever holds the lock or has been let in waits for
nobody (0), whoever waits for the lock waits for those (1), whoever waits for a permit waits for
its holders, who may wait for the lock (2).  `QueueCorrect` says that those before a waiting
worker only get fewer.

`VaultTokenProofs` proves, for any leases, delays, slack, fallback and positive
timeout:

| Theorem | States |
|---|---|
| `TypeCorrect` | `SafetySpec => []TypeOK` |
| `TokenlessCorrect` | `SafetySpec => []NeverRunsTokenless` |
| `SurvivesCorrect` | `SafetySpec => []TokenSurvives` |

`TokenSurvives` is not inductive: it says that life is left, not how much.
`LifeInv` does, from `Reserve`, the cost of the failures so far and how far the
pause or the call has come; `BackoffInv` ties the next delay to the failures, and
`GrantInv` says what an answer on its way is worth.

`RequestConfigProofs` proves, for any requests, configurations, overrides,
versions, kinds and backends that the assumptions admit:

| Theorem | States |
|---|---|
| `TypeCorrect` | `SafetySpec => []TypeOK` |
| `ServesCorrect` | `SafetySpec => []ServesComplete` |
| `OwnCorrect` | `SafetySpec => []OwnConfiguration` |
| `NoReferenceCorrect` | `SafetySpec => []NoReferenceSent` |
| `HealingCorrect` | `SafetySpec => []Healed /\ OldDriesUp` |

`BaseInv` says that the secrets before `next` have been resolved and that the
configuration stays as it is once the exporter serves; `RequestInv` says, for each place a
request may be at, which fields of its copy are still the configuration's.
`HealingCorrect` is about a static secret that is left alone.  The resolver holds an old
version of a field in its cache, in the shared call or with a caller that has its result and
has yet to store it (`OldInResolver`); once there is none, none comes back, though while
there is one it may be stored over a newer one at any time.  A request gets an old
version only from there, and when no request has one, every scrape uses the present one.
`GotInv` adds that whoever is in the middle of a resolve is one that asks for a field.

`StartupProofs` proves, for any settings, sections, values and requests that the
assumptions admit (an option is a number, `Bad` or not set; a request has finitely many
parameters):

| Theorem | States |
|---|---|
| `SectionsCorrect` | `Spec => []SectionsServed` |
| `AliasCorrect` | `Spec => []AliasIsItsParameters` |

`StageInv` says which paths have a handler at each stage, and which one: the exporter's own,
and those of the sections declared so far.  `AliasIsItsParameters` compares two loops that build
lists in different orders.  The data sources of a request are a concatenation,
which the library defines by recursion on its length; what is in it (`FlattenElements`) is
proved by looking at the least length for which it would be something else, since a
theorem of induction cannot be cited.  What a section and a request have in common is then
a matter of sets (`SectionElements`, `FormElements`).

Left to TLC is liveness: `RefreshedForever`, `CancelStopsAll`, `EveryScrapeEnds`,
`EveryGetterEnds`, `EveryResolveEnds`, `EveryRequestGoesOut`, `CallsGoOn`,
`PermitsGoRound`, `RotationHeals`.  The prover handles neither fairness nor `ENABLED`.  Of four
of them the part that is not fairness is proved, for instances of every size:

| Liveness | What is proved of it |
|---|---|
| `EveryGetterEnds` | `ForwardCorrect`: every step descends in a well-founded order |
| `EveryResolveEnds` | `WaitingCorrect`: who waits, waits for a call that is running, and for no other after it |
| `PermitsGoRound` | `NoDeadlock`, `QueueCorrect`: no circle and no overtaking |
| `RotationHeals` | `HealingCorrect`: nothing old comes up again that is not on its way already |

The properties these four state (`GoesForward`, `NobodyForgotten`, `WaitsForOneCall`,
`NoCircularWait`, `NoOvertaking`, `Healed`, `OldDriesUp`), and `ImplementsSemaphore`, are in no
run, since the theorems say more.  TLC checks each of them on the instance of its
module's run, if it is named in the configuration.

## 5. Where code and documentation disagree

* `EveryScrapeHasUp` (run `scrape_up`).  README.md:249 promises a `solace_up`
  with every scrape.  A panic is recovered around the whole worker, so a `Spool` reply without
  a message quota (getSpoolSemp1.go:110) leaves its data source and all that
  follow without one.
* `ResolvesCollapsed` (run `secret_collapse`).  resolver.go:35 says that concurrent
  resolves of a reference are collapsed into one backend call.  Each waiter
  stores the result after the shared call is over, so a `Resolve` that missed the
  cache and joins in between reads the backend again.  Only an extra read follows.
* `CredentialsMatch` (run `request_pair`).  docs/CONFIG.md:238: dynamic
  credentials need no special configuration.  The two references of a request are
  two reads, each of which issues other credentials.

These were met as well.  Each has a configuration of its own, which is not among the runs;
TLC finds the property violated in an instant:

| Property | Configuration | The documentation | The code |
|---|---|---|---|
| `EveryTargetHasAlias` | `MCExporter_alias.cfg` | README.md:109: each target has a `V1` alias | `MqttSession` has none (exporter.collect.go:175) |
| `ItemFilterHonoured` | `MCExporter_filter.cfg` | docs/CONFIG.md:95: `ClientMessageSpoolStats` has an item filter and no VPN filter | the VPN filter is passed (exporter.collect.go:142) |
| `TokensAreReused` | `MCExporterSystem_endless.cfg` | auth.go:50-52: a token is fetched if the current one is expired or about to expire | one without `expires_in` has a zero expiry and is fetched anew for every request, under the exclusive lock (auth.go:91) |
| `ConnectionsBounded` | `MCExporterSystem_connections.cfg` | README.md:168: `parallelSempConnections` is the maximum of connections to the broker | synchronous requests take no permit (main.go:107) |
| `CredentialsValid` | `MCRequestConfig_lease.cfg` | docs/CONFIG.md:238: cached values are refreshed automatically | those the configuration refers to are resolved once, at the start (config.struct.go:104) |
| `PlainWithoutBackend` | `MCRequestConfig_plain.cfg` | docs/CONFIG.md:151: without a backend all values are plain text | a text of the form of a reference is refused (resolver.go:95) |
| `EverySectionHasItsHandler` | `MCStartup_names.cfg` | README.md:77: one handler per section | a section `metrics`, `solace` or with an empty alias is registered twice and panics (main.go:106) |
| `ScrapesAskTheBroker` | `MCStartup_up.cfg` | README.md:249: every scrape emits `solace_up` | a request to `/solace` none of whose values is well-formed gets the metrics of the process (main.go:172) |

A certificate that cannot be read ends `main` with status 0 (tlsServer.go:31), unlike
every other failure of a start: `Listen` has it.

## 6. Not modelled

The page template, the cipher suites and headers of the TLS server, the tables
the tool prints, the examples: no control.  The tables of `metricDesc.go` and the
fields of the replies: data, passed by position; two getters pass labels in another
order than their descriptor has (getBridgeDetailSemp1.go:136 against metricDesc.go:36,
getClientMessageSpoolStatsSemp1.go:111 against metricDesc.go:22), which is found by
reading and needs no model.  `metric.Name` joins label values without escaping them.
Of `http.go` in `internal/exporter` the policy for redirects, of `resolver.go` the syntax of a
reference, of `hashicorp_backend.go` the unpacking of a reply.  The ini syntax, and
options that are only passed on; docs/CONFIG.md:20 gives `enableTLS` a default of
true, the code (config.struct.go:176) false.  Real time in the prefetch mode: only
the order of ticks matters.  `main` gives the fetchers a context that is never
cancelled (main.go:101); `AsyncFetcher` models what they do if it were.

## 7. Plan

1. A composition of `Startup` with `RequestConfig`, in which a request reaches a
   handler with the data sources and the credentials of the moment.
2. `AsyncFetcher` with a scrape that outlasts its interval: a ticker drops ticks,
   which the model allows but no property is about.
