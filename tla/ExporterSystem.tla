---------------------------- MODULE ExporterSystem ----------------------------
(***************************************************************************)
(* Everything that sends requests to the broker, together: the prefetch    *)
(* workers (internal/exporter/asyncFetcher.go), which share the permits of *)
(* one semaphore, and the synchronous requests (doHandle in main.go),      *)
(* which need none; all of them take the token they send from the one      *)
(* cache of OAuthToken.  A worker keeps its permit while it waits for the  *)
(* token's lock and for the token endpoint.                                *)
(*                                                                         *)
(* A scrape is any number of requests to the broker, one after another;    *)
(* what they ask for and what becomes of the answers is the matter of      *)
(* Exporter, SempGetter and AsyncFetcher.                                  *)
(***************************************************************************)
EXTENDS OAuthToken, Sequences, SequencesExt, FiniteSets

CONSTANTS Workers,                \* the other callers are synchronous requests
          ParallelSempConnections \* permits of the semaphore

ASSUME WorkersAssumption == Workers \subseteq Callers
ASSUME PermitsAssumption == ParallelSempConnections \in Nat \ {0}

\* The workers that have asked for a permit and not given it back, in order.
\* The semaphore serves them first come, first served, so the first ones hold
\* the permits.
VARIABLE queue

systemVars == <<vars, queue>>

Asked == {queue[i] : i \in DOMAIN queue}
Holders == {queue[i] : i \in {k \in DOMAIN queue : k <= ParallelSempConnections}}

-----------------------------------------------------------------------------
SystemInit == Init /\ queue = <<>>

\* SystemTypeOK, faulty: a worker whose scrape takes longer than the interval
\* asks for the next permit on the tick.
Acquire_OnTick(w) == /\ Len(SelectSeq(queue, LAMBDA v : v = w)) < 2
                     /\ queue' = Append(queue, w)
                     /\ UNCHANGED vars

\* connections.Acquire: when the worker starts, and on its ticks.
Acquire(w) == /\ w \notin Asked
              /\ queue' = Append(queue, w)
              /\ UNCHANGED vars

\* What connections.Release does for w; the next in line moves up.
Leaves(w) == \E i \in DOMAIN queue : /\ i <= ParallelSempConnections
                                     /\ queue[i] = w
                                     /\ queue' = RemoveAt(queue, i)

\* WorkersHoldPermits, faulty: the permit goes back once the scraping goroutine
\* has been started.
Release_Early(w) == Leaves(w) /\ UNCHANGED vars

\* readMetrics has returned, so no request is under way: connections.Release.
Release(w) == /\ pc[w] = "idle"
              /\ Leaves(w)
              /\ UNCHANGED vars

\* The requests of a worker's scrape, between Acquire and Release.
Work(w) == /\ pc[w] = "idle" => w \in Holders
           /\ Step(w)
           /\ UNCHANGED queue

\* Those of a synchronous one, at any time.
Serve(r) == Step(r) /\ UNCHANGED queue

\* The token endpoint answers, time passes.
Elsewhere == (Issue \/ Tick) /\ UNCHANGED queue

SystemNext == \/ \E w \in Workers : Acquire(w) \/ Release(w) \/ Work(w)
              \/ \E r \in Callers \ Workers : Serve(r)
              \/ Elsewhere

SystemSafetySpec == SystemInit /\ [][SystemNext]_systemVars

\* A scrape makes finitely many requests, so it ends if each of them does; the
\* rest as in OAuthToken.
SystemSpec == /\ SystemSafetySpec
              /\ Fairness
              /\ \A w \in Workers : SF_systemVars(Release(w))

-----------------------------------------------------------------------------
(***************************************************************************)
(* Properties.                                                             *)
(***************************************************************************)
\* No worker is in the queue twice, as holder and as waiter or otherwise.
SystemTypeOK == /\ TypeOK
                /\ queue \in Seq(Workers)
                /\ \A i, j \in DOMAIN queue : queue[i] = queue[j] => i = j

\* A worker that is anywhere between looking for a token and the end of its
\* request holds a permit all the while, so no more workers than there are
\* permits are at the broker or at the token endpoint.
WorkersHoldPermits ==
  LET busy == {w \in Workers : pc[w] # "idle"} IN
  /\ busy \subseteq Holders
  /\ Cardinality(busy) <= ParallelSempConnections

\* A worker that asks for a permit gets it, although the holders wait for the
\* token's lock, synchronous requests take that lock as well, and the token
\* endpoint need not answer: nobody who holds the lock waits for a permit.
PermitsGoRound == \A w \in Workers : w \in Asked ~> w \in Holders

\* Who waits for whom: for a permit, to read the token, for the token's lock.
WaitsFor(c, d) ==
  \/ c \in Asked \ Holders /\ d \in Holders
  \/ pc[c] = "reading" /\ c \notin admitted /\ d = writer
  \/ pc[c] = "locking" /\ d \in {writer} \cup admitted

\* Nobody waits for himself, through however many others: the two ways of
\* waiting, for a permit and for the lock, are always nested the same way.
NoCircularWait ==
  \E rank \in [Callers -> 0..2] :
    \A c, d \in Callers : WaitsFor(c, d) => rank[d] < rank[c]

\* The workers that are served before w.
Ahead(w) == {queue[i] : i \in {k \in DOMAIN queue :
                                 \E j \in DOMAIN queue : k < j /\ queue[j] = w}}

\* A worker that waits for a permit keeps its place until it has one: none that
\* comes later, as every worker does again on its ticks, is served before it.
NoOvertaking ==
  [][\A w \in Workers : w \in Asked \ Holders =>
       w \in Asked' /\ Ahead(w)' \subseteq Ahead(w)]_systemVars

\* The workers that wait, in order.
Behind == [i \in 1..(Len(queue) - ParallelSempConnections) |->
             queue[ParallelSempConnections + i]]

Permits == INSTANCE Semaphore WITH
             Permits <- ParallelSempConnections, holders <- Holders,
             waiters <- Behind, cancelled <- FALSE

\* One queue stands for the semaphore of AsyncFetcher, as long as nobody cancels
\* the workers' context (main never does): both move their permits the same way.
ImplementsSemaphore == Permits!Spec

\* "Maximum concurrent SEMP connections to the broker" (README.md).
ConnectionsBounded ==
  Cardinality({c \in Callers : pc[c] = "sending"}) <= ParallelSempConnections
=============================================================================
