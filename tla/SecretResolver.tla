---------------------------- MODULE SecretResolver ----------------------------
(***************************************************************************)
(* Resolving a reference to a secret (internal/secret/resolver.go).  Every *)
(* scrape may resolve the same reference; the resolver caches what the     *)
(* backend returned for as long as its TTL says, lets concurrent callers   *)
(* share one backend read (a singleflight group), and lets a caller whose  *)
(* own context is done leave at any moment.  One reference is modelled:    *)
(* references share only the mutex.  A literal, a malformed reference and  *)
(* a resolver without a backend return at once and change nothing.         *)
(*                                                                         *)
(* Time is kept as ages and remaining times, which stop changing where     *)
(* nothing depends on them any more, so runs have no end of time.          *)
(***************************************************************************)
EXTENDS Integers

CONSTANTS Callers,
          Ttls, MaxTtl, \* the TTLs the backend may recommend; 0 disables caching
          FetchTimeout, \* backendFetchTimeout (30s)
          None          \* no entry, no result

ASSUME TtlsAssumption == MaxTtl \in Nat /\ Ttls \subseteq 0..MaxTtl
ASSUME TimeoutAssumption == FetchTimeout \in Nat \ {0}

VARIABLES
  pc,        \* where a caller is: "idle", "missed" the cache, "waiting"
  got,       \* what the caller's channel holds
  cache,     \* r.cache[ref]: [age, left, ttl] or None
  flight,    \* the shared call: "none", or how far it is
  fetchAge,  \* how long the backend read has been running
  result,    \* what the shared call will return
  lastRead   \* history: how the last backend read ended

vars == <<pc, got, cache, flight, fetchAge, result, lastRead>>

\* Beyond this age nothing is distinguished.
MaxAge == MaxTtl + FetchTimeout + 1

\* A cached value: how long ago the backend read it, the time left until
\* expiresAt (-1 once that has passed) and the TTL it came with (history).
Entry == [age: 0..MaxAge, left: -1..MaxAge, ttl: Ttls]

\* A result of the shared call: from the cache, read, or an error.
Result == [kind: {"cached", "read"}, age: 0..MaxAge, ttl: Ttls]
          \cup [kind: {"failed"}]

ASSUME NoneAssumption == None \notin Entry /\ None \notin Result

\* cacheGet finds the entry: time.Now() is not after expiresAt.
Live == cache # None /\ cache.left >= 0

\* ... and otherwise deletes it.
AfterMiss == IF Live THEN cache ELSE None

\* cacheSet: a TTL of 0 deletes the entry.
Cached(r) == IF r.ttl = 0 THEN None
             ELSE [age |-> r.age, left |-> r.ttl, ttl |-> r.ttl]

-----------------------------------------------------------------------------
(***************************************************************************)
(* Faulty variants of the actions below, one per property.                 *)
(***************************************************************************)
\* LeaseRespected: what the shared call found in the cache is stored again.
Receive_StoresCached(c) ==
  /\ pc[c] = "waiting" /\ got[c] # None
  /\ cache' = IF got[c].kind # "failed" THEN Cached(got[c]) ELSE cache
  /\ got' = [got EXCEPT ![c] = None]
  /\ pc' = [pc EXCEPT ![c] = "idle"]
  /\ UNCHANGED <<flight, fetchAge, result, lastRead>>

\* ErrorsAreTheBackends: the read runs under a caller's context.
GiveUp_CancelsFetch(c) ==
  /\ pc[c] = "waiting"
  /\ pc' = [pc EXCEPT ![c] = "idle"]
  /\ got' = [got EXCEPT ![c] = None]
  /\ IF flight \in {"asking", "answering"}
     THEN flight' = "done" /\ result' = [kind |-> "failed"]
     ELSE UNCHANGED <<flight, result>>
  /\ UNCHANGED <<cache, fetchAge, lastRead>>

\* EveryResolveEnds: the read has no timeout of its own.
ReadTimesOut_Never == FALSE /\ UNCHANGED vars

\* TypeOK: the call is forgotten, its result is kept.
Deliver_KeepsCall ==
  /\ flight = "done"
  /\ got' = [c \in Callers |-> IF pc[c] = "waiting" /\ got[c] = None THEN result ELSE got[c]]
  /\ flight' = "none"
  /\ UNCHANGED <<pc, cache, fetchAge, result, lastRead>>

-----------------------------------------------------------------------------
Init == /\ pc = [c \in Callers |-> "idle"]
        /\ got = [c \in Callers |-> None]
        /\ cache = None
        /\ flight = "none"
        /\ fetchAge = 0
        /\ result = None
        /\ lastRead = "none"

\* Resolve looks into the cache.  A hit is returned and changes nothing.
Miss(c) ==
  /\ pc[c] = "idle"
  /\ ~Live
  /\ cache' = AfterMiss
  /\ pc' = [pc EXCEPT ![c] = "missed"]
  /\ UNCHANGED <<got, flight, fetchAge, result, lastRead>>

\* DoChan: join the call that is running, or start one.
Join(c) ==
  /\ pc[c] = "missed"
  /\ pc' = [pc EXCEPT ![c] = "waiting"]
  /\ flight' = IF flight = "none" THEN "check" ELSE flight
  /\ UNCHANGED <<got, cache, fetchAge, result, lastRead>>

\* The shared call looks into the cache once more, and asks the backend.
Recheck ==
  /\ flight = "check"
  /\ cache' = AfterMiss
  /\ IF Live
     THEN /\ flight' = "done"
          /\ result' = [kind |-> "cached", age |-> cache.age, ttl |-> cache.ttl]
          /\ UNCHANGED fetchAge
     ELSE /\ flight' = "asking"
          /\ fetchAge' = 0
          /\ UNCHANGED result
  /\ UNCHANGED <<pc, got, lastRead>>

\* The backend reads the secret and sends it off.
BackendReads ==
  /\ flight = "asking"
  /\ \E t \in Ttls : result' = [kind |-> "read", age |-> 0, ttl |-> t]
  /\ flight' = "answering"
  /\ UNCHANGED <<pc, got, cache, fetchAge, lastRead>>

ReadReturns ==
  /\ flight = "answering"
  /\ flight' = "done"
  /\ lastRead' = "ok"
  /\ UNCHANGED <<pc, got, cache, fetchAge, result>>

FailRead == /\ flight' = "done"
            /\ result' = [kind |-> "failed"]
            /\ lastRead' = "failed"
            /\ UNCHANGED <<pc, got, cache, fetchAge>>

ReadFails == flight \in {"asking", "answering"} /\ FailRead

ReadTimesOut == /\ flight \in {"asking", "answering"}
                /\ fetchAge >= FetchTimeout
                /\ FailRead

\* The call is over: its result is put on every waiting caller's channel.
Deliver ==
  /\ flight = "done"
  /\ got' = [c \in Callers |-> IF pc[c] = "waiting" /\ got[c] = None THEN result ELSE got[c]]
  /\ flight' = "none"
  /\ result' = None
  /\ UNCHANGED <<pc, cache, fetchAge, lastRead>>

\* The caller receives; it stores what was read, and returns.
Receive(c) ==
  /\ pc[c] = "waiting" /\ got[c] # None
  /\ cache' = IF got[c].kind = "read" THEN Cached(got[c]) ELSE cache
  /\ got' = [got EXCEPT ![c] = None]
  /\ pc' = [pc EXCEPT ![c] = "idle"]
  /\ UNCHANGED <<flight, fetchAge, result, lastRead>>

\* The caller's context is done.
GiveUp(c) ==
  /\ pc[c] = "waiting"
  /\ pc' = [pc EXCEPT ![c] = "idle"]
  /\ got' = [got EXCEPT ![c] = None]
  /\ UNCHANGED <<cache, flight, fetchAge, result, lastRead>>

Older(x) == [x EXCEPT !.age = IF @ < MaxAge THEN @ + 1 ELSE @]

\* Time passes.  It is coarse (seconds) against the steps of goroutines: none
\* passes while one is due, nor beyond the timeout of a read.
Tick ==
  /\ flight \notin {"check", "done"}
  /\ \A c \in Callers : got[c] = None
  /\ flight \in {"asking", "answering"} => fetchAge < FetchTimeout
  /\ cache' = IF cache = None THEN None
              ELSE [Older(cache) EXCEPT !.left = IF @ >= 0 THEN @ - 1 ELSE @]
  /\ result' = IF result = None THEN None ELSE Older(result)
  /\ fetchAge' = IF flight = "none" THEN fetchAge ELSE fetchAge + 1
  /\ UNCHANGED <<pc, got, flight, lastRead>>

Next == \/ \E c \in Callers : Miss(c) \/ Join(c) \/ Receive(c) \/ GiveUp(c)
        \/ Recheck \/ BackendReads \/ ReadReturns \/ ReadFails \/ ReadTimesOut
        \/ Deliver \/ Tick

SafetySpec == Init /\ [][Next]_vars

\* Goroutines run, time passes, and a timeout fires; the backend need not answer
\* and no caller need have a deadline.
Spec == /\ SafetySpec
        /\ \A c \in Callers : WF_vars(Join(c)) /\ WF_vars(Receive(c))
        /\ WF_vars(Recheck) /\ WF_vars(ReadTimesOut) /\ WF_vars(Deliver)
        /\ WF_vars(Tick)

-----------------------------------------------------------------------------
(***************************************************************************)
(* Properties.                                                             *)
(***************************************************************************)
Flights == {"none", "check", "asking", "answering", "done"}

TypeOK == /\ pc \in [Callers -> {"idle", "missed", "waiting"}]
          /\ got \in [Callers -> Result \cup {None}]
          /\ cache \in Entry \cup {None}
          /\ flight \in Flights
          /\ fetchAge \in 0..FetchTimeout
          /\ result \in Result \cup {None}
          /\ flight = "done" <=> result # None /\ flight # "answering"
          /\ lastRead \in {"none", "ok", "failed"}
          /\ \A c \in Callers : got[c] # None => pc[c] = "waiting"

\* A secret is served from the cache no longer after the backend read it than
\* its TTL and the time one read may take, whoever of the waiting callers
\* stores it and in whichever order; with a TTL of 0 it is not cached at all.
\* What a waiting caller is given is no older than one read may take, or was in
\* the cache and is bounded as such.
LeaseRespected ==
  /\ Live => cache.ttl > 0 /\ cache.age <= cache.ttl + FetchTimeout
  /\ \A c \in Callers :
       /\ got[c] # None
       /\ got[c].kind # "failed"
       => got[c].age <= FetchTimeout + (IF got[c].kind = "cached" THEN got[c].ttl ELSE 0)

\* No caller sees an error that is not its own deadline or the backend's: one
\* that gives up does not take the shared read away from the others.
ErrorsAreTheBackends ==
  result # None => (result.kind = "failed" => lastRead = "failed")

\* A caller that waits for a result has one coming: no call ends, and none is
\* forgotten by the group, without giving everybody who joined it a result, the
\* callers that joined just before the end included.
NobodyForgotten ==
  \A c \in Callers : pc[c] = "waiting" => got[c] # None \/ flight # "none"

\* It waits for that one call, which moves towards its end; what others ask for
\* in the meantime keeps nobody waiting.
Stage == [none |-> 0, check |-> 1, asking |-> 2, answering |-> 3, done |-> 4]
WaitsForOneCall ==
  [][\A c \in Callers :
       pc[c] = "waiting" /\ got[c] = None =>
         \/ pc'[c] = "idle"
         \/ got'[c] # None
         \/ flight' = flight
         \/ Stage[flight'] > Stage[flight]]_vars

\* Every call of Resolve ends, however long the backend is silent and although
\* callers join a call that is about to end.
EveryResolveEnds ==
  \A c \in Callers : pc[c] # "idle" ~> pc[c] = "idle"

\* "concurrent resolves of the same ref are collapsed into one backend call"
\* (Resolver): the backend is not asked while another caller's Resolve is still
\* in progress and already has a value that may be cached.
ResolvesCollapsed ==
  flight \in {"asking", "answering"} =>
    \A c \in Callers : got[c] # None => got[c].kind # "read" \/ got[c].ttl = 0

=============================================================================
