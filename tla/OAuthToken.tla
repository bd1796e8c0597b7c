------------------------------ MODULE OAuthToken ------------------------------
(***************************************************************************)
(* The OAuth token that every request to the broker carries                *)
(* (internal/exporter/auth.go).  Scrapes work on copies of the             *)
(* configuration that share one token cache; the visitor put on a request  *)
(* looks the token up under a read lock, and if it is missing or about to  *)
(* expire takes the write lock, looks again and fetches a new one from the *)
(* token endpoint while it holds the lock.                                 *)
(*                                                                         *)
(* The expiry the exporter knows is counted from the arrival of the        *)
(* endpoint's answer, the life of the token from its issue: both are kept, *)
(* as remaining times, so runs have no end of time.                        *)
(***************************************************************************)
EXTENDS Integers

CONSTANTS Callers,      \* goroutines that send requests to the broker
          Lifetimes,    \* expires_in of a token; 0: none given, it never expires
          MaxLifetime,
          Margin,       \* five minutes
          FetchTimeout, \* Config.Timeout, of the HTTP client that fetches
          None          \* no token, no lock holder

ASSUME LifetimesAssumption == MaxLifetime \in Nat /\ Lifetimes \subseteq 0..MaxLifetime
ASSUME TimesAssumption == /\ Margin \in Nat
                          /\ FetchTimeout \in Nat \ {0}
ASSUME NoneAssumption == None \notin Callers

VARIABLES
  pc,        \* where a caller is
  got,       \* the token it puts on its request (history)
  cache,     \* oAuthTokenCache: token and expiry
  writer,    \* who holds the write lock of cache.mu
  admitted,  \* readers the last Unlock let in; they go before the next writer
  fetchAge,  \* how long the fetch under the lock has been running
  issued     \* the token the endpoint has issued for it

vars == <<pc, got, cache, writer, admitted, fetchAge, issued>>

Endless == MaxLifetime + 1   \* the life of a token that never expires

\* The time left until expiry as the exporter counts it (0: past, or the zero
\* time), and as the endpoint does.
Token == [left: 0..MaxLifetime, real: 0..Endless]

\* BearerOutlastsRequest, faulty: a token is used until it expires.
Good_NoMargin(t) == t # None /\ t.left > 0

\* The token may be used: now is before expiry minus five minutes.
Good(t) == t # None /\ t.left > Margin

\* What the fetch stores: an expires_in of 0 leaves Expiry zero, long past.
Counted(i) == [left |-> i.life, real |-> i.real]

\* Unlock lets in everyone who is waiting to read.
Waiting == {c \in Callers : pc[c] = "reading"}

-----------------------------------------------------------------------------
Init == /\ pc = [c \in Callers |-> "idle"]
        /\ got = [c \in Callers |-> None]
        /\ cache = None
        /\ writer = None
        /\ admitted = {}
        /\ fetchAge = 0
        /\ issued = None

\* The visitor of a request calls getOAuthToken.
Ask(c) == /\ pc[c] = "idle"
          /\ pc' = [pc EXCEPT ![c] = "reading"]
          /\ UNCHANGED <<got, cache, writer, admitted, fetchAge, issued>>

\* The request goes out with t; without one it carries no Authorization.
Answer(c, t, fresh) ==
  /\ pc' = [pc EXCEPT ![c] = "sending"]
  /\ got' = [got EXCEPT ![c] = IF t = None THEN None
                               ELSE [real |-> t.real, fresh |-> fresh]]

\* RLock, the first look, RUnlock.
Look(c) ==
  /\ pc[c] = "reading"
  /\ writer = None \/ c \in admitted
  /\ admitted' = admitted \ {c}
  /\ IF Good(cache)
     THEN Answer(c, cache, FALSE)
     ELSE pc' = [pc EXCEPT ![c] = "locking"] /\ UNCHANGED got
  /\ UNCHANGED <<cache, writer, fetchAge, issued>>

\* NoNeedlessFetch, faulty: the lock is taken without the second look.
Lock_NoSecondLook(c) ==
  /\ pc[c] = "locking"
  /\ writer = None /\ admitted = {}
  /\ writer' = c
  /\ pc' = [pc EXCEPT ![c] = "fetching"]
  /\ fetchAge' = 0
  /\ UNCHANGED <<got, cache, admitted, issued>>

\* Lock and the second look; the lock is kept for the fetch.
Lock(c) ==
  /\ pc[c] = "locking"
  /\ writer = None /\ admitted = {}
  /\ IF Good(cache)
     THEN /\ Answer(c, cache, FALSE)
          /\ admitted' = Waiting
          /\ UNCHANGED <<writer, fetchAge>>
     ELSE /\ writer' = c
          /\ pc' = [pc EXCEPT ![c] = "fetching"]
          /\ fetchAge' = 0
          /\ UNCHANGED <<got, admitted>>
  /\ UNCHANGED <<cache, issued>>

\* The endpoint issues a token and sends it off.
Issue == /\ writer # None /\ issued = None
         /\ \E l \in Lifetimes :
              issued' = [life |-> l, real |-> IF l = 0 THEN Endless ELSE l]
         /\ UNCHANGED <<pc, got, cache, writer, admitted, fetchAge>>

Unlock == /\ writer' = None
          /\ admitted' = Waiting
          /\ issued' = None
          /\ UNCHANGED fetchAge

\* The answer arrives: the token is stored and used.
Obtain(c) ==
  /\ pc[c] = "fetching" /\ issued # None
  /\ cache' = Counted(issued)
  /\ Answer(c, Counted(issued), TRUE)
  /\ Unlock

\* The endpoint refuses or is not reached, the answer is lost, or the context
\* of the scrape is done.  The old token stays.
Fail(c) == /\ pc[c] = "fetching"
           /\ Answer(c, None, TRUE)
           /\ Unlock
           /\ UNCHANGED cache

\* EveryRequestGoesOut, faulty: the client that fetches has no timeout.
TimesOut_Never(c) == FALSE /\ Fail(c)

TimesOut(c) == fetchAge >= FetchTimeout /\ Fail(c)

\* The request to the broker ends, answered or not.
Send(c) == /\ pc[c] = "sending"
           /\ pc' = [pc EXCEPT ![c] = "idle"]
           /\ got' = [got EXCEPT ![c] = None]
           /\ UNCHANGED <<cache, writer, admitted, fetchAge, issued>>

Less(n) == IF n > 0 THEN n - 1 ELSE n
Aged(r) == IF r = Endless THEN r ELSE Less(r)

\* Time passes, but not beyond the timeout of a fetch.
Tick ==
  /\ writer # None => fetchAge < FetchTimeout
  /\ cache' = IF cache = None THEN None
              ELSE [left |-> Less(cache.left), real |-> Aged(cache.real)]
  /\ issued' = IF issued = None THEN None
               ELSE [issued EXCEPT !.real = Aged(@)]
  /\ fetchAge' = IF writer = None THEN fetchAge ELSE fetchAge + 1
  /\ UNCHANGED <<pc, got, writer, admitted>>

Step(c) == \/ Ask(c) \/ Look(c) \/ Lock(c) \/ Obtain(c)
           \/ Fail(c) \/ TimesOut(c) \/ Send(c)

Next == (\E c \in Callers : Step(c)) \/ Issue \/ Tick

SafetySpec == Init /\ [][Next]_vars

\* Goroutines run and time passes.  A mutex hands itself to the longest waiter
\* once that has waited for a millisecond (sync.Mutex), so none starves.  The
\* endpoint need not answer.
Fairness == /\ \A c \in Callers : /\ WF_vars(Look(c)) /\ SF_vars(Lock(c))
                                  /\ WF_vars(TimesOut(c)) /\ WF_vars(Send(c))
            /\ WF_vars(Tick)

Spec == SafetySpec /\ Fairness

-----------------------------------------------------------------------------
(***************************************************************************)
(* Properties.                                                             *)
(***************************************************************************)
TypeOK ==
  /\ pc \in [Callers -> {"idle", "reading", "locking", "fetching", "sending"}]
  /\ got \in [Callers -> [real: 0..Endless, fresh: BOOLEAN] \cup {None}]
  /\ cache \in Token \cup {None}
  /\ writer \in Callers \cup {None}
  /\ admitted \subseteq Waiting
  /\ fetchAge \in 0..FetchTimeout
  /\ issued \in [life: Lifetimes, real: 0..Endless] \cup {None}
  /\ issued # None => writer # None
  /\ \A c \in Callers : pc[c] = "fetching" <=> writer = c

\* A token taken from the cache outlives the request it is put on: whatever the
\* delay with which the endpoint's answer arrived, it has five minutes less one
\* timeout to live by the endpoint's clock, and the request ends within its own.
\* (A token just fetched may live as briefly as the endpoint likes.)
BearerOutlastsRequest ==
  \A c \in Callers :
    got[c] # None => got[c].fresh \/ got[c].real > Margin - FetchTimeout

\* The endpoint is asked by one caller at a time, and by none while the token is
\* good for more than five minutes, however many callers found it missing
\* before the first of them had fetched one.  A token without expiry is the
\* exception, see TokensAreReused.
NeedfulFetch ==
  \A c \in Callers : pc[c] # "fetching" /\ pc'[c] = "fetching" =>
    /\ \A d \in Callers : pc[d] # "fetching"
    /\ (cache # None /\ cache.real # Endless => cache.real <= Margin)

NoNeedlessFetch == [][NeedfulFetch]_vars

\* A request waiting for a token gets one or goes out without, even when the
\* endpoint is silent and others fetch before it, again and again.
EveryRequestGoesOut ==
  \A c \in Callers : pc[c] \in {"reading", "locking", "fetching"} ~> pc[c] = "sending"

\* "retrieves a new OAuth token ... if the current token is expired or about to
\* expire" (getOAuthToken), and not otherwise.
TokensAreReused ==
  [][\A c \in Callers : pc[c] # "fetching" /\ pc'[c] = "fetching" /\ cache # None
       => cache.real <= Margin]_vars
=============================================================================
