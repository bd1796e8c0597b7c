------------------------- MODULE SecretResolverProofs -------------------------
(***************************************************************************)
(* Proofs about SecretResolver for any callers, TTLs and fetch timeout.    *)
(***************************************************************************)
EXTENDS SecretResolver, TLAPS

(***************************************************************************)
(* Types.                                                                  *)
(***************************************************************************)
LEMMA BoundsType == /\ MaxTtl \in Nat /\ FetchTimeout \in Nat \ {0}
                    /\ MaxAge \in Nat /\ MaxAge = MaxTtl + FetchTimeout + 1
                    /\ \A t \in Ttls : t \in 0..MaxTtl
BY TtlsAssumption, TimeoutAssumption DEF MaxAge

LEMMA TypeInitially == Init => TypeOK
BY TimeoutAssumption DEF Init, TypeOK, Flights

LEMMA AfterMissType == ASSUME cache \in Entry \cup {None}
                       PROVE  AfterMiss \in Entry \cup {None}
BY DEF AfterMiss

LEMMA CachedType ==
  ASSUME NEW r \in Result, r.kind # "failed"
  PROVE  Cached(r) \in Entry \cup {None}
<1>1. r.age \in 0..MaxAge /\ r.ttl \in Ttls
  BY DEF Result
<1>2. r.ttl \in -1..MaxAge
  BY <1>1, BoundsType
<1> QED
  BY <1>1, <1>2 DEF Cached, Entry

LEMMA OlderEntryType ==
  ASSUME NEW e \in Entry
  PROVE  /\ Older(e) \in Entry
         /\ [Older(e) EXCEPT !.left = IF @ >= 0 THEN @ - 1 ELSE @] \in Entry
<1>1. e.age \in 0..MaxAge /\ e.left \in -1..MaxAge /\ e.ttl \in Ttls
      /\ e = [age |-> e.age, left |-> e.left, ttl |-> e.ttl]
  BY DEF Entry
<1>2. (IF e.age < MaxAge THEN e.age + 1 ELSE e.age) \in 0..MaxAge
  BY <1>1, BoundsType
<1>3. (IF e.left >= 0 THEN e.left - 1 ELSE e.left) \in -1..MaxAge
  BY <1>1, BoundsType
<1> QED
  BY <1>1, <1>2, <1>3 DEF Older, Entry

LEMMA OlderResultType ==
  ASSUME NEW r \in Result, r.kind = "read"
  PROVE  Older(r) \in Result /\ Older(r).kind = "read"
<1>1. r \in [kind: {"cached", "read"}, age: 0..MaxAge, ttl: Ttls]
  BY DEF Result
<1>2. (IF r.age < MaxAge THEN r.age + 1 ELSE r.age) \in 0..MaxAge
  BY <1>1, BoundsType
<1>3. Older(r) \in [kind: {"cached", "read"}, age: 0..MaxAge, ttl: Ttls]
  BY <1>1, <1>2 DEF Older
<1> QED
  BY <1>1, <1>3 DEF Older, Result

\* What TypeOK leaves open: while the backend's answer travels, it is there.
AnswerTravels == flight = "answering" => result # None /\ result.kind = "read"

Typed == TypeOK /\ AnswerTravels

LEMMA TypedInitially == Init => Typed
BY TypeInitially DEF Init, Typed, AnswerTravels

LEMMA TypeStep == Typed /\ [Next]_vars => Typed'
<1> SUFFICES ASSUME Typed, [Next]_vars PROVE Typed'
  OBVIOUS
<1>1. ASSUME NEW c \in Callers, Miss(c) PROVE Typed'
  BY <1>1, AfterMissType DEF Typed, AnswerTravels, TypeOK, Miss
<1>2. ASSUME NEW c \in Callers, Join(c) PROVE Typed'
  BY <1>2 DEF Typed, AnswerTravels, TypeOK, Join, Flights
<1>3. ASSUME NEW c \in Callers, Receive(c) PROVE Typed'
  <2>1. cache' \in Entry \cup {None}
    <3>1. got[c] \in Result
      BY <1>3 DEF Typed, TypeOK, Receive
    <3>2. CASE got[c].kind = "read"
      BY <1>3, <3>1, <3>2, CachedType DEF Receive
    <3>3. CASE got[c].kind # "read"
      BY <1>3, <3>3 DEF Receive, Typed, TypeOK
    <3> QED
      BY <3>2, <3>3
  <2> QED
    BY <1>3, <2>1 DEF Typed, AnswerTravels, TypeOK, Receive
<1>4. ASSUME NEW c \in Callers, GiveUp(c) PROVE Typed'
  BY <1>4 DEF Typed, AnswerTravels, TypeOK, GiveUp
<1>5. CASE Recheck
  <2>1. cache' \in Entry \cup {None} /\ AfterMiss \in Entry \cup {None}
    BY <1>5, AfterMissType DEF Typed, TypeOK, Recheck
  <2>2. CASE Live
    <3>1. cache \in Entry /\ cache.age \in 0..MaxAge /\ cache.ttl \in Ttls
      BY <2>2 DEF Live, Typed, TypeOK, Entry
    <3>2. result' \in Result /\ result' # None
      BY <1>5, <2>2, <3>1, NoneAssumption DEF Recheck, Result
    <3> QED
      BY <1>5, <2>1, <2>2, <3>2 DEF Typed, AnswerTravels, TypeOK, Recheck, Flights
  <2>3. CASE ~Live
    BY <1>5, <2>1, <2>3, BoundsType DEF Typed, AnswerTravels, TypeOK, Recheck, Flights
  <2> QED
    BY <2>2, <2>3
<1>6. CASE BackendReads
  <2>1. PICK t \in Ttls : result' = [kind |-> "read", age |-> 0, ttl |-> t]
    BY <1>6 DEF BackendReads
  <2>2. result' \in Result /\ result' # None /\ result'.kind = "read"
    BY <2>1, BoundsType, NoneAssumption DEF Result
  <2> QED
    BY <1>6, <2>2 DEF Typed, AnswerTravels, TypeOK, BackendReads, Flights
<1>7. CASE ReadReturns
  BY <1>7 DEF Typed, AnswerTravels, TypeOK, ReadReturns, Flights
<1>8. CASE FailRead
  <2>1. result' \in Result /\ result' # None
    BY <1>8, NoneAssumption DEF FailRead, Result
  <2> QED
    BY <1>8, <2>1 DEF Typed, AnswerTravels, TypeOK, FailRead, Flights
<1>9. CASE Deliver
  <2>1. result # None /\ result \in Result
    BY <1>9 DEF Typed, TypeOK, Deliver
  <2> QED
    BY <1>9, <2>1 DEF Typed, AnswerTravels, TypeOK, Deliver, Flights
<1>10. CASE Tick
  <2>1. cache' \in Entry \cup {None}
    BY <1>10, OlderEntryType DEF Typed, TypeOK, Tick
  <2>2. flight \in {"none", "asking", "answering"}
    BY <1>10 DEF Typed, TypeOK, Tick, Flights
  <2>3. fetchAge' \in 0..FetchTimeout
    BY <1>10, <2>2, BoundsType DEF Typed, TypeOK, Tick
  <2>4. CASE flight = "answering"
    <3>1. result \in Result /\ result # None /\ result.kind = "read"
      BY <2>4 DEF Typed, AnswerTravels, TypeOK
    <3>2. result' = Older(result)
      BY <1>10, <3>1 DEF Tick
    <3>3. result' \in Result /\ result' # None /\ result'.kind = "read"
      BY <3>1, <3>2, OlderResultType, NoneAssumption
    <3> QED
      BY <1>10, <2>1, <2>3, <2>4, <3>3 DEF Typed, AnswerTravels, TypeOK, Tick
  <2>5. CASE flight # "answering"
    <3>1. result = None /\ result' = None
      BY <1>10, <2>2, <2>5 DEF Typed, TypeOK, Tick
    <3> QED
      BY <1>10, <2>1, <2>3, <2>5, <3>1 DEF Typed, AnswerTravels, TypeOK, Tick
  <2> QED
    BY <2>4, <2>5
<1>11. CASE UNCHANGED vars
  BY <1>11 DEF Typed, AnswerTravels, TypeOK, vars
<1> QED
  BY <1>1, <1>2, <1>3, <1>4, <1>5, <1>6, <1>7, <1>8, <1>9, <1>10, <1>11
     DEF Next, ReadFails, ReadTimesOut

\* The state is well typed, and a call has a result exactly when it is over.
THEOREM TypeCorrect == SafetySpec => []TypeOK
<1>1. SafetySpec => []Typed
  BY TypedInitially, TypeStep, PTL DEF SafetySpec
<1>2. Typed => TypeOK
  BY DEF Typed
<1> QED
  BY <1>1, <1>2, PTL

(***************************************************************************)
(* Leases.  The time since an answer left the backend is bounded by the    *)
(* time its read has been running, so by the timeout; a caller that stores *)
(* it then gives it its whole TTL; and time moves an entry's age and its   *)
(* remaining time against each other.                                      *)
(***************************************************************************)
\* What holds of a result wherever it is on its way to a caller.
Prompt(r) == r # None /\ r.kind # "failed" =>
               r.age <= FetchTimeout + (IF r.kind = "cached" THEN r.ttl ELSE 0)

\* ... and of an entry until it expires.
Leased(e) == e # None /\ e.left >= 0 =>
               e.ttl > 0 /\ e.age + e.left <= e.ttl + FetchTimeout

LeaseInv == /\ Leased(cache)
            /\ Prompt(result)
            /\ flight = "answering" => result.age <= fetchAge
            /\ \A c \in Callers : Prompt(got[c])

LEMMA LeaseInitially == Init => LeaseInv
BY DEF Init, LeaseInv, Leased, Prompt

\* Storing a prompt answer gives it a proper lease.
LEMMA CachedIsLeased ==
  ASSUME NEW r \in Result, r # None, r.kind = "read", Prompt(r)
  PROVE  Leased(Cached(r))
<1>1. r.age \in 0..MaxAge /\ r.ttl \in Ttls /\ r.age <= FetchTimeout
  <2>1. r.age \in 0..MaxAge /\ r.ttl \in Ttls
    BY DEF Result
  <2>2. r.age <= FetchTimeout + 0
    BY DEF Prompt
  <2> QED
    BY <2>1, <2>2, BoundsType
<1>2. CASE r.ttl = 0
  BY <1>2 DEF Cached, Leased
<1>3. CASE r.ttl # 0
  <2>1. r.ttl > 0 /\ r.age + r.ttl <= r.ttl + FetchTimeout
    BY <1>1, <1>3, BoundsType
  <2>2. Cached(r) = [age |-> r.age, left |-> r.ttl, ttl |-> r.ttl]
    BY <1>3 DEF Cached
  <2> QED
    BY <2>1, <2>2 DEF Leased
<1> QED
  BY <1>2, <1>3

\* An entry keeps its lease as time passes.
LEMMA LeaseAges ==
  ASSUME NEW e \in Entry, e # None, Leased(e)
  PROVE  Leased([Older(e) EXCEPT !.left = IF @ >= 0 THEN @ - 1 ELSE @])
<1> DEFINE f == [Older(e) EXCEPT !.left = IF @ >= 0 THEN @ - 1 ELSE @]
<1>1. e.age \in Int /\ e.left \in Int /\ e.ttl \in Int /\ MaxAge \in Int
      /\ e = [age |-> e.age, left |-> e.left, ttl |-> e.ttl]
  BY BoundsType DEF Entry
<1>2. /\ f.age = IF e.age < MaxAge THEN e.age + 1 ELSE e.age
      /\ f.left = IF e.left >= 0 THEN e.left - 1 ELSE e.left
      /\ f.ttl = e.ttl
  BY <1>1 DEF Older
<1>3. ASSUME f.left >= 0 PROVE f.ttl > 0 /\ f.age + f.left <= f.ttl + FetchTimeout
  <2>1. e.left >= 0 /\ f.left = e.left - 1
    BY <1>1, <1>2, <1>3
  <2>2. e.ttl > 0 /\ e.age + e.left <= e.ttl + FetchTimeout
    BY <2>1 DEF Leased
  <2> QED
    BY <1>1, <1>2, <2>1, <2>2, BoundsType
<1> QED
  BY <1>3 DEF Leased

LEMMA LeaseStep == Typed /\ LeaseInv /\ [Next]_vars => LeaseInv'
<1> SUFFICES ASSUME Typed, LeaseInv, [Next]_vars PROVE LeaseInv'
  OBVIOUS
<1>0. Leased(None) /\ Prompt(None)
  BY DEF Leased, Prompt
<1>1. ASSUME NEW c \in Callers, Miss(c) PROVE LeaseInv'
  <2>1. Leased(cache')
    BY <1>0, <1>1 DEF Miss, AfterMiss
  <2> QED
    BY <1>1, <2>1 DEF LeaseInv, Miss, Prompt, Leased
<1>2. ASSUME NEW c \in Callers, Join(c) PROVE LeaseInv'
  BY <1>2 DEF LeaseInv, Join, Prompt, Leased
<1>3. ASSUME NEW c \in Callers, Receive(c) PROVE LeaseInv'
  <2>1. Leased(cache')
    <3>1. got[c] \in Result /\ got[c] # None /\ Prompt(got[c])
      BY <1>3 DEF Typed, TypeOK, Receive, LeaseInv
    <3>2. CASE got[c].kind = "read"
      BY <1>3, <3>1, <3>2, CachedIsLeased DEF Receive
    <3>3. CASE got[c].kind # "read"
      BY <1>3, <3>3 DEF Receive, LeaseInv
    <3> QED
      BY <3>2, <3>3
  <2>2. \A d \in Callers : got'[d] = got[d] \/ got'[d] = None
    BY <1>3 DEF Receive, Typed, TypeOK
  <2>3. \A d \in Callers : Prompt(got'[d])
    BY <1>0, <2>2 DEF LeaseInv
  <2> QED
    BY <1>3, <2>1, <2>3 DEF LeaseInv, Receive, Leased, Prompt
<1>4. ASSUME NEW c \in Callers, GiveUp(c) PROVE LeaseInv'
  <2>1. \A d \in Callers : got'[d] = got[d] \/ got'[d] = None
    BY <1>4 DEF GiveUp, Typed, TypeOK
  <2>2. \A d \in Callers : Prompt(got'[d])
    BY <1>0, <2>1 DEF LeaseInv
  <2> QED
    BY <1>4, <2>2 DEF LeaseInv, GiveUp, Leased, Prompt
<1>5. CASE Recheck
  <2>1. Leased(cache')
    BY <1>0, <1>5 DEF Recheck, AfterMiss, LeaseInv
  <2>2. Prompt(result') /\ flight' # "answering"
    <3>1. CASE Live
      <4>1. cache \in Entry /\ cache # None /\ cache.left >= 0
        BY <3>1 DEF Live, Typed, TypeOK
      <4>2. cache.age \in Int /\ cache.left \in Int /\ cache.ttl \in Int
        BY <4>1, BoundsType DEF Entry
      <4>3. cache.age + cache.left <= cache.ttl + FetchTimeout
        BY <4>1 DEF LeaseInv, Leased
      <4>4. cache.age <= FetchTimeout + cache.ttl
        BY <4>1, <4>2, <4>3, BoundsType
      <4>5. result' = [kind |-> "cached", age |-> cache.age, ttl |-> cache.ttl]
            /\ flight' = "done"
        BY <1>5, <3>1 DEF Recheck
      <4> QED
        BY <4>4, <4>5 DEF Prompt
    <3>2. CASE ~Live
      BY <1>5, <3>2 DEF Recheck, LeaseInv
    <3> QED
      BY <3>1, <3>2
  <2> QED
    BY <1>5, <2>1, <2>2 DEF LeaseInv, Recheck, Leased, Prompt
<1>6. CASE BackendReads
  <2>1. PICK t \in Ttls : result' = [kind |-> "read", age |-> 0, ttl |-> t]
    BY <1>6 DEF BackendReads
  <2>2. fetchAge \in Nat /\ fetchAge' = fetchAge
    BY <1>6, BoundsType DEF BackendReads, Typed, TypeOK
  <2>3. Prompt(result') /\ result'.age <= fetchAge'
    BY <2>1, <2>2, BoundsType DEF Prompt
  <2> QED
    BY <1>6, <2>3 DEF LeaseInv, BackendReads, Leased, Prompt
<1>7. CASE ReadReturns
  BY <1>7 DEF LeaseInv, ReadReturns, Leased, Prompt
<1>8. CASE FailRead
  <2>1. Prompt(result') /\ flight' # "answering"
    BY <1>8 DEF FailRead, Prompt
  <2> QED
    BY <1>8, <2>1 DEF LeaseInv, FailRead, Leased, Prompt
<1>9. CASE Deliver
  <2>1. \A d \in Callers : got'[d] = got[d] \/ got'[d] = result
    BY <1>9 DEF Deliver
  <2>2. \A d \in Callers : Prompt(got'[d])
    BY <2>1 DEF LeaseInv
  <2>3. Prompt(result') /\ flight' # "answering"
    BY <1>0, <1>9 DEF Deliver
  <2> QED
    BY <1>9, <2>2, <2>3 DEF LeaseInv, Deliver, Leased, Prompt
<1>10. CASE Tick
  <2>1. Leased(cache')
    BY <1>0, <1>10, LeaseAges DEF Tick, Typed, TypeOK, LeaseInv
  <2>2. CASE flight = "answering"
    <3>1. result \in Result /\ result # None /\ result.kind = "read"
          /\ result.age <= fetchAge /\ fetchAge < FetchTimeout
      BY <1>10, <2>2 DEF Tick, Typed, AnswerTravels, TypeOK, LeaseInv
    <3>2. result \in [kind: {"cached", "read"}, age: 0..MaxAge, ttl: Ttls]
      BY <3>1 DEF Result
    <3>3. /\ result'.kind = "read"
          /\ result'.age = IF result.age < MaxAge THEN result.age + 1 ELSE result.age
      BY <1>10, <3>1, <3>2 DEF Tick, Older
    <3>4. result.age \in Int /\ fetchAge \in Int /\ fetchAge' = fetchAge + 1
      BY <1>10, <2>2, <3>2, BoundsType DEF Tick, Typed, TypeOK
    <3>5. result'.age <= fetchAge' /\ result'.age <= FetchTimeout
      BY <3>1, <3>3, <3>4, BoundsType
    <3>6. Prompt(result')
      BY <3>3, <3>5, BoundsType DEF Prompt
    <3> QED
      BY <1>10, <2>1, <3>5, <3>6 DEF LeaseInv, Tick, Leased, Prompt
  <2>3. CASE flight # "answering"
    <3>1. result = None /\ result' = None
      BY <1>10, <2>3 DEF Typed, TypeOK, Tick
    <3> QED
      BY <1>0, <1>10, <2>1, <2>3, <3>1 DEF LeaseInv, Tick, Leased, Prompt
  <2> QED
    BY <2>2, <2>3
<1>11. CASE UNCHANGED vars
  BY <1>11 DEF LeaseInv, vars, Leased, Prompt
<1> QED
  BY <1>1, <1>2, <1>3, <1>4, <1>5, <1>6, <1>7, <1>8, <1>9, <1>10, <1>11
     DEF Next, ReadFails, ReadTimesOut

\* No secret is served for longer than its TTL and the time of one read, in
\* whichever order the waiting callers of one read store what they received.
THEOREM LeaseCorrect == SafetySpec => []LeaseRespected
<1>1. SafetySpec => [](Typed /\ LeaseInv)
  BY TypedInitially, LeaseInitially, TypeStep, LeaseStep, PTL DEF SafetySpec
<1>2. Typed /\ LeaseInv => LeaseRespected
  <2> SUFFICES ASSUME Typed, LeaseInv PROVE LeaseRespected
    OBVIOUS
  <2>1. ASSUME Live PROVE cache.ttl > 0 /\ cache.age <= cache.ttl + FetchTimeout
    <3>1. cache \in Entry /\ cache # None /\ cache.left >= 0
      BY <2>1 DEF Live, Typed, TypeOK
    <3>2. cache.age \in Int /\ cache.left \in Int /\ cache.ttl \in Int
      BY <3>1, BoundsType DEF Entry
    <3>3. cache.ttl > 0 /\ cache.age + cache.left <= cache.ttl + FetchTimeout
      BY <3>1 DEF LeaseInv, Leased
    <3> QED
      BY <3>1, <3>2, <3>3, BoundsType
  <2>2. \A c \in Callers : Prompt(got[c])
    BY DEF LeaseInv
  <2> QED
    BY <2>1, <2>2 DEF LeaseRespected, Prompt
<1> QED
  BY <1>1, <1>2, PTL

(***************************************************************************)
(* Errors.  A caller that gives up touches nothing shared, so the shared   *)
(* call has an error only from its own read.                               *)
(***************************************************************************)
LEMMA ErrorsStep ==
  Typed /\ ErrorsAreTheBackends /\ [Next]_vars => ErrorsAreTheBackends'
<1> SUFFICES ASSUME Typed, ErrorsAreTheBackends, [Next]_vars PROVE ErrorsAreTheBackends'
  OBVIOUS
<1>1. ASSUME UNCHANGED <<result, lastRead>> PROVE ErrorsAreTheBackends'
  BY <1>1 DEF ErrorsAreTheBackends
<1>2. ASSUME NEW c \in Callers, Miss(c) \/ Join(c) \/ Receive(c) \/ GiveUp(c)
      PROVE  ErrorsAreTheBackends'
  BY <1>1, <1>2 DEF Miss, Join, Receive, GiveUp
<1>3. CASE Recheck
  <2>1. CASE Live
    BY <1>3, <2>1 DEF Recheck, ErrorsAreTheBackends
  <2>2. CASE ~Live
    BY <1>1, <1>3, <2>2 DEF Recheck
  <2> QED
    BY <2>1, <2>2
<1>4. CASE BackendReads
  BY <1>4 DEF BackendReads, ErrorsAreTheBackends
<1>5. CASE ReadReturns
  BY <1>5 DEF ReadReturns, ErrorsAreTheBackends, Typed, AnswerTravels
<1>6. CASE FailRead
  BY <1>6 DEF FailRead, ErrorsAreTheBackends
<1>7. CASE Deliver
  BY <1>7 DEF Deliver, ErrorsAreTheBackends
<1>8. CASE Tick
  <2>1. CASE flight = "answering"
    <3>1. result \in Result /\ result # None /\ result.kind = "read"
      BY <2>1 DEF Typed, AnswerTravels, TypeOK
    <3>2. result'.kind = "read"
      BY <1>8, <3>1, OlderResultType DEF Tick
    <3> QED
      BY <3>2 DEF ErrorsAreTheBackends
  <2>2. CASE flight # "answering"
    BY <1>8, <2>2 DEF Tick, Typed, TypeOK, ErrorsAreTheBackends
  <2> QED
    BY <2>1, <2>2
<1>9. CASE UNCHANGED vars
  BY <1>1, <1>9 DEF vars
<1> QED
  BY <1>2, <1>3, <1>4, <1>5, <1>6, <1>7, <1>8, <1>9 DEF Next, ReadFails, ReadTimesOut

\* What callers are given as an error is the backend's, or that its own time is
\* up: never that another caller has gone.
THEOREM ErrorsCorrect == SafetySpec => []ErrorsAreTheBackends
<1>1. Init => ErrorsAreTheBackends
  BY DEF Init, ErrorsAreTheBackends
<1>2. SafetySpec => [](Typed /\ ErrorsAreTheBackends)
  BY <1>1, TypedInitially, TypeStep, ErrorsStep, PTL DEF SafetySpec
<1> QED
  BY <1>2, PTL

(***************************************************************************)
(* Waiting.                                                                *)
(***************************************************************************)
\* Delivered results are there.
LEMMA DeliverReaches ==
  ASSUME Typed, Deliver, NEW c \in Callers, pc[c] = "waiting"
  PROVE  got'[c] # None
<1>1. result # None
  BY DEF Deliver, Typed, TypeOK
<1> QED
  BY <1>1 DEF Deliver

\* What a step does to a caller that waits before it and after it.
LEMMA WaitingStep ==
  ASSUME Typed, NobodyForgotten, [Next]_vars,
         NEW c \in Callers, pc[c] = "waiting", pc'[c] # "idle", got[c] = None
  PROVE  got'[c] # None \/ flight' = flight \/ Stage[flight'] > Stage[flight]
<1>1. flight # "none"
  BY DEF NobodyForgotten
<1>2. /\ Stage["none"] = 0 /\ Stage["check"] = 1 /\ Stage["asking"] = 2
      /\ Stage["answering"] = 3 /\ Stage["done"] = 4
  BY DEF Stage
<1>3. CASE Recheck
  BY <1>2, <1>3 DEF Recheck
<1>4. CASE BackendReads \/ ReadReturns \/ ReadFails \/ ReadTimesOut
  BY <1>2, <1>4 DEF BackendReads, ReadReturns, ReadFails, ReadTimesOut, FailRead
<1>5. CASE Deliver
  BY <1>5, DeliverReaches
<1>6. CASE \E d \in Callers : Miss(d) \/ Join(d) \/ Receive(d) \/ GiveUp(d)
  BY <1>1, <1>6 DEF Miss, Join, Receive, GiveUp
<1>7. CASE Tick \/ UNCHANGED vars
  BY <1>7 DEF Tick, vars
<1> QED
  BY <1>3, <1>4, <1>5, <1>6, <1>7 DEF Next

LEMMA ForgottenStep == Typed /\ NobodyForgotten /\ [Next]_vars => NobodyForgotten'
<1> SUFFICES ASSUME Typed, NobodyForgotten, [Next]_vars,
                    NEW c \in Callers, pc'[c] = "waiting"
             PROVE  got'[c] # None \/ flight' # "none"
  BY DEF NobodyForgotten
<1>1. /\ pc \in [Callers -> {"idle", "missed", "waiting"}]
      /\ got \in [Callers -> Result \cup {None}]
      /\ pc[c] = "waiting" => got[c] # None \/ flight # "none"
  BY DEF Typed, TypeOK, NobodyForgotten
<1>2. ASSUME NEW d \in Callers, Join(d) PROVE flight' # "none"
  BY <1>2 DEF Join
<1>3. ASSUME NEW d \in Callers, Miss(d) \/ Receive(d) \/ GiveUp(d)
      PROVE  got'[c] # None \/ flight' # "none"
  <2>1. c # d
    BY <1>1, <1>3 DEF Miss, Receive, GiveUp
  <2>2. pc'[c] = pc[c] /\ got'[c] = got[c] /\ flight' = flight
    BY <1>1, <1>3, <2>1 DEF Miss, Receive, GiveUp
  <2> QED
    BY <1>1, <2>2
<1>4. CASE Deliver
  <2>1. pc[c] = "waiting"
    BY <1>4 DEF Deliver
  <2> QED
    BY <1>4, <2>1, DeliverReaches
<1>5. CASE Recheck \/ BackendReads \/ ReadReturns \/ ReadFails \/ ReadTimesOut
  BY <1>5 DEF Recheck, BackendReads, ReadReturns, ReadFails, ReadTimesOut, FailRead
<1>6. CASE Tick \/ UNCHANGED vars
  BY <1>1, <1>6 DEF Tick, vars
<1> QED
  BY <1>2, <1>3, <1>4, <1>5, <1>6 DEF Next

\* However many callers share a read and however late they join it: one that
\* waits has a result coming from a call that is running, and waits for that one
\* only (DoChan and the select in Resolve).  It is the safety half of
\* EveryResolveEnds, for any number of callers.
THEOREM WaitingCorrect == SafetySpec => []NobodyForgotten /\ WaitsForOneCall
<1>1. Init => NobodyForgotten
  BY DEF Init, NobodyForgotten
<1>2. Typed /\ NobodyForgotten /\ [Next]_vars =>
        [\A c \in Callers :
           pc[c] = "waiting" /\ got[c] = None =>
             \/ pc'[c] = "idle"
             \/ got'[c] # None
             \/ flight' = flight
             \/ Stage[flight'] > Stage[flight]]_vars
  BY WaitingStep
<1> QED
  BY <1>1, <1>2, TypedInitially, TypeStep, ForgottenStep, PTL DEF SafetySpec, WaitsForOneCall
=============================================================================
