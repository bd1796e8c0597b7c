------------------------- MODULE ExporterSystemProofs -------------------------
(***************************************************************************)
(* Proofs about the token cache (OAuthToken), for any callers, lifetimes,  *)
(* margin and timeout, and about the prefetch workers and synchronous      *)
(* requests that share it (ExporterSystem), for any of them and any number *)
(* of permits.                                                             *)
(***************************************************************************)
EXTENDS ExporterSystem, TLAPS, FiniteSetTheorems, SequenceTheorems

LEMMA TimesType == /\ MaxLifetime \in Nat /\ Margin \in Nat
                   /\ FetchTimeout \in Nat \ {0}
                   /\ Endless = MaxLifetime + 1
                   /\ \A l \in Lifetimes : l \in 0..MaxLifetime
BY LifetimesAssumption, TimesAssumption DEF Endless

(***************************************************************************)
(* Types.                                                                  *)
(***************************************************************************)
Given == [real: 0..Endless, fresh: BOOLEAN]
Issued == [life: Lifetimes, real: 0..Endless]

LEMMA CountedType ==
  ASSUME NEW i \in Issued
  PROVE  /\ Counted(i) \in Token
         /\ Counted(i).left = i.life /\ Counted(i).real = i.real
         /\ i.life \in 0..MaxLifetime /\ i.real \in 0..Endless
BY TimesType DEF Issued, Counted, Token

LEMMA AnswerType ==
  ASSUME TypeOK, NEW c \in Callers, NEW t \in Token \cup {None},
         NEW fresh \in BOOLEAN, Answer(c, t, fresh)
  PROVE  got' \in [Callers -> Given \cup {None}]
<1>1. CASE t = None
  BY <1>1 DEF Answer, TypeOK, Given
<1>2. CASE t # None
  <2>1. t.real \in 0..Endless
    BY <1>2 DEF Token
  <2>2. [real |-> t.real, fresh |-> fresh] \in Given
    BY <2>1 DEF Given
  <2>3. got' = [got EXCEPT ![c] = [real |-> t.real, fresh |-> fresh]]
    BY <1>2 DEF Answer
  <2> QED
    BY <2>2, <2>3 DEF TypeOK, Given
<1> QED
  BY <1>1, <1>2

LEMMA AgedType ==
  /\ \A n \in 0..MaxLifetime : Less(n) \in 0..MaxLifetime
  /\ \A r \in 0..Endless : Aged(r) \in 0..Endless
BY TimesType DEF Less, Aged

LEMMA TypeInitially == Init => TypeOK
BY TimesType, NoneAssumption DEF Init, TypeOK, Waiting

\* What a step of the caller c does to the places of the callers.
LEMMA PlacesType ==
  ASSUME TypeOK, NEW c \in Callers,
         NEW p \in {"idle", "reading", "locking", "fetching", "sending"},
         pc' = [pc EXCEPT ![c] = p],
         p = "fetching" <=> writer' = c,
         \A d \in Callers \ {c} : writer' = d <=> writer = d
  PROVE  /\ pc' \in [Callers -> {"idle", "reading", "locking", "fetching", "sending"}]
         /\ \A d \in Callers : pc'[d] = "fetching" <=> writer' = d
BY DEF TypeOK

LEMMA TypeStep == TypeOK /\ [Next]_vars => TypeOK'
<1> SUFFICES ASSUME TypeOK, [Next]_vars PROVE TypeOK'
  OBVIOUS
<1>1. ASSUME NEW c \in Callers, Ask(c) PROVE TypeOK'
  BY <1>1 DEF Ask, TypeOK, Waiting
<1>2. ASSUME NEW c \in Callers, Look(c) PROVE TypeOK'
  <2>1. got' \in [Callers -> Given \cup {None}]
    BY <1>2, AnswerType DEF Look, TypeOK, Given
  <2>2. pc' = [pc EXCEPT ![c] = "sending"] \/ pc' = [pc EXCEPT ![c] = "locking"]
    BY <1>2 DEF Look, Answer
  <2>3. writer # c
    BY <1>2 DEF Look, TypeOK
  <2>4. /\ pc' \in [Callers -> {"idle", "reading", "locking", "fetching", "sending"}]
        /\ \A d \in Callers : pc'[d] = "fetching" <=> writer' = d
    BY <1>2, <2>2, <2>3, PlacesType DEF Look
  <2>5. admitted' \subseteq Waiting'
    BY <1>2, <2>2 DEF Look, TypeOK, Waiting
  <2> QED
    BY <1>2, <2>1, <2>4, <2>5 DEF Look, TypeOK, Given
<1>3. ASSUME NEW c \in Callers, Lock(c) PROVE TypeOK'
  <2>1. writer = None /\ c # None /\ issued = None /\ issued' = None
    BY <1>3, NoneAssumption DEF Lock, TypeOK
  <2>2. CASE Good(cache)
    <3>1. Answer(c, cache, FALSE) /\ writer' = None /\ admitted' = Waiting
      BY <1>3, <2>1, <2>2 DEF Lock
    <3>2. got' \in [Callers -> Given \cup {None}]
      BY <3>1, AnswerType DEF TypeOK
    <3>3. /\ pc' \in [Callers -> {"idle", "reading", "locking", "fetching", "sending"}]
          /\ \A d \in Callers : pc'[d] = "fetching" <=> writer' = d
      BY <2>1, <3>1, PlacesType DEF Answer
    <3>4. admitted' \subseteq Waiting'
      BY <1>3, <3>1 DEF Answer, TypeOK, Waiting, Lock
    <3> QED
      BY <1>3, <2>1, <2>2, <3>1, <3>2, <3>3, <3>4 DEF Lock, TypeOK, Given
  <2>3. CASE ~Good(cache)
    <3>1. /\ writer' = c /\ pc' = [pc EXCEPT ![c] = "fetching"] /\ fetchAge' = 0
          /\ UNCHANGED <<got, admitted, cache, issued>>
      BY <1>3, <2>3 DEF Lock
    <3>2. /\ pc' \in [Callers -> {"idle", "reading", "locking", "fetching", "sending"}]
          /\ \A d \in Callers : pc'[d] = "fetching" <=> writer' = d
      BY <2>1, <3>1, NoneAssumption, PlacesType
    <3>3. admitted' \subseteq Waiting' /\ fetchAge' \in 0..FetchTimeout
      BY <1>3, <3>1, TimesType DEF Lock
    <3> QED
      BY <2>1, <3>1, <3>2, <3>3 DEF TypeOK
  <2> QED
    BY <2>2, <2>3
<1>4. ASSUME NEW c \in Callers, NEW t \in Token \cup {None},
             Answer(c, t, TRUE), Unlock, pc[c] = "fetching",
             cache' \in Token \cup {None}
      PROVE  TypeOK'
  <2>1. writer = c /\ writer' = None /\ issued' = None /\ admitted' = Waiting
    BY <1>4 DEF Unlock, TypeOK
  <2>2. got' \in [Callers -> Given \cup {None}]
    BY <1>4, AnswerType
  <2>3. /\ pc' \in [Callers -> {"idle", "reading", "locking", "fetching", "sending"}]
        /\ \A d \in Callers : pc'[d] = "fetching" <=> writer' = d
    BY <1>4, <2>1, NoneAssumption, PlacesType DEF Answer
  <2>4. admitted' \subseteq Waiting'
    BY <1>4, <2>1 DEF Answer, TypeOK, Waiting
  <2> QED
    BY <1>4, <2>1, <2>2, <2>3, <2>4 DEF Unlock, TypeOK, Given
<1>5. ASSUME NEW c \in Callers, Obtain(c) PROVE TypeOK'
  <2>1. issued \in Issued
    BY <1>5 DEF Obtain, TypeOK, Issued
  <2>2. Counted(issued) \in Token
    BY <2>1, CountedType
  <2> QED
    BY <1>4, <1>5, <2>2 DEF Obtain
<1>6. ASSUME NEW c \in Callers, Fail(c) PROVE TypeOK'
  <2>1. cache' \in Token \cup {None}
    BY <1>6 DEF Fail, TypeOK
  <2> QED
    BY <1>4, <1>6, <2>1 DEF Fail
<1>7. ASSUME NEW c \in Callers, Send(c) PROVE TypeOK'
  <2>1. admitted' \subseteq Waiting'
    BY <1>7 DEF Send, TypeOK, Waiting
  <2>2. /\ pc' \in [Callers -> {"idle", "reading", "locking", "fetching", "sending"}]
        /\ \A d \in Callers : pc'[d] = "fetching" <=> writer' = d
    BY <1>7, PlacesType DEF Send, TypeOK
  <2> QED
    BY <1>7, <2>1, <2>2 DEF Send, TypeOK
<1>8. CASE Issue
  <2>1. PICK l \in Lifetimes :
          issued' = [life |-> l, real |-> IF l = 0 THEN Endless ELSE l]
    BY <1>8 DEF Issue
  <2>2. (IF l = 0 THEN Endless ELSE l) \in 0..Endless
    <3>1. l \in 0..MaxLifetime
      BY TimesType
    <3> QED
      BY <3>1, TimesType
  <2>3. issued' \in Issued
    BY <2>1, <2>2 DEF Issued
  <2> QED
    BY <1>8, <2>3 DEF Issue, TypeOK, Issued, Waiting
<1>9. CASE Tick
  <2>1. cache' \in Token \cup {None}
    BY <1>9, AgedType DEF Tick, TypeOK, Token
  <2>2. issued' \in Issued \cup {None}
    BY <1>9, AgedType DEF Tick, TypeOK, Issued
  <2>3. issued' # None => issued # None
    BY <1>9 DEF Tick
  <2>4. fetchAge' \in 0..FetchTimeout
    BY <1>9, TimesType DEF Tick, TypeOK
  <2> QED
    BY <1>9, <2>1, <2>2, <2>3, <2>4 DEF Tick, TypeOK, Issued, Waiting
<1>10. CASE UNCHANGED vars
  BY <1>10 DEF vars, TypeOK, Waiting
<1> QED
  BY <1>1, <1>2, <1>3, <1>5, <1>6, <1>7, <1>8, <1>9, <1>10
     DEF Next, Step, TimesOut

\* The state is well typed, and the write lock is held by exactly the caller
\* that fetches.
THEOREM TypeCorrect == SafetySpec => []TypeOK
<1> QED
  BY TypeInitially, TypeStep, PTL DEF SafetySpec

(***************************************************************************)
(* The expiry the exporter counts lags behind the endpoint's by no more    *)
(* than one fetch, and never runs ahead of it.                             *)
(***************************************************************************)
IssuedInv ==
  issued # None => /\ issued.life <= issued.real + fetchAge
                   /\ issued.real # Endless => issued.real <= issued.life

CacheInv ==
  cache # None => /\ cache.left <= cache.real + FetchTimeout
                  /\ cache.real # Endless => cache.real <= cache.left

ClockInv == TypeOK /\ IssuedInv /\ CacheInv /\ BearerOutlastsRequest

LEMMA ClockInitially == Init => ClockInv
BY TypeInitially DEF Init, ClockInv, IssuedInv, CacheInv, BearerOutlastsRequest

LEMMA AgedSlowly ==
  ASSUME NEW n \in 0..MaxLifetime, NEW r \in 0..Endless
  PROVE  /\ \A d \in Nat : n <= r + d => Less(n) <= Aged(r) + d
         /\ \A d \in Nat : n <= r + d => n <= Aged(r) + d + 1
         /\ r # Endless /\ r <= n => Aged(r) <= Less(n)
         /\ r # Endless /\ r <= n => Aged(r) <= n
         /\ Aged(r) # Endless => r # Endless
BY TimesType DEF Less, Aged

\* A good token has outlived its fetch, by the endpoint's clock.
LEMMA GoodToken ==
  ASSUME CacheInv, cache \in Token \cup {None}, Good(cache)
  PROVE  cache # None /\ cache.real > Margin - FetchTimeout
<1>1. cache \in Token /\ cache.left > Margin
  BY DEF Good
<1>2. cache.left \in 0..MaxLifetime /\ cache.real \in 0..Endless
  BY <1>1 DEF Token
<1> QED
  BY <1>1, <1>2, TimesType DEF CacheInv, Good

LEMMA GivenBearer ==
  ASSUME ClockInv, NEW c \in Callers, NEW t, NEW fresh \in BOOLEAN,
         Answer(c, t, fresh),
         fresh \/ t.real > Margin - FetchTimeout
  PROVE  BearerOutlastsRequest'
<1> SUFFICES ASSUME NEW d \in Callers, got'[d] # None
             PROVE  got'[d].fresh \/ got'[d].real > Margin - FetchTimeout
  BY DEF BearerOutlastsRequest
<1>1. CASE d = c
  <2>1. got'[d] = [real |-> t.real, fresh |-> fresh]
    BY <1>1 DEF Answer, ClockInv, TypeOK
  <2> QED
    BY <2>1
<1>2. CASE d # c
  <2>1. got'[d] = got[d]
    BY <1>2 DEF Answer, ClockInv, TypeOK
  <2> QED
    BY <2>1 DEF ClockInv, BearerOutlastsRequest
<1> QED
  BY <1>1, <1>2

LEMMA ClockStep == ClockInv /\ [Next]_vars => ClockInv'
<1> SUFFICES ASSUME ClockInv, [Next]_vars
             PROVE  IssuedInv' /\ CacheInv' /\ BearerOutlastsRequest'
  BY TypeStep DEF ClockInv
<1>1. ASSUME NEW c \in Callers, Ask(c)
      PROVE  IssuedInv' /\ CacheInv' /\ BearerOutlastsRequest'
  BY <1>1 DEF Ask, ClockInv, IssuedInv, CacheInv, BearerOutlastsRequest
<1>2. ASSUME NEW c \in Callers, Look(c)
      PROVE  IssuedInv' /\ CacheInv' /\ BearerOutlastsRequest'
  <2>1. BearerOutlastsRequest'
    <3>1. CASE Good(cache)
      BY <1>2, <3>1, GoodToken, GivenBearer DEF Look, ClockInv, TypeOK
    <3>2. CASE ~Good(cache)
      BY <1>2, <3>2 DEF Look, ClockInv, BearerOutlastsRequest
    <3> QED
      BY <3>1, <3>2
  <2> QED
    BY <1>2, <2>1 DEF Look, ClockInv, IssuedInv, CacheInv
<1>3. ASSUME NEW c \in Callers, Lock(c)
      PROVE  IssuedInv' /\ CacheInv' /\ BearerOutlastsRequest'
  <2>1. BearerOutlastsRequest'
    <3>1. CASE Good(cache)
      BY <1>3, <3>1, GoodToken, GivenBearer DEF Lock, ClockInv, TypeOK
    <3>2. CASE ~Good(cache)
      BY <1>3, <3>2 DEF Lock, ClockInv, BearerOutlastsRequest
    <3> QED
      BY <3>1, <3>2
  <2>2. issued' = None
    BY <1>3 DEF Lock, ClockInv, TypeOK
  <2> QED
    BY <1>3, <2>1, <2>2 DEF Lock, ClockInv, IssuedInv, CacheInv
<1>4. ASSUME NEW c \in Callers, Obtain(c)
      PROVE  IssuedInv' /\ CacheInv' /\ BearerOutlastsRequest'
  <2>1. issued # None /\ issued \in Issued /\ issued' = None
    BY <1>4 DEF Obtain, Unlock, ClockInv, TypeOK, Issued
  <2>2. /\ cache'.left = issued.life /\ cache'.real = issued.real
        /\ issued.life \in 0..MaxLifetime /\ issued.real \in 0..Endless
    BY <1>4, <2>1, CountedType DEF Obtain
  <2>3. fetchAge \in 0..FetchTimeout
    BY DEF ClockInv, TypeOK
  <2>4. CacheInv'
    BY <2>1, <2>2, <2>3, TimesType DEF ClockInv, IssuedInv, CacheInv
  <2>5. BearerOutlastsRequest'
    BY <1>4, GivenBearer DEF Obtain
  <2> QED
    BY <2>1, <2>4, <2>5 DEF IssuedInv
<1>5. ASSUME NEW c \in Callers, Fail(c)
      PROVE  IssuedInv' /\ CacheInv' /\ BearerOutlastsRequest'
  <2>1. issued' = None /\ cache' = cache
    BY <1>5 DEF Fail, Unlock
  <2>2. BearerOutlastsRequest'
    BY <1>5, GivenBearer DEF Fail
  <2> QED
    BY <2>1, <2>2 DEF ClockInv, IssuedInv, CacheInv
<1>6. ASSUME NEW c \in Callers, Send(c)
      PROVE  IssuedInv' /\ CacheInv' /\ BearerOutlastsRequest'
  <2>1. \A d \in Callers : got'[d] # None => got'[d] = got[d]
    BY <1>6 DEF Send, ClockInv, TypeOK
  <2> QED
    BY <1>6, <2>1 DEF Send, ClockInv, IssuedInv, CacheInv, BearerOutlastsRequest
<1>7. CASE Issue
  <2>1. PICK l \in Lifetimes :
          issued' = [life |-> l, real |-> IF l = 0 THEN Endless ELSE l]
    BY <1>7 DEF Issue
  <2>2. issued'.life = l /\ issued'.real = IF l = 0 THEN Endless ELSE l
    BY <2>1
  <2>3. fetchAge \in 0..FetchTimeout /\ fetchAge' = fetchAge
    BY <1>7 DEF Issue, ClockInv, TypeOK
  <2>4. IssuedInv'
    <3>1. l \in 0..MaxLifetime
      BY TimesType
    <3> QED
      BY <2>2, <2>3, <3>1, TimesType DEF IssuedInv
  <2> QED
    BY <1>7, <2>4 DEF Issue, ClockInv, CacheInv, BearerOutlastsRequest
<1>8. CASE Tick
  <2>1. CacheInv'
    <3>1. CASE cache = None
      BY <1>8, <3>1 DEF Tick, CacheInv
    <3>2. CASE cache # None
      <4>1. cache.left \in 0..MaxLifetime /\ cache.real \in 0..Endless
        BY <3>2 DEF ClockInv, TypeOK, Token
      <4>2. cache'.left = Less(cache.left) /\ cache'.real = Aged(cache.real)
        BY <1>8, <3>2 DEF Tick
      <4> QED
        BY <3>2, <4>1, <4>2, AgedSlowly, TimesType DEF ClockInv, CacheInv
    <3> QED
      BY <3>1, <3>2
  <2>2. IssuedInv'
    <3>1. CASE issued = None
      BY <1>8, <3>1 DEF Tick, IssuedInv
    <3>2. CASE issued # None
      <4>1. /\ issued \in Issued /\ writer # None
            /\ fetchAge \in Nat /\ fetchAge' = fetchAge + 1
        BY <1>8, <3>2, TimesType DEF Tick, ClockInv, TypeOK, Issued
      <4>2. issued.life \in 0..MaxLifetime /\ issued.real \in 0..Endless
        BY <4>1, TimesType DEF Issued
      <4>3. issued'.life = issued.life /\ issued'.real = Aged(issued.real)
        BY <1>8, <3>2, <4>1 DEF Tick, Issued
      <4>4. /\ issued.life <= issued.real + fetchAge
            /\ issued.real # Endless => issued.real <= issued.life
        BY <3>2 DEF ClockInv, IssuedInv
      <4>5. /\ issued.life <= Aged(issued.real) + fetchAge + 1
            /\ Aged(issued.real) # Endless => Aged(issued.real) <= issued.life
        BY <4>1, <4>2, <4>4, AgedSlowly
      <4>6. Aged(issued.real) \in 0..Endless
        BY <4>2, AgedType
      <4> QED
        BY <4>1, <4>2, <4>3, <4>5, <4>6, TimesType DEF IssuedInv
    <3> QED
      BY <3>1, <3>2
  <2> QED
    BY <1>8, <2>1, <2>2 DEF Tick, ClockInv, BearerOutlastsRequest
<1>9. CASE UNCHANGED vars
  BY <1>9 DEF vars, ClockInv, IssuedInv, CacheInv, BearerOutlastsRequest
<1> QED
  BY <1>1, <1>2, <1>3, <1>4, <1>5, <1>6, <1>7, <1>8, <1>9
     DEF Next, Step, TimesOut

\* A token taken from the cache has the margin less one fetch to live, however
\* late the endpoint's answer came.
THEOREM BearerCorrect == SafetySpec => []BearerOutlastsRequest
<1>1. ClockInv => BearerOutlastsRequest
  BY DEF ClockInv
<1> QED
  BY <1>1, ClockInitially, ClockStep, PTL DEF SafetySpec

(***************************************************************************)
(* Who fetches.                                                            *)
(***************************************************************************)
LEMMA FetchStep == ClockInv /\ [Next]_vars => [NeedfulFetch]_vars
<1> SUFFICES ASSUME ClockInv, [Next]_vars, NEW c \in Callers,
                    pc[c] # "fetching", pc'[c] = "fetching"
             PROVE  /\ \A d \in Callers : pc[d] # "fetching"
                    /\ (cache # None /\ cache.real # Endless => cache.real <= Margin)
  BY DEF NeedfulFetch
<1>1. Lock(c)
  <2>1. pc \in [Callers -> {"idle", "reading", "locking", "fetching", "sending"}]
    BY DEF ClockInv, TypeOK
  <2>2. ASSUME NEW d \in Callers, Step(d) PROVE Lock(c)
    BY <2>1, <2>2 DEF Step, Ask, Look, Lock, Obtain, Fail, TimesOut, Send, Answer
  <2> QED
    BY <2>2 DEF Next, Issue, Tick, vars
<1>2. writer = None /\ ~Good(cache)
  BY <1>1 DEF Lock, Answer, ClockInv, TypeOK
<1>3. \A d \in Callers : pc[d] # "fetching"
  BY <1>2, NoneAssumption DEF ClockInv, TypeOK
<1>4. ASSUME cache # None, cache.real # Endless PROVE cache.real <= Margin
  <2>1. cache.left \in 0..MaxLifetime /\ cache.real \in 0..Endless
    BY <1>4 DEF ClockInv, TypeOK, Token
  <2>2. ~(cache.left > Margin)
    BY <1>2, <1>4 DEF Good
  <2> QED
    BY <1>4, <2>1, <2>2, TimesType DEF ClockInv, CacheInv
<1> QED
  BY <1>3, <1>4

\* The endpoint is asked by one caller at a time, and only while the token is
\* missing or within the margin of its expiry.
THEOREM FetchCorrect == SafetySpec => NoNeedlessFetch
<1> QED
  BY ClockInitially, ClockStep, FetchStep, PTL DEF SafetySpec, NoNeedlessFetch

(***************************************************************************)
(* The semaphore's queue.                                                  *)
(***************************************************************************)
\* Removing the k-th element of a sequence.
LEMMA RemoveAtProperties ==
  ASSUME NEW S, NEW s \in Seq(S), NEW k \in 1..Len(s)
  PROVE  /\ RemoveAt(s, k) \in Seq(S)
         /\ Len(RemoveAt(s, k)) = Len(s) - 1
         /\ \A i \in 1..(Len(s) - 1) :
              RemoveAt(s, k)[i] = IF i < k THEN s[i] ELSE s[i + 1]
<1> DEFINE front == SubSeq(s, 1, k - 1)
           back == SubSeq(s, k + 1, Len(s))
<1>1. Len(s) \in Nat /\ k \in Int /\ \A i \in 1..Len(s) : s[i] \in S
  OBVIOUS
<1>2. front \in Seq(S) /\ Len(front) = k - 1 /\ \A i \in 1..(k - 1) : front[i] = s[i]
  <2>1. \A i \in 1..(k - 1) : s[i] \in S
    BY <1>1
  <2> HIDE DEF front
  <2>2. /\ front \in Seq(S) /\ Len(front) = IF 1 <= k - 1 THEN (k - 1) - 1 + 1 ELSE 0
        /\ \A i \in 1..((k - 1) - 1 + 1) : front[i] = s[1 + i - 1]
    BY <1>1, <2>1, SubSeqProperties DEF front
  <2> QED
    BY <1>1, <2>2
<1>3. /\ back \in Seq(S) /\ Len(back) = Len(s) - k
      /\ \A i \in 1..(Len(s) - k) : back[i] = s[i + k]
  <2>1. \A i \in (k + 1)..Len(s) : s[i] \in S
    BY <1>1
  <2> HIDE DEF back
  <2>2. /\ back \in Seq(S)
        /\ Len(back) = IF k + 1 <= Len(s) THEN Len(s) - (k + 1) + 1 ELSE 0
        /\ \A i \in 1..(Len(s) - (k + 1) + 1) : back[i] = s[(k + 1) + i - 1]
    BY <1>1, <2>1, SubSeqProperties DEF back
  <2> QED
    BY <1>1, <2>2
<1>4. RemoveAt(s, k) = front \o back
  BY DEF RemoveAt
<1> HIDE DEF front, back
<1>5. /\ front \o back \in Seq(S)
      /\ Len(front \o back) = Len(front) + Len(back)
      /\ \A i \in 1..(Len(front) + Len(back)) :
           (front \o back)[i] = IF i <= Len(front) THEN front[i] ELSE back[i - Len(front)]
  BY <1>2, <1>3, ConcatProperties
<1> DEFINE r == front \o back
<1>6. /\ r \in Seq(S) /\ Len(r) = Len(s) - 1
      /\ \A i \in 1..(Len(s) - 1) :
           r[i] = IF i <= k - 1 THEN front[i] ELSE back[i - (k - 1)]
  BY <1>1, <1>2, <1>3, <1>5
<1> HIDE DEF r
<1>7. ASSUME NEW i \in 1..(Len(s) - 1)
      PROVE  r[i] = IF i < k THEN s[i] ELSE s[i + 1]
  <2>1. CASE i < k
    BY <1>1, <1>2, <1>6, <2>1
  <2>2. CASE i >= k
    <3>1. i - (k - 1) \in 1..(Len(s) - k) /\ (i - (k - 1)) + k = i + 1
      BY <1>1, <2>2
    <3>2. r[i] = back[i - (k - 1)]
      BY <1>1, <1>6, <2>2
    <3> QED
      BY <1>1, <1>3, <2>2, <3>1, <3>2
  <2> QED
    BY <1>1, <2>1, <2>2
<1> QED
  BY <1>4, <1>6, <1>7 DEF r

\* The order of the queue, and that who is at work is at its head.
QueueInv == /\ queue \in Seq(Workers)
            /\ \A i, j \in DOMAIN queue : queue[i] = queue[j] => i = j

Busy == {w \in Workers : pc[w] # "idle"}

SystemInv == TypeOK /\ QueueInv /\ Busy \subseteq Holders

LEMMA SystemInitially == SystemInit => SystemInv
<1> SUFFICES ASSUME SystemInit PROVE SystemInv
  OBVIOUS
<1>1. TypeOK
  BY TypeInitially DEF SystemInit
<1>2. QueueInv
  BY DEF SystemInit, QueueInv
<1>3. Busy = {}
  BY WorkersAssumption DEF SystemInit, Init, Busy
<1> QED
  BY <1>1, <1>2, <1>3 DEF SystemInv

\* A worker that joins takes nobody's place.
LEMMA AcquireStep == ASSUME SystemInv, NEW w \in Workers, Acquire(w) PROVE SystemInv'
<1>1. /\ queue \in Seq(Workers) /\ queue' = Append(queue, w)
      /\ queue' \in Seq(Workers) /\ Len(queue') = Len(queue) + 1
      /\ \A i \in DOMAIN queue : queue'[i] = queue[i]
      /\ queue'[Len(queue) + 1] = w
      /\ DOMAIN queue = 1..Len(queue) /\ DOMAIN queue' = 1..(Len(queue) + 1)
  BY DEF Acquire, SystemInv, QueueInv
<1>2. \A i \in DOMAIN queue : queue[i] # w
  BY DEF Acquire, Asked
<1>3. QueueInv'
  BY <1>1, <1>2 DEF SystemInv, QueueInv
<1>4. Holders \subseteq Holders'
  BY <1>1 DEF Holders
<1>5. TypeOK' /\ Busy' = Busy
  BY DEF Acquire, SystemInv, TypeOK, Waiting, vars, Busy
<1> QED
  BY <1>3, <1>4, <1>5 DEF SystemInv

\* The one that leaves is idle, everybody else stays or moves up.
LEMMA ReleaseStep == ASSUME SystemInv, NEW w \in Workers, Release(w) PROVE SystemInv'
<1>1. PICK k \in DOMAIN queue : /\ k <= ParallelSempConnections /\ queue[k] = w
                                /\ queue' = RemoveAt(queue, k)
  BY DEF Release, Leaves
<1>2. /\ queue \in Seq(Workers) /\ DOMAIN queue = 1..Len(queue) /\ Len(queue) \in Nat
      /\ k \in Nat /\ ParallelSempConnections \in Nat
  BY PermitsAssumption DEF SystemInv, QueueInv
<1>3. /\ queue' \in Seq(Workers) /\ DOMAIN queue' = 1..(Len(queue) - 1)
      /\ \A i \in 1..(Len(queue) - 1) :
           queue'[i] = IF i < k THEN queue[i] ELSE queue[i + 1]
  <2>1. k \in 1..Len(queue)
    BY <1>2
  <2>2. /\ queue' \in Seq(Workers) /\ Len(queue') = Len(queue) - 1
        /\ \A i \in 1..(Len(queue) - 1) :
             queue'[i] = IF i < k THEN queue[i] ELSE queue[i + 1]
    BY <1>1, <1>2, <2>1, RemoveAtProperties
  <2> QED
    BY <1>2, <2>2
<1>4. QueueInv'
  BY <1>2, <1>3 DEF SystemInv, QueueInv
<1>5. Holders \ {w} \subseteq Holders'
  <2> SUFFICES ASSUME NEW i \in DOMAIN queue, i <= ParallelSempConnections, queue[i] # w
               PROVE  queue[i] \in Holders'
    BY DEF Holders
  <2>1. CASE i < k
    BY <1>2, <1>3, <2>1 DEF Holders
  <2>2. CASE i > k
    <3>1. i - 1 \in DOMAIN queue' /\ queue'[i - 1] = queue[i] /\ i - 1 <= ParallelSempConnections
      BY <1>2, <1>3, <2>2
    <3> QED
      BY <3>1 DEF Holders
  <2> QED
    BY <1>1, <1>2, <2>1, <2>2
<1>6. TypeOK' /\ Busy' = Busy /\ w \notin Busy
  BY DEF Release, SystemInv, TypeOK, Waiting, vars, Busy
<1> QED
  BY <1>4, <1>5, <1>6 DEF SystemInv

\* Only Ask makes a caller busy that was idle.
LEMMA BusyStep ==
  ASSUME TypeOK, NEW c \in Callers, Step(c)
  PROVE  /\ TypeOK'
         /\ \A d \in Callers : pc'[d] # "idle" => pc[d] # "idle" \/ d = c
<1>1. TypeOK'
  BY TypeStep DEF Next
<1>2. \A d \in Callers \ {c} : pc'[d] = pc[d]
  BY DEF Step, Ask, Look, Lock, Obtain, Fail, TimesOut, Send, Answer, TypeOK
<1> QED
  BY <1>1, <1>2

LEMMA WorkStep == ASSUME SystemInv, NEW w \in Workers, Work(w) PROVE SystemInv'
<1>1. w \in Callers /\ Step(w) /\ UNCHANGED queue /\ (pc[w] = "idle" => w \in Holders)
  BY WorkersAssumption DEF Work
<1>2. Holders' = Holders /\ QueueInv'
  BY <1>1 DEF Holders, SystemInv, QueueInv
<1>3. Busy' \subseteq Busy \cup {w}
  BY <1>1, BusyStep, WorkersAssumption DEF Busy, SystemInv
<1>4. w \in Holders
  BY <1>1 DEF SystemInv, Busy
<1> QED
  BY <1>1, <1>2, <1>3, <1>4, BusyStep DEF SystemInv

LEMMA ServeStep == ASSUME SystemInv, NEW r \in Callers \ Workers, Serve(r) PROVE SystemInv'
<1>1. Step(r) /\ UNCHANGED queue
  BY DEF Serve
<1>2. Holders' = Holders /\ QueueInv'
  BY <1>1 DEF Holders, SystemInv, QueueInv
<1>3. Busy' \subseteq Busy
  BY <1>1, BusyStep, WorkersAssumption DEF Busy, SystemInv
<1> QED
  BY <1>1, <1>2, <1>3, BusyStep DEF SystemInv

LEMMA SystemStep == SystemInv /\ [SystemNext]_systemVars => SystemInv'
<1> SUFFICES ASSUME SystemInv, [SystemNext]_systemVars PROVE SystemInv'
  OBVIOUS
<1>1. CASE Elsewhere
  <2>1. TypeOK'
    BY <1>1, TypeStep DEF Elsewhere, Next, SystemInv
  <2>2. Busy' = Busy /\ Holders' = Holders /\ QueueInv'
    BY <1>1 DEF Elsewhere, Issue, Tick, Busy, Holders, SystemInv, QueueInv
  <2> QED
    BY <2>1, <2>2 DEF SystemInv
<1>2. CASE UNCHANGED systemVars
  BY <1>2 DEF systemVars, vars, SystemInv, TypeOK, Waiting, QueueInv, Busy, Holders
<1> QED
  BY <1>1, <1>2, AcquireStep, ReleaseStep, WorkStep, ServeStep DEF SystemNext

\* A worker's place in the queue, which for a holder is one of the permits.
LEMMA HoldersBounded == SystemInv => Cardinality(Busy) <= ParallelSempConnections
<1> SUFFICES ASSUME SystemInv PROVE Cardinality(Busy) <= ParallelSempConnections
  OBVIOUS
<1> DEFINE P == 1..ParallelSempConnections
           place == [w \in Busy |-> CHOOSE i \in DOMAIN queue :
                                      i <= ParallelSempConnections /\ queue[i] = w]
<1>1. ASSUME NEW w \in Busy
      PROVE  place[w] \in P /\ queue[place[w]] = w
  <2>1. \E i \in DOMAIN queue : i <= ParallelSempConnections /\ queue[i] = w
    BY DEF SystemInv, Holders
  <2>2. /\ place[w] \in DOMAIN queue /\ place[w] <= ParallelSempConnections
        /\ queue[place[w]] = w
    BY <2>1
  <2>3. DOMAIN queue = 1..Len(queue)
    BY DEF SystemInv, QueueInv
  <2> HIDE DEF place
  <2> QED
    BY <2>2, <2>3, PermitsAssumption
<1>2. place \in [Busy -> P]
  BY <1>1
<1>3. \A v, w \in Busy : place[v] = place[w] => v = w
  BY <1>1
<1>4. place \in Injection(Busy, P)
  <2> HIDE DEF place
  <2> QED
    BY <1>2, <1>3 DEF Injection, IsInjective
<1>5. IsFiniteSet(P) /\ Cardinality(P) = ParallelSempConnections
  BY FS_Interval, PermitsAssumption
<1>6. Cardinality(Busy) <= Cardinality(P)
  <2> HIDE DEF place, P
  <2> QED
    BY <1>4, <1>5, FS_Injection
<1> QED
  BY <1>5, <1>6

\* SystemTypeOK holds whatever the numbers of workers, requests and permits: no
\* worker is in the semaphore's queue twice.
THEOREM SystemTypeCorrect == SystemSafetySpec => []SystemTypeOK
<1>1. SystemInv => SystemTypeOK
  BY DEF SystemInv, QueueInv, SystemTypeOK
<1> QED
  BY <1>1, SystemInitially, SystemStep, PTL DEF SystemSafetySpec

\* Prefetch workers never outnumber the permits, at the broker and at the token
\* endpoint together, whatever the synchronous requests do.
THEOREM PermitsCorrect == SystemSafetySpec => []WorkersHoldPermits
<1>1. SystemInv => WorkersHoldPermits
  BY HoldersBounded DEF SystemInv, WorkersHoldPermits, Busy
<1> QED
  BY <1>1, SystemInitially, SystemStep, PTL DEF SystemSafetySpec

(***************************************************************************)
(* The token cache among the workers.                                      *)
(***************************************************************************)
\* Every step of the exporter is one of the token cache or leaves it alone:
\* sharing permits gives its callers no behaviour they did not have.
THEOREM SystemImplementsTokens == SystemSafetySpec => SafetySpec
<1>1. SystemInit => Init
  BY DEF SystemInit
<1>2. [SystemNext]_systemVars => [Next]_vars
  <2>1. \A w \in Workers : Work(w) => Next
    BY WorkersAssumption DEF Work, Next
  <2>2. \A r \in Callers \ Workers : Serve(r) => Next
    BY DEF Serve, Next
  <2>3. \A w \in Workers : Acquire(w) \/ Release(w) => UNCHANGED vars
    BY DEF Acquire, Release
  <2>4. Elsewhere => Next
    BY DEF Elsewhere, Next
  <2>5. UNCHANGED systemVars => UNCHANGED vars
    BY DEF systemVars
  <2> QED
    BY <2>1, <2>2, <2>3, <2>4, <2>5 DEF SystemNext
<1> QED
  BY <1>1, <1>2, PTL DEF SystemSafetySpec, SafetySpec

\* So what is promised of the cache is promised of prefetch workers and
\* synchronous requests together (getOAuthToken): tokens outlive their requests.
THEOREM SystemBearerCorrect == SystemSafetySpec => []BearerOutlastsRequest
<1> QED
  BY SystemImplementsTokens, BearerCorrect, PTL

\* And one of them at a time asks the token endpoint, none without need.
THEOREM SystemFetchCorrect == SystemSafetySpec => NoNeedlessFetch
<1> QED
  BY SystemImplementsTokens, FetchCorrect, PTL

(***************************************************************************)
(* Who waits for whom.                                                     *)
(***************************************************************************)
\* A worker waits for a permit before it is at work, and for the lock when it
\* is: who is waited for at the lock is not in the queue behind the holders.
LEMMA BusyHold ==
  ASSUME SystemInv, NEW d \in Callers, pc[d] # "idle"
  PROVE  d \notin Asked \ Holders
<1>1. CASE d \in Workers
  BY <1>1 DEF SystemInv, Busy
<1>2. CASE d \notin Workers
  BY <1>2 DEF SystemInv, QueueInv, Asked
<1> QED
  BY <1>1, <1>2

\* Deadlock is impossible: a holder of the token's lock, and a reader that has
\* been let in, wait for nobody; whoever waits for the lock waits for them only,
\* and whoever waits for a permit for the former at most (Acquire around
\* readMetrics in asyncFetcher.go, the locks in auth.go).
THEOREM NoDeadlock == SystemSafetySpec => []NoCircularWait
<1>1. ASSUME SystemInv PROVE NoCircularWait
  <2> DEFINE AtLock(c) == pc[c] = "locking" \/ (pc[c] = "reading" /\ c \notin admitted)
             rank == [c \in Callers |-> IF c \in Asked \ Holders THEN 2
                                       ELSE IF AtLock(c) THEN 1 ELSE 0]
  <2>1. rank \in [Callers -> 0..2]
    OBVIOUS
  <2>2. ASSUME NEW c \in Callers, NEW d \in Callers, WaitsFor(c, d)
        PROVE  rank[d] < rank[c]
    <3>1. CASE c \in Asked \ Holders /\ d \in Holders
      BY <3>1
    <3>2. CASE pc[c] = "reading" /\ c \notin admitted /\ d = writer
      <4>1. pc[d] = "fetching"
        BY <1>1, <3>2 DEF SystemInv, TypeOK
      <4>2. c \notin Asked \ Holders /\ d \notin Asked \ Holders
        BY <1>1, <3>2, <4>1, BusyHold
      <4> QED
        BY <3>2, <4>1, <4>2
    <3>3. CASE pc[c] = "locking" /\ d \in {writer} \cup admitted
      <4>1. pc[d] = "fetching" \/ (pc[d] = "reading" /\ d \in admitted)
        BY <1>1, <3>3 DEF SystemInv, TypeOK, Waiting
      <4>2. c \notin Asked \ Holders /\ d \notin Asked \ Holders
        BY <1>1, <3>3, <4>1, BusyHold
      <4> QED
        BY <3>3, <4>1, <4>2
    <3> QED
      BY <2>2, <3>1, <3>2, <3>3 DEF WaitsFor
  <2> HIDE DEF rank
  <2> QED
    BY <2>1, <2>2 DEF NoCircularWait
<1> QED
  BY <1>1, SystemInitially, SystemStep, PTL DEF SystemSafetySpec

\* What a waiting worker sees of the queue's changes.
KeepsPlace(w) == w \in Asked' /\ Ahead(w)' \subseteq Ahead(w)

LEMMA JoinKeepsPlaces ==
  ASSUME SystemInv, NEW v \in Workers, Acquire(v), NEW w \in Asked
  PROVE  KeepsPlace(w)
<1>1. /\ DOMAIN queue = 1..Len(queue) /\ DOMAIN queue' = 1..(Len(queue) + 1)
      /\ Len(queue) \in Nat
      /\ \A i \in DOMAIN queue : queue'[i] = queue[i]
      /\ queue'[Len(queue) + 1] = v
  BY DEF Acquire, SystemInv, QueueInv
<1>2. v # w
  BY DEF Acquire
<1>3. PICK p \in DOMAIN queue : queue[p] = w
  BY DEF Asked
<1>4. p \in DOMAIN queue' /\ queue'[p] = w
  BY <1>1, <1>3
<1>5. ASSUME NEW k \in DOMAIN queue', NEW j \in DOMAIN queue', k < j, queue'[j] = w
      PROVE  queue'[k] \in Ahead(w)
  <2>1. j \in DOMAIN queue
    BY <1>1, <1>2, <1>5
  <2>2. k \in DOMAIN queue
    BY <1>1, <1>5, <2>1
  <2>3. queue'[k] = queue[k] /\ queue[j] = w
    BY <1>1, <1>5, <2>1, <2>2
  <2> QED
    BY <1>5, <2>1, <2>2, <2>3 DEF Ahead
<1>6. w \in Asked'
  BY <1>4 DEF Asked
<1> QED
  BY <1>5, <1>6 DEF KeepsPlace, Ahead

LEMMA LeaveKeepsPlaces ==
  ASSUME SystemInv, NEW v \in Workers, Leaves(v), NEW w \in Asked \ Holders
  PROVE  KeepsPlace(w)
<1>1. PICK i \in DOMAIN queue : i <= ParallelSempConnections /\ queue' = RemoveAt(queue, i)
  BY DEF Leaves
<1>2. /\ queue \in Seq(Workers) /\ DOMAIN queue = 1..Len(queue) /\ Len(queue) \in Nat
      /\ i \in 1..Len(queue) /\ ParallelSempConnections \in Nat
  BY PermitsAssumption DEF SystemInv, QueueInv
<1>3. /\ DOMAIN queue' = 1..(Len(queue) - 1)
      /\ \A k \in 1..(Len(queue) - 1) :
           queue'[k] = IF k < i THEN queue[k] ELSE queue[k + 1]
  <2>1. /\ queue' \in Seq(Workers) /\ Len(queue') = Len(queue) - 1
        /\ \A k \in 1..(Len(queue) - 1) :
             queue'[k] = IF k < i THEN queue[k] ELSE queue[k + 1]
    BY <1>1, <1>2, RemoveAtProperties
  <2> QED
    BY <2>1
<1>4. PICK p \in DOMAIN queue : queue[p] = w
  BY DEF Asked
<1>5. p > ParallelSempConnections
  BY <1>2, <1>4 DEF Holders
<1>6. p - 1 \in DOMAIN queue' /\ queue'[p - 1] = w
  BY <1>1, <1>2, <1>3, <1>4, <1>5
<1> DEFINE Was(k) == IF k < i THEN k ELSE k + 1
<1>7. \A k \in DOMAIN queue' : Was(k) \in DOMAIN queue /\ queue'[k] = queue[Was(k)]
  BY <1>2, <1>3
<1>8. \A k, j \in DOMAIN queue' : k < j => Was(k) < Was(j)
  BY <1>2, <1>3
<1> HIDE DEF Was
<1>9. Ahead(w)' \subseteq Ahead(w)
  BY <1>7, <1>8 DEF Ahead
<1>10. w \in Asked'
  BY <1>6 DEF Asked
<1> QED
  BY <1>9, <1>10 DEF KeepsPlace

\* Permits go round in the order they were asked for, however long a scrape
\* takes and however often the others come back (connections.Acquire when
\* a worker starts and on every tick).
THEOREM QueueCorrect == SystemSafetySpec => NoOvertaking
<1>1. ASSUME SystemInv, [SystemNext]_systemVars, NEW w \in Workers, w \in Asked \ Holders
      PROVE  w \in Asked' /\ Ahead(w)' \subseteq Ahead(w)
  <2>1. CASE UNCHANGED queue
    BY <1>1, <2>1 DEF Asked, Ahead
  <2>2. ASSUME NEW v \in Workers, Acquire(v) PROVE KeepsPlace(w)
    BY <1>1, <2>2, JoinKeepsPlaces
  <2>3. ASSUME NEW v \in Workers, Release(v) PROVE KeepsPlace(w)
    BY <1>1, <2>3, LeaveKeepsPlaces DEF Release
  <2> QED
    BY <1>1, <2>1, <2>2, <2>3
       DEF SystemNext, Work, Serve, Elsewhere, systemVars, KeepsPlace
<1>2. SystemInv /\ [SystemNext]_systemVars =>
        [\A w \in Workers : w \in Asked \ Holders =>
           w \in Asked' /\ Ahead(w)' \subseteq Ahead(w)]_systemVars
  BY <1>1
<1> QED
  BY <1>2, SystemInitially, SystemStep, PTL DEF SystemSafetySpec, NoOvertaking

(***************************************************************************)
(* The queue implements Semaphore.                                         *)
(***************************************************************************)
\* How many permits are taken.
LEMMA HoldersCounted ==
  ASSUME QueueInv
  PROVE  Cardinality(Holders) < ParallelSempConnections <=> Len(queue) < ParallelSempConnections
<1>1. /\ DOMAIN queue = 1..Len(queue) /\ Len(queue) \in Nat /\ ParallelSempConnections \in Nat
  BY PermitsAssumption DEF QueueInv
<1> DEFINE n == IF Len(queue) < ParallelSempConnections THEN Len(queue) ELSE ParallelSempConnections
           place == [i \in 1..n |-> queue[i]]
<1>2. n \in Nat /\ 1..n = {i \in DOMAIN queue : i <= ParallelSempConnections}
  BY <1>1
<1>3. place \in Bijection(1..n, Holders)
  <2>1. \A i \in 1..n : place[i] = queue[i] /\ i \in DOMAIN queue
    BY <1>2
  <2>2. Holders = {queue[i] : i \in 1..n}
    BY <1>2 DEF Holders
  <2> HIDE DEF n
  <2>3. place \in [1..n -> Holders]
    BY <2>2
  <2>4. \A i, j \in 1..n : place[i] = place[j] => i = j
    BY <2>1 DEF QueueInv
  <2>5. \A w \in Holders : \E i \in 1..n : place[i] = w
    BY <2>1, <2>2
  <2> HIDE DEF place
  <2> QED
    BY <2>3, <2>4, <2>5 DEF Bijection, Injection, IsInjective, Surjection
<1>4. Cardinality(Holders) = n
  <2> HIDE DEF n, place
  <2>1. ExistsBijection(1..n, Holders)
    BY <1>3 DEF ExistsBijection
  <2> QED
    BY <1>2, <2>1, FS_CountingElements
<1> QED
  BY <1>1, <1>4

\* Who waits, in the terms of both.
LEMMA BehindType ==
  ASSUME QueueInv
  PROVE  /\ Behind \in Seq(Workers)
         /\ DOMAIN Behind = 1..(Len(queue) - ParallelSempConnections)
         /\ \A i \in DOMAIN Behind : Behind[i] = queue[ParallelSempConnections + i]
         /\ Len(queue) <= ParallelSempConnections => Behind = <<>>
         /\ Len(queue) > ParallelSempConnections =>
              /\ Len(Behind) = Len(queue) - ParallelSempConnections
              /\ Behind # <<>>
         /\ Permits!Waiting \subseteq Asked
<1>1. /\ queue \in Seq(Workers) /\ DOMAIN queue = 1..Len(queue) /\ Len(queue) \in Nat
      /\ ParallelSempConnections \in Nat
  BY PermitsAssumption DEF QueueInv
<1>2. /\ DOMAIN Behind = 1..(Len(queue) - ParallelSempConnections)
      /\ \A i \in DOMAIN Behind : Behind[i] = queue[ParallelSempConnections + i]
  BY DEF Behind
<1>3. \A i \in DOMAIN Behind : ParallelSempConnections + i \in DOMAIN queue
  BY <1>1, <1>2
<1>4. CASE Len(queue) <= ParallelSempConnections
  <2>1. DOMAIN Behind = {}
    BY <1>1, <1>2, <1>4
  <2>2. Behind = [i \in {} |-> queue[ParallelSempConnections + i]]
    BY <2>1 DEF Behind
  <2>3. Behind = <<>>
    BY <2>2
  <2>4. <<>> \in Seq(Workers)
    OBVIOUS
  <2> QED
    BY <1>1, <1>2, <1>4, <2>1, <2>3, <2>4 DEF Permits!Waiting
<1>5. CASE Len(queue) > ParallelSempConnections
  <2> DEFINE m == Len(queue) - ParallelSempConnections
  <2>1. m \in Nat \ {0}
    <3>1. Len(queue) \in Nat /\ ParallelSempConnections \in Nat
      BY <1>1
    <3> QED
      BY <1>5, <3>1
  <2>2. Behind \in [1..m -> Workers]
    BY <1>1, <1>3 DEF Behind
  <2> HIDE DEF m
  <2>3. Behind \in Seq(Workers) /\ Len(Behind) = m /\ Behind # <<>>
    BY <2>1, <2>2
  <2>4. Permits!Waiting \subseteq Asked
    BY <1>2, <1>3 DEF Permits!Waiting, Asked
  <2> QED
    BY <1>1, <1>2, <1>5, <2>3, <2>4 DEF m
<1>6. Len(queue) <= ParallelSempConnections \/ Len(queue) > ParallelSempConnections
  BY <1>1
<1>7. ~(Len(queue) <= ParallelSempConnections /\ Len(queue) > ParallelSempConnections)
  BY <1>1
<1> QED
  BY <1>2, <1>4, <1>5, <1>6, <1>7, Zenon

LEMMA NobodyBehind ==
  ASSUME QueueInv, Len(queue) <= ParallelSempConnections
  PROVE  Behind = <<>>
BY BehindType, Zenon

LEMMA AcquireTakesTurn ==
  ASSUME SystemInv, NEW w \in Workers, Acquire(w)
  PROVE  Permits!Acquire(w)
<1>1. /\ queue \in Seq(Workers) /\ queue' = Append(queue, w) /\ Len(queue) \in Nat
      /\ DOMAIN queue = 1..Len(queue) /\ Len(queue') = Len(queue) + 1
      /\ DOMAIN queue' = 1..(Len(queue) + 1)
      /\ \A i \in DOMAIN queue : queue'[i] = queue[i]
      /\ queue'[Len(queue) + 1] = w
      /\ ParallelSempConnections \in Nat \ {0} /\ QueueInv
  BY PermitsAssumption DEF Acquire, SystemInv, QueueInv
<1>2. w \notin Holders \cup Permits!Waiting
  <2>1. Holders \subseteq Asked
    BY DEF Holders, Asked
  <2> QED
    BY <1>1, <2>1, BehindType DEF Acquire
<1>3. Permits!Free <=> Len(queue) < ParallelSempConnections
  <2>1. Permits!Cardinality(Holders) = Cardinality(Holders)
    BY Zenon DEF Cardinality, Permits!Cardinality
  <2>2. Permits!Free <=> Cardinality(Holders) < ParallelSempConnections /\ Behind = <<>>
    BY <2>1, Zenon DEF Permits!Free
  <2>3. Len(queue) < ParallelSempConnections => Behind = <<>>
    <3>1. Len(queue) \in Nat /\ ParallelSempConnections \in Nat /\ QueueInv
      BY <1>1
    <3>2. Len(queue) < ParallelSempConnections => Len(queue) <= ParallelSempConnections
      BY <3>1
    <3> QED
      BY <3>1, <3>2, NobodyBehind, Zenon
  <2> QED
    BY <1>1, <2>2, <2>3, HoldersCounted, Zenon
<1>4. CASE Len(queue) < ParallelSempConnections
  <2>1. Holders' = Holders \cup {w}
    <3>1. Holders' = {queue'[i] : i \in 1..(Len(queue) + 1)}
      BY <1>1, <1>4 DEF Holders
    <3>2. Holders = {queue[i] : i \in 1..Len(queue)}
      BY <1>1, <1>4 DEF Holders
    <3>3. 1..(Len(queue) + 1) = 1..Len(queue) \cup {Len(queue) + 1}
      BY <1>1
    <3> QED
      BY <1>1, <3>1, <3>2, <3>3
  <2>2. Behind = <<>>
    <3>1. QueueInv /\ Len(queue) <= ParallelSempConnections
      BY <1>1, <1>4
    <3> QED
      BY <3>1, NobodyBehind, Zenon
  <2>3. Behind' = <<>>
    <3>1. 1..(Len(queue') - ParallelSempConnections) = {}
      BY <1>1, <1>4
    <3>2. Behind' = [i \in {} |-> queue'[ParallelSempConnections + i]]
      BY <3>1 DEF Behind
    <3> QED
      BY <3>2
  <2> QED
    BY <1>2, <1>3, <1>4, <2>1, <2>2, <2>3 DEF Permits!Acquire
<1>5. CASE ~(Len(queue) < ParallelSempConnections)
  <2>1. Holders' = Holders
    <3>1. {i \in DOMAIN queue' : i <= ParallelSempConnections} =
            {i \in DOMAIN queue : i <= ParallelSempConnections}
      BY <1>1, <1>5
    <3> QED
      BY <1>1, <3>1 DEF Holders
  <2> DEFINE m == Len(queue) - ParallelSempConnections
  <2>2. m \in Nat /\ Behind = [i \in 1..m |-> queue[ParallelSempConnections + i]]
    BY <1>1, <1>5 DEF Behind
  <2>3. Behind' = [i \in 1..(m + 1) |-> queue'[ParallelSempConnections + i]]
    <3>1. Len(queue') - ParallelSempConnections = m + 1
      BY <1>1, <2>2
    <3> QED
      BY <3>1 DEF Behind
  <2>4. /\ \A i \in 1..m : ParallelSempConnections + i \in DOMAIN queue
        /\ ParallelSempConnections + (m + 1) = Len(queue) + 1
    BY <1>1, <2>2
  <2> HIDE DEF m
  <2>5. Behind \in Seq(Workers) /\ Len(Behind) = m
    <3>1. Behind \in Seq(Workers)
      BY <1>1, BehindType
    <3> QED
      BY <2>2, <3>1
  <2>6. Behind' = Append(Behind, w)
    <3>1. Append(Behind, w) = [i \in 1..(m + 1) |-> IF i = m + 1 THEN w ELSE Behind[i]]
      BY <2>2, <2>5
    <3>2. \A i \in 1..(m + 1) : queue'[ParallelSempConnections + i] =
                                 IF i = m + 1 THEN w ELSE Behind[i]
      BY <1>1, <2>2, <2>4
    <3> QED
      BY <2>3, <3>1, <3>2
  <2> QED
    BY <1>2, <1>3, <1>5, <2>1, <2>6 DEF Permits!Acquire
<1> QED
  BY <1>4, <1>5

LEMMA TailElements ==
  ASSUME NEW S, NEW s \in Seq(S), s # <<>>
  PROVE  Tail(s) = [i \in 1..(Len(s) - 1) |-> s[i + 1]]
<1>1. /\ Tail(s) \in Seq(S) /\ Len(Tail(s)) = Len(s) - 1
      /\ \A i \in 1..Len(Tail(s)) : Tail(s)[i] = s[i + 1]
  BY HeadTailProperties
<1>2. Tail(s) = [i \in 1..Len(Tail(s)) |-> Tail(s)[i]]
  <2>1. \A t \in Seq(S) : t = [i \in 1..Len(t) |-> t[i]]
    OBVIOUS
  <2> QED
    BY <1>1, <2>1, Zenon
<1> QED
  BY <1>1, <1>2

LEMMA ReleaseHandsOver ==
  ASSUME SystemInv, NEW w \in Workers, Leaves(w)
  PROVE  Permits!Release(w)
<1>1. PICK k \in DOMAIN queue : /\ k <= ParallelSempConnections /\ queue[k] = w
                                /\ queue' = RemoveAt(queue, k)
  BY DEF Leaves
<1>2. /\ queue \in Seq(Workers) /\ DOMAIN queue = 1..Len(queue) /\ Len(queue) \in Nat
      /\ k \in 1..Len(queue) /\ ParallelSempConnections \in Nat \ {0} /\ QueueInv
      /\ \A i, j \in DOMAIN queue : queue[i] = queue[j] => i = j
  BY PermitsAssumption DEF SystemInv, QueueInv
<1>3. /\ Len(queue') = Len(queue) - 1 /\ DOMAIN queue' = 1..(Len(queue) - 1)
      /\ \A i \in 1..(Len(queue) - 1) :
           queue'[i] = IF i < k THEN queue[i] ELSE queue[i + 1]
  <2>1. /\ queue' \in Seq(Workers) /\ Len(queue') = Len(queue) - 1
        /\ \A i \in 1..(Len(queue) - 1) :
             queue'[i] = IF i < k THEN queue[i] ELSE queue[i + 1]
    <3>1. queue \in Seq(Workers) /\ k \in 1..Len(queue)
      BY <1>2
    <3>2. /\ RemoveAt(queue, k) \in Seq(Workers) /\ Len(RemoveAt(queue, k)) = Len(queue) - 1
          /\ \A i \in 1..(Len(queue) - 1) :
               RemoveAt(queue, k)[i] = IF i < k THEN queue[i] ELSE queue[i + 1]
      BY <3>1, RemoveAtProperties
    <3> QED
      BY <1>1, <3>2
  <2> QED
    BY <2>1
<1>4. w \in Holders
  BY <1>1 DEF Holders
\* The holders after the step sit at the same places, or one further back.
<1>5. ASSUME NEW v
      PROVE  v \in Holders' <=>
               \E i \in DOMAIN queue : i <= ParallelSempConnections + 1 /\ i # k /\ queue[i] = v
  <2>1. ASSUME NEW i \in DOMAIN queue', i <= ParallelSempConnections
        PROVE  \E j \in DOMAIN queue : j <= ParallelSempConnections + 1 /\ j # k /\ queue[j] = queue'[i]
    <3> DEFINE j == IF i < k THEN i ELSE i + 1
    <3>1. j \in DOMAIN queue /\ j <= ParallelSempConnections + 1 /\ j # k /\ queue[j] = queue'[i]
      BY <1>2, <1>3, <2>1
    <3> QED
      BY <3>1
  <2>2. ASSUME NEW j \in DOMAIN queue, j <= ParallelSempConnections + 1, j # k
        PROVE  \E i \in DOMAIN queue' : i <= ParallelSempConnections /\ queue'[i] = queue[j]
    <3> DEFINE i == IF j < k THEN j ELSE j - 1
    <3>1. i \in DOMAIN queue' /\ i <= ParallelSempConnections /\ queue'[i] = queue[j]
      BY <1>1, <1>2, <1>3, <2>2
    <3> QED
      BY <3>1
  <2>3. v \in Holders' <=> \E i \in DOMAIN queue' : i <= ParallelSempConnections /\ queue'[i] = v
    BY DEF Holders
  <2> QED
    BY <2>1, <2>2, <2>3
<1>6. \A v : v \in Holders \ {w} <=>
              \E i \in DOMAIN queue : i <= ParallelSempConnections /\ i # k /\ queue[i] = v
  BY <1>1, <1>2 DEF Holders
<1>7. CASE Len(queue) <= ParallelSempConnections
  <2>1. Holders' = Holders \ {w}
    <3>1. \A i \in DOMAIN queue : i <= ParallelSempConnections + 1 <=> i <= ParallelSempConnections
      BY <1>2, <1>7
    <3> QED
      BY <1>5, <1>6, <3>1
  <2>2. Behind = <<>>
    <3>1. QueueInv /\ Len(queue) <= ParallelSempConnections
      BY <1>2, <1>7
    <3> QED
      BY <3>1, NobodyBehind, Zenon
  <2>3. Behind' = <<>>
    <3>1. 1..(Len(queue') - ParallelSempConnections) = {}
      BY <1>2, <1>3, <1>7
    <3>2. Behind' = [i \in {} |-> queue'[ParallelSempConnections + i]]
      BY <3>1 DEF Behind
    <3> QED
      BY <3>2
  <2> QED
    BY <1>4, <2>1, <2>2, <2>3 DEF Permits!Release
<1>8. CASE Len(queue) > ParallelSempConnections
  <2> DEFINE m == Len(queue) - ParallelSempConnections
             first == queue[ParallelSempConnections + 1]
  <2>1. /\ m \in Nat \ {0} /\ ParallelSempConnections + 1 \in DOMAIN queue
        /\ ParallelSempConnections + 1 # k
    <3>1. Len(queue) \in Nat /\ ParallelSempConnections \in Nat /\ k \in Nat
      BY <1>2
    <3>2. Len(queue) > ParallelSempConnections /\ k <= ParallelSempConnections
      BY <1>1, <1>8
    <3>3. m \in Nat \ {0} /\ ParallelSempConnections + 1 \in 1..Len(queue)
      BY <3>1, <3>2
    <3>4. ParallelSempConnections + 1 # k
      BY <3>1, <3>2
    <3> QED
      BY <1>2, <3>3, <3>4
  <2>2. Behind \in Seq(Workers) /\ Behind # <<>> /\ Len(Behind) = m
    BY <1>2, <1>8, BehindType
  <2>3. \A i \in 1..m : Behind[i] = queue[ParallelSempConnections + i]
    BY DEF Behind
  <2>4. Head(Behind) = first
    BY <2>1, <2>2, <2>3
  <2>5. Holders' = (Holders \ {w}) \cup {first}
    <3>1. \A i \in DOMAIN queue : i <= ParallelSempConnections + 1 <=>
                                   i <= ParallelSempConnections \/ i = ParallelSempConnections + 1
      BY <1>2
    <3> QED
      BY <1>5, <1>6, <2>1, <3>1
  <2>6. Behind' = Tail(Behind)
    <3>1. Len(queue') - ParallelSempConnections = m - 1
      BY <1>2, <1>3
    <3>2. Behind' = [i \in 1..(m - 1) |-> queue'[ParallelSempConnections + i]]
      BY <3>1 DEF Behind
    <3>3. \A i \in 1..(m - 1) : queue'[ParallelSempConnections + i] = Behind[i + 1]
      <4> SUFFICES ASSUME NEW i \in 1..(m - 1)
                   PROVE  queue'[ParallelSempConnections + i] = Behind[i + 1]
        OBVIOUS
      <4>1. /\ ParallelSempConnections + i \in 1..(Len(queue) - 1)
            /\ ~(ParallelSempConnections + i < k)
            /\ ParallelSempConnections + i + 1 = ParallelSempConnections + (i + 1)
            /\ i + 1 \in 1..m
        <5>1. /\ Len(queue) \in Nat /\ ParallelSempConnections \in Nat /\ k \in Nat
              /\ k <= ParallelSempConnections
          BY <1>1, <1>2
        <5> QED
          BY <2>1, <5>1
      <4> QED
        BY <1>3, <2>3, <4>1
    <3> HIDE DEF m
    <3>4. Tail(Behind) = [i \in 1..(m - 1) |-> Behind[i + 1]]
      BY <2>2, TailElements
    <3> QED
      BY <3>2, <3>3, <3>4
  <2> HIDE DEF first
  <2> QED
    BY <1>4, <2>2, <2>4, <2>5, <2>6 DEF Permits!Release
<1> QED
  BY <1>2, <1>7, <1>8

\* What one queue says of holders and waiters is what Semaphore promises: with it
\* ExporterSystem and AsyncFetcher share one specification of the permits, so
\* what is proved of either queue speaks of the same semaphore (connections in
\* asyncFetcher.go).
THEOREM SemaphoreRefinement == SystemSafetySpec => ImplementsSemaphore
<1>1. SystemInit => Permits!Init
  <2> SUFFICES ASSUME SystemInit PROVE Permits!Init
    OBVIOUS
  <2>1. queue = <<>> /\ DOMAIN queue = {}
    BY DEF SystemInit
  <2>2. Holders = {}
    BY <2>1 DEF Holders
  <2>3. Behind = <<>>
    <3>1. SystemInv
      BY SystemInitially
    <3>2. Len(queue) <= ParallelSempConnections
      BY <2>1, PermitsAssumption
    <3> QED
      BY <3>1, <3>2, NobodyBehind DEF SystemInv
  <2> QED
    BY <2>2, <2>3 DEF Permits!Init
<1>2. SystemInv /\ [SystemNext]_systemVars => [Permits!Next]_(Permits!vars)
  <2> SUFFICES ASSUME SystemInv, [SystemNext]_systemVars
               PROVE  [Permits!Next]_(Permits!vars)
    OBVIOUS
  <2>1. CASE UNCHANGED queue
    BY <2>1 DEF Permits!vars, Holders, Behind
  <2>2. ASSUME NEW w \in Workers, Acquire(w) PROVE Permits!Next
    BY <2>2, AcquireTakesTurn DEF Permits!Next
  <2>3. ASSUME NEW w \in Workers, Release(w) PROVE Permits!Next
    BY <2>3, ReleaseHandsOver DEF Permits!Next, Release
  <2> QED
    BY <2>1, <2>2, <2>3 DEF SystemNext, Work, Serve, Elsewhere, systemVars
<1> QED
  BY <1>1, <1>2, SystemInitially, SystemStep, PTL
     DEF SystemSafetySpec, ImplementsSemaphore, Permits!Spec
=============================================================================
