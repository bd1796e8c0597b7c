------------------------- MODULE AsyncFetcherProofs -------------------------
(***************************************************************************)
(* Proofs about AsyncFetcher for any number of endpoints, metrics and      *)
(* permits and any channel and chunk size.                                 *)
(***************************************************************************)
EXTENDS AsyncFetcher, TLAPS, FiniteSetTheorems, SequenceTheorems,
        WellFoundedInduction

(***************************************************************************)
(* The metrics a chunk holds under one name have a last one.               *)
(***************************************************************************)
LEMMA LastIndexProperties ==
  ASSUME NEW s \in Seq(Metric), NEW n, Occurs(s, n)
  PROVE  /\ LastIndex(s, n) \in DOMAIN s
         /\ s[LastIndex(s, n)].name = n
         /\ \A j \in DOMAIN s : j > LastIndex(s, n) => s[j].name # n
<1> DEFINE T == {k \in Nat : \E i \in DOMAIN s : s[i].name = n /\ k = Len(s) - i}
<1>1. DOMAIN s = 1..Len(s) /\ Len(s) \in Nat
  OBVIOUS
<1>2. T \subseteq Nat /\ T # {}
  <2>1. PICK i \in DOMAIN s : s[i].name = n
    BY DEF Occurs
  <2>2. Len(s) - i \in T
    BY <1>1, <2>1
  <2> QED
    BY <2>2
<1>3. PICK k \in T : \A y \in T : ~(<<y, k>> \in OpToRel(<, Nat))
  BY <1>2, WFMin, NatLessThanWellFounded
<1>4. \A y \in T : ~(y < k)
  BY <1>2, <1>3 DEF OpToRel
<1>5. PICK i \in DOMAIN s : s[i].name = n /\ k = Len(s) - i
  OBVIOUS
<1>6. \A j \in DOMAIN s : j > i => s[j].name # n
  <2>1. SUFFICES ASSUME NEW j \in DOMAIN s, j > i, s[j].name = n
                 PROVE  FALSE
    OBVIOUS
  <2>2. Len(s) - j \in T /\ Len(s) - j < k
    BY <1>1, <1>5, <2>1
  <2> QED
    BY <1>4, <2>2
<1> QED
  BY <1>5, <1>6 DEF LastIndex

LEMMA StoredType ==
  ASSUME NEW m \in [Names -> Entry \cup {Absent}], NEW s \in Seq(Metric)
  PROVE  Stored(m, s) \in [Names -> Entry \cup {Absent}]
<1>1. SUFFICES ASSUME NEW n \in Names, Occurs(s, n)
               PROVE  [value |-> s[LastIndex(s, n)].value, deprecated |-> FALSE] \in Entry
  BY DEF Stored
<1>2. s[LastIndex(s, n)] \in Metric
  BY <1>1, LastIndexProperties
<1> QED
  BY <1>2 DEF Metric, Entry

LEMMA WithoutType ==
  ASSUME NEW S, NEW s \in Seq(S), NEW i \in DOMAIN s
  PROVE  Without(s, i) \in Seq(S) /\ Len(Without(s, i)) = Len(s) - 1
<1>1. Len(s) - 1 \in Nat /\ i \in 1..Len(s)
  OBVIOUS
<1>2. \A j \in 1..(Len(s) - 1) : (IF j < i THEN s[j] ELSE s[j + 1]) \in S
  BY <1>1
<1> QED
  BY <1>1, <1>2 DEF Without

LEMMA DeprecatedType ==
  ASSUME NEW e \in Entry
  PROVE  /\ [e EXCEPT !.deprecated = TRUE] \in Entry
         /\ [e EXCEPT !.deprecated = TRUE].deprecated
         /\ [e EXCEPT !.deprecated = TRUE].value = e.value
  BY DEF Entry

-----------------------------------------------------------------------------
LEMMA TypeInitially == Init => TypeOK
<1> SUFFICES ASSUME Init PROVE TypeOK
  OBVIOUS
<1>1. \A f \in Fetchers : Len(chan[f]) = 0 /\ Len(cache[f]) = 0
  BY DEF Init
<1>2. \A f \in Fetchers : Len(chan[f]) <= CapMetricChan /\ Len(cache[f]) <= MetricCacheChunkSize
  BY <1>1, BoundsAssumption
<1>3. /\ pc \in [Fetchers -> Phases]
      /\ metrics \in [Fetchers -> [Names -> Entry \cup {Absent}]]
      /\ chan \in [Fetchers -> Seq(Metric)] /\ cache \in [Fetchers -> Seq(Metric)]
      /\ inUse \in Int /\ waiters \in Seq(Fetchers)
      /\ reported \in [Fetchers -> SUBSET Metric]
  BY DEF Init, Phases
<1>4. closed \in [Fetchers -> BOOLEAN] /\ ctxDone \in BOOLEAN
  BY DEF Init
<1> QED
  BY <1>2, <1>3, <1>4 DEF TypeOK

LEMMA TypeStep == TypeOK /\ [Next]_vars => TypeOK'
<1> SUFFICES ASSUME TypeOK, [Next]_vars
             PROVE  TypeOK'
  OBVIOUS
<1> USE DEF TypeOK, refreshVars, semVars
<1>1. ASSUME NEW f \in Fetchers, Acquire(f) PROVE TypeOK'
  <2>1. waiters' = waiters \/ waiters' = Append(waiters, f)
    BY <1>1 DEF Acquire
  <2>2. waiters' \in Seq(Fetchers)
    <3>1. waiters \in Seq(Fetchers) /\ Append(waiters, f) \in Seq(Fetchers)
      OBVIOUS
    <3> HIDE DEF TypeOK
    <3> QED
      BY <2>1, <3>1
  <2>3. inUse' = inUse \/ inUse' = inUse + 1
    BY <1>1 DEF Acquire
  <2>4. pc' = [pc EXCEPT ![f] = "deprecate"] \/ pc' = [pc EXCEPT ![f] = "queued"]
    BY <1>1 DEF Acquire
  <2>5. pc' \in [Fetchers -> Phases]
    BY <2>4 DEF Phases
  <2> QED
    BY <1>1, <2>2, <2>3, <2>5 DEF Acquire
<1>2. ASSUME NEW f \in Fetchers, AcquireFails(f) PROVE TypeOK'
  <2>1. waiters' \in Seq(Fetchers)
    <3>1. CASE UNCHANGED waiters
      BY <3>1
    <3>2. CASE \E i \in DOMAIN waiters : waiters' = Without(waiters, i)
      BY <3>2, WithoutType
    <3> QED
      BY <1>2, <3>1, <3>2 DEF AcquireFails
  <2> QED
    BY <1>2, <2>1 DEF AcquireFails, Phases
<1>3. ASSUME NEW f \in Fetchers, DeprecateAll(f) PROVE TypeOK'
  <2>1. metrics' \in [Fetchers -> [Names -> Entry \cup {Absent}]]
    BY <1>3, DeprecatedType DEF DeprecateAll
  <2>2. /\ pc' \in [Fetchers -> Phases] /\ reported' \in [Fetchers -> SUBSET Metric]
        /\ chan' \in [Fetchers -> Seq(Metric)] /\ cache' \in [Fetchers -> Seq(Metric)]
        /\ closed' \in [Fetchers -> BOOLEAN]
    BY <1>3 DEF DeprecateAll, Phases
  <2>3. \A g \in Fetchers : /\ Len(chan'[g]) <= CapMetricChan
                            /\ Len(cache'[g]) <= MetricCacheChunkSize
    BY <1>3, BoundsAssumption DEF DeprecateAll
  <2> QED
    BY <1>3, <2>1, <2>2, <2>3 DEF DeprecateAll
<1>4. ASSUME NEW f \in Fetchers, NEW m \in Metric, Send(f, m) PROVE TypeOK'
  <2>1. chan' \in [Fetchers -> Seq(Metric)]
    BY <1>4 DEF Send
  <2>2. \A g \in Fetchers : Len(chan'[g]) <= CapMetricChan
    BY <1>4, BoundsAssumption DEF Send
  <2> QED
    BY <1>4, <2>1, <2>2 DEF Send
<1>5. ASSUME NEW f \in Fetchers, CloseChan(f) PROVE TypeOK'
  BY <1>5 DEF CloseChan
<1>6. ASSUME NEW f \in Fetchers, Receive(f) PROVE TypeOK'
  <2>1. Head(chan[f]) \in Metric /\ Tail(chan[f]) \in Seq(Metric)
        /\ Len(Tail(chan[f])) = Len(chan[f]) - 1
    BY <1>6 DEF Receive
  <2>2. chan' \in [Fetchers -> Seq(Metric)] /\ cache' \in [Fetchers -> Seq(Metric)]
    BY <1>6, <2>1 DEF Receive
  <2>3. \A g \in Fetchers : Len(chan'[g]) <= CapMetricChan
    BY <1>6, <2>1, BoundsAssumption DEF Receive
  <2>4. \A g \in Fetchers : Len(cache'[g]) <= MetricCacheChunkSize
    BY <1>6, <2>1, BoundsAssumption DEF Receive
  <2> QED
    BY <1>6, <2>2, <2>3, <2>4 DEF Receive
<1>7. ASSUME NEW f \in Fetchers, MergeChunk(f) PROVE TypeOK'
  <2>1. metrics' \in [Fetchers -> [Names -> Entry \cup {Absent}]]
    BY <1>7, StoredType DEF MergeChunk
  <2> QED
    BY <1>7, <2>1, BoundsAssumption DEF MergeChunk
<1>8. ASSUME NEW f \in Fetchers, MergeRest(f) PROVE TypeOK'
  <2>1. metrics' \in [Fetchers -> [Names -> Entry \cup {Absent}]]
    BY <1>8, StoredType DEF MergeRest
  <2> QED
    BY <1>8, <2>1, BoundsAssumption DEF MergeRest, Phases
<1>9. ASSUME NEW f \in Fetchers, DeleteDeprecated(f) PROVE TypeOK'
  BY <1>9 DEF DeleteDeprecated, Phases
<1>10. ASSUME NEW f \in Fetchers, Release(f) PROVE TypeOK'
  <2>1. CASE waiters = <<>> \/ ctxDone
    <3>1. inUse' \in Int /\ UNCHANGED waiters
      BY <1>10, <2>1 DEF Release
    <3>2. pc' \in [Fetchers -> Phases]
      BY <1>10, <2>1 DEF Release, Phases
    <3> QED
      BY <1>10, <3>1, <3>2 DEF Release
  <2>2. CASE ~(waiters = <<>> \/ ctxDone)
    <3>1. Head(waiters) \in Fetchers /\ Tail(waiters) \in Seq(Fetchers)
      BY <2>2
    <3>2. pc' \in [Fetchers -> Phases]
      BY <1>10, <2>2, <3>1 DEF Release, Phases
    <3> QED
      BY <1>10, <2>2, <3>1, <3>2 DEF Release
  <2> QED
    BY <2>1, <2>2
<1>11. ASSUME NEW f \in Fetchers, Tick(f) \/ Return(f) PROVE TypeOK'
  BY <1>11 DEF Tick, Return, Phases
<1>12. CASE Cancel
  BY <1>12 DEF Cancel
<1>13. CASE UNCHANGED vars
  BY <1>13 DEF vars
<1> QED
  BY <1>1, <1>2, <1>3, <1>4, <1>5, <1>6, <1>7, <1>8, <1>9, <1>10, <1>11, <1>12,
     <1>13 DEF Next, Worker, Stopped

\* Every variable of the prefetch component keeps its type; the channel never
\* holds more than capMetricChan metrics and a chunk never more than
\* metricCacheChunkSize.
THEOREM TypeCorrect == SafetySpec => []TypeOK
<1>1. Init => TypeOK
  BY TypeInitially
<1>2. TypeOK /\ [Next]_vars => TypeOK'
  BY TypeStep
<1> QED
  BY <1>1, <1>2, PTL DEF SafetySpec

-----------------------------------------------------------------------------
(***************************************************************************)
(* The semaphore.  PermitsAccounted and QueueConsistent are inductive      *)
(* together: a hand-over keeps the number of holders because the head of   *)
(* the queue is a blocked worker, and a worker joins the queue only when   *)
(* no permit is free.                                                      *)
(***************************************************************************)
PermitInv == /\ PermitsAccounted
             /\ inUse <= ParallelSempConnections
             /\ QueueConsistent

LEMMA HoldersFinite == IsFiniteSet(Holders)
<1>1. Holders \in SUBSET Fetchers
  BY DEF Holders
<1> QED
  BY <1>1, FetchersFinite, FS_Subset

\* Steps that keep the semaphore and the sets of holders and of queued workers.
LEMMA PermitFrame ==
  ASSUME TypeOK, PermitInv, UNCHANGED semVars, ctxDone => ctxDone',
         \A f \in Fetchers : /\ pc'[f] \in Holding <=> pc[f] \in Holding
                             /\ pc'[f] = "queued" <=> pc[f] = "queued"
  PROVE  PermitInv'
<1>1. Holders' = Holders
  BY DEF Holders
<1>2. inUse' = inUse /\ waiters' = waiters
  BY DEF semVars
<1>3. PermitsAccounted' /\ inUse' <= ParallelSempConnections
  BY <1>1, <1>2 DEF PermitInv, PermitsAccounted
<1>4. QueueConsistent'
  BY <1>2 DEF PermitInv, QueueConsistent
<1> QED
  BY <1>3, <1>4 DEF PermitInv

LEMMA PermitInitially == Init => PermitInv
<1> SUFFICES ASSUME Init PROVE PermitInv
  OBVIOUS
<1>1. Holders = {}
  BY DEF Init, Holders, Holding
<1>2. inUse = 0 /\ waiters = <<>>
  BY DEF Init
<1>3. PermitsAccounted /\ inUse <= ParallelSempConnections
  BY <1>1, <1>2, FS_EmptySet, BoundsAssumption DEF PermitsAccounted
<1>4. QueueConsistent
  BY <1>2 DEF QueueConsistent, Init
<1> QED
  BY <1>3, <1>4 DEF PermitInv

LEMMA AcquireKeepsPermits ==
  ASSUME TypeOK, PermitInv, NEW f \in Fetchers, Acquire(f)
  PROVE  PermitInv'
<1>1. inUse \in Int /\ waiters \in Seq(Fetchers) /\ pc \in [Fetchers -> Phases]
  BY DEF TypeOK
<1>2. pc[f] = "acquire" /\ ~ctxDone /\ ctxDone' = ctxDone
  BY DEF Acquire
<1>3. f \notin Holders
  BY <1>2 DEF Holders, Holding
<1>4. CASE PermitFree /\ inUse' = inUse + 1 /\ waiters' = waiters
           /\ pc' = [pc EXCEPT ![f] = "deprecate"]
  <2>1. Holders' = Holders \cup {f}
    BY <1>1, <1>4 DEF Holders, Holding
  <2>2. PermitsAccounted'
    BY <1>3, <1>4, <2>1, HoldersFinite, FS_AddElement DEF PermitInv, PermitsAccounted
  <2>3. inUse' <= ParallelSempConnections
    BY <1>1, <1>4, BoundsAssumption DEF PermitFree
  <2>4. waiters = <<>>
    BY <1>4 DEF PermitFree
  <2>5. QueueConsistent'
    BY <1>1, <1>2, <1>4, <2>4 DEF PermitInv, QueueConsistent
  <2> QED
    BY <2>2, <2>3, <2>5 DEF PermitInv
<1>5. CASE ~PermitFree /\ inUse' = inUse /\ waiters' = Append(waiters, f)
           /\ pc' = [pc EXCEPT ![f] = "queued"]
  <2>1. Holders' = Holders
    BY <1>1, <1>2, <1>5 DEF Holders, Holding
  <2>2. PermitsAccounted' /\ inUse' <= ParallelSempConnections
    BY <1>5, <2>1 DEF PermitInv, PermitsAccounted
  <2>3. inUse = ParallelSempConnections
    BY <1>1, <1>2, <1>5, BoundsAssumption DEF PermitInv, PermitFree, QueueConsistent
  <2>4. /\ DOMAIN waiters = 1..Len(waiters) /\ Len(waiters) \in Nat
        /\ DOMAIN waiters' = 1..(Len(waiters) + 1)
        /\ \A i \in 1..Len(waiters) : waiters'[i] = waiters[i]
        /\ waiters'[Len(waiters) + 1] = f
    BY <1>1, <1>5
  <2>5. \A i \in DOMAIN waiters : waiters[i] # f
    BY <1>2 DEF PermitInv, QueueConsistent
  <2>6. \A i, j \in DOMAIN waiters' : waiters'[i] = waiters'[j] => i = j
    BY <2>4, <2>5 DEF PermitInv, QueueConsistent
  <2>7. \A g \in Fetchers : pc'[g] = "queued" <=> \E i \in DOMAIN waiters' : waiters'[i] = g
    <3>1. \A g \in Fetchers : (\E i \in DOMAIN waiters' : waiters'[i] = g)
                               <=> g = f \/ \E i \in DOMAIN waiters : waiters[i] = g
      BY <2>4
    <3>2. \A g \in Fetchers : pc'[g] = "queued" <=> g = f \/ pc[g] = "queued"
      BY <1>1, <1>5
    <3> QED
      BY <3>1, <3>2 DEF PermitInv, QueueConsistent
  <2>8. QueueConsistent'
    BY <1>5, <2>3, <2>6, <2>7 DEF QueueConsistent
  <2> QED
    BY <2>2, <2>8 DEF PermitInv
<1> QED
  BY <1>4, <1>5 DEF Acquire

LEMMA AcquireFailsKeepsPermits ==
  ASSUME TypeOK, PermitInv, NEW f \in Fetchers, AcquireFails(f)
  PROVE  PermitInv'
<1>1. inUse \in Int /\ waiters \in Seq(Fetchers) /\ pc \in [Fetchers -> Phases]
  BY DEF TypeOK
<1>2. /\ ctxDone /\ ctxDone' = ctxDone /\ inUse' = inUse
      /\ pc[f] \in {"acquire", "queued"} /\ pc' = [pc EXCEPT ![f] = "stopped"]
  BY DEF AcquireFails
<1>3. Holders' = Holders
  BY <1>1, <1>2 DEF Holders, Holding
<1>4. PermitsAccounted' /\ inUse' <= ParallelSempConnections
  BY <1>2, <1>3 DEF PermitInv, PermitsAccounted
<1>5. CASE pc[f] = "acquire" /\ UNCHANGED waiters
  <2>1. \A g \in Fetchers : pc'[g] = "queued" <=> pc[g] = "queued"
    BY <1>1, <1>2, <1>5
  <2> QED
    BY <1>2, <1>4, <1>5, <2>1 DEF PermitInv, QueueConsistent
<1>6. CASE pc[f] = "queued" /\ \E i \in DOMAIN waiters :
             waiters[i] = f /\ waiters' = Without(waiters, i)
  <2>1. PICK k \in DOMAIN waiters : waiters[k] = f /\ waiters' = Without(waiters, k)
    BY <1>6
  <2>2. /\ DOMAIN waiters = 1..Len(waiters) /\ Len(waiters) \in Nat /\ k \in 1..Len(waiters)
        /\ DOMAIN waiters' = 1..(Len(waiters) - 1)
        /\ \A j \in 1..(Len(waiters) - 1) :
             waiters'[j] = IF j < k THEN waiters[j] ELSE waiters[j + 1]
    BY <1>1, <2>1 DEF Without
  <2>3. \A i, j \in DOMAIN waiters : waiters[i] = waiters[j] => i = j
    BY DEF PermitInv, QueueConsistent
  <2>4. \A i, j \in DOMAIN waiters' : waiters'[i] = waiters'[j] => i = j
    <3> DEFINE old(j) == IF j < k THEN j ELSE j + 1
    <3>1. \A j \in DOMAIN waiters' : old(j) \in DOMAIN waiters /\ waiters'[j] = waiters[old(j)]
      BY <2>2
    <3>2. \A i, j \in DOMAIN waiters' : old(i) = old(j) => i = j
      BY <2>2
    <3> HIDE DEF old
    <3> QED
      BY <2>3, <3>1, <3>2
  <2>5. \A g \in Fetchers : (\E i \in DOMAIN waiters' : waiters'[i] = g)
                             <=> g # f /\ \E i \in DOMAIN waiters : waiters[i] = g
    <3>1. ASSUME NEW i \in DOMAIN waiters'
          PROVE  waiters'[i] # f /\ \E j \in DOMAIN waiters : waiters[j] = waiters'[i]
      BY <2>1, <2>2, <2>3
    <3>2. ASSUME NEW i \in DOMAIN waiters, waiters[i] # f
          PROVE  \E j \in DOMAIN waiters' : waiters'[j] = waiters[i]
      <4>1. CASE i < k
        BY <2>1, <2>2, <4>1
      <4>2. CASE i > k
        <5>1. i - 1 \in DOMAIN waiters' /\ waiters'[i - 1] = waiters[i]
          BY <2>1, <2>2, <4>2
        <5> QED
          BY <5>1
      <4> QED
        BY <2>1, <2>2, <3>2, <4>1, <4>2
    <3> QED
      BY <3>1, <3>2
  <2>6. \A g \in Fetchers : pc'[g] = "queued" <=> g # f /\ pc[g] = "queued"
    BY <1>1, <1>2
  <2>7. \A g \in Fetchers : pc'[g] = "queued" <=> \E i \in DOMAIN waiters' : waiters'[i] = g
    BY <2>5, <2>6 DEF PermitInv, QueueConsistent
  <2> QED
    BY <1>2, <1>4, <2>4, <2>7 DEF PermitInv, QueueConsistent
<1> QED
  BY <1>5, <1>6 DEF AcquireFails

LEMMA ReleaseKeepsPermits ==
  ASSUME TypeOK, PermitInv, NEW f \in Fetchers, Release(f)
  PROVE  PermitInv'
<1>1. inUse \in Int /\ waiters \in Seq(Fetchers) /\ pc \in [Fetchers -> Phases]
  BY DEF TypeOK
<1>2. pc[f] = "release" /\ ctxDone' = ctxDone /\ f \in Holders
  BY DEF Release, Holders, Holding
<1>3. CASE waiters = <<>> \/ ctxDone
  <2>1. inUse' = inUse - 1 /\ pc' = [pc EXCEPT ![f] = "select"] /\ waiters' = waiters
    BY <1>3 DEF Release
  <2>2. Holders' = Holders \ {f}
    BY <1>1, <2>1 DEF Holders, Holding
  <2>3. PermitsAccounted'
    BY <1>2, <2>1, <2>2, HoldersFinite, FS_RemoveElement DEF PermitInv, PermitsAccounted
  <2>4. inUse' <= ParallelSempConnections
    BY <1>1, <2>1, BoundsAssumption DEF PermitInv
  <2>5. \A g \in Fetchers : pc'[g] = "queued" <=> pc[g] = "queued"
    BY <1>1, <1>2, <2>1
  <2>6. QueueConsistent'
    BY <1>2, <1>3, <2>1, <2>5 DEF PermitInv, QueueConsistent
  <2> QED
    BY <2>3, <2>4, <2>6 DEF PermitInv
<1>4. CASE ~(waiters = <<>> \/ ctxDone)
  <2> DEFINE g == Head(waiters)
  <2>1. /\ waiters # <<>> /\ ~ctxDone /\ inUse' = inUse /\ waiters' = Tail(waiters)
        /\ pc' = [pc EXCEPT ![f] = "select", ![g] = "deprecate"]
    BY <1>4 DEF Release
  <2>2. /\ Len(waiters) \in Nat \ {0} /\ DOMAIN waiters = 1..Len(waiters)
        /\ g = waiters[1] /\ g \in Fetchers
        /\ DOMAIN waiters' = 1..(Len(waiters) - 1)
        /\ \A i \in 1..(Len(waiters) - 1) : waiters'[i] = waiters[i + 1]
    BY <1>1, <2>1
  <2>3. pc[g] = "queued" /\ g # f /\ g \notin Holders
    BY <1>2, <2>2 DEF PermitInv, QueueConsistent, Holders, Holding
  <2> HIDE DEF g
  <2>4. Holders' = (Holders \ {f}) \cup {g}
    BY <1>1, <2>1, <2>2, <2>3 DEF Holders, Holding
  <2>5. Cardinality(Holders') = Cardinality(Holders)
    <3>1. IsFiniteSet(Holders \ {f}) /\ Cardinality(Holders \ {f}) = Cardinality(Holders) - 1
      BY <1>2, HoldersFinite, FS_RemoveElement
    <3>2. Cardinality((Holders \ {f}) \cup {g}) = Cardinality(Holders \ {f}) + 1
      BY <2>3, <3>1, FS_AddElement
    <3>3. Cardinality(Holders) \in Nat
      BY HoldersFinite, FS_CardinalityType
    <3> QED
      BY <2>4, <3>1, <3>2, <3>3
  <2>6. PermitsAccounted' /\ inUse' <= ParallelSempConnections
    BY <2>1, <2>5 DEF PermitInv, PermitsAccounted
  <2>7. \A i, j \in DOMAIN waiters : waiters[i] = waiters[j] => i = j
    BY DEF PermitInv, QueueConsistent
  <2>8. \A i, j \in DOMAIN waiters' : waiters'[i] = waiters'[j] => i = j
    BY <2>2, <2>7
  <2>9. \A h \in Fetchers : (\E i \in DOMAIN waiters' : waiters'[i] = h)
                             <=> h # g /\ \E i \in DOMAIN waiters : waiters[i] = h
    <3>1. ASSUME NEW i \in DOMAIN waiters'
          PROVE  waiters'[i] # g /\ \E j \in DOMAIN waiters : waiters[j] = waiters'[i]
      BY <2>2, <2>7
    <3>2. ASSUME NEW i \in DOMAIN waiters, waiters[i] # g
          PROVE  \E j \in DOMAIN waiters' : waiters'[j] = waiters[i]
      <4>1. i - 1 \in DOMAIN waiters' /\ waiters'[i - 1] = waiters[i]
        BY <2>2, <3>2
      <4> QED
        BY <4>1
    <3> QED
      BY <3>1, <3>2
  <2>10. \A h \in Fetchers : pc'[h] = "queued" <=> h # g /\ pc[h] = "queued"
    BY <1>1, <1>2, <2>1, <2>2, <2>3
  <2>11. \A h \in Fetchers : pc'[h] = "queued" <=> \E i \in DOMAIN waiters' : waiters'[i] = h
    BY <2>9, <2>10 DEF PermitInv, QueueConsistent
  <2>12. inUse' = ParallelSempConnections
    BY <2>1 DEF PermitInv, QueueConsistent
  <2>13. QueueConsistent'
    BY <2>8, <2>11, <2>12 DEF QueueConsistent
  <2> QED
    BY <2>6, <2>13 DEF PermitInv
<1> QED
  BY <1>3, <1>4

LEMMA PermitStep == TypeOK /\ PermitInv /\ [Next]_vars => PermitInv'
<1> SUFFICES ASSUME TypeOK, PermitInv, [Next]_vars
             PROVE  PermitInv'
  OBVIOUS
<1>1. pc \in [Fetchers -> Phases]
  BY DEF TypeOK
<1>2. ASSUME NEW f \in Fetchers, Worker(f) PROVE PermitInv'
  <2>1. CASE Acquire(f)
    BY <2>1, AcquireKeepsPermits
  <2>2. CASE AcquireFails(f)
    BY <2>2, AcquireFailsKeepsPermits
  <2>3. CASE DeprecateAll(f)
    BY <1>1, <2>3, PermitFrame DEF DeprecateAll, Holding, semVars
  <2>4. CASE Receive(f) \/ MergeChunk(f)
    BY <1>1, <2>4, PermitFrame DEF Receive, MergeChunk, semVars
  <2>5. CASE MergeRest(f)
    BY <1>1, <2>5, PermitFrame DEF MergeRest, Holding, semVars
  <2>6. CASE DeleteDeprecated(f)
    BY <1>1, <2>6, PermitFrame DEF DeleteDeprecated, Holding, semVars
  <2>7. CASE Release(f)
    BY <2>7, ReleaseKeepsPermits
  <2>8. CASE Tick(f) \/ Return(f)
    BY <1>1, <2>8, PermitFrame DEF Tick, Return, Holding, semVars
  <2> QED
    BY <1>2, <2>1, <2>2, <2>3, <2>4, <2>5, <2>6, <2>7, <2>8 DEF Worker
<1>3. ASSUME NEW f \in Fetchers, CloseChan(f) \/ \E m \in Metric : Send(f, m)
      PROVE  PermitInv'
  BY <1>3, PermitFrame DEF CloseChan, Send, semVars
<1>4. CASE Cancel
  BY <1>4, PermitFrame DEF Cancel, semVars
<1>5. CASE UNCHANGED vars
  BY <1>5, PermitFrame DEF vars, semVars
<1> QED
  BY <1>2, <1>3, <1>4, <1>5 DEF Next, Stopped

\* However many endpoints are prefetched and however their refreshes, waits
\* and cancellations interleave: the permits handed out are exactly the
\* workers between Acquire and Release, never more than configured, and no
\* worker queues while a permit is free.
THEOREM PermitsCorrect ==
  SafetySpec => [](PermitsAccounted /\ ConnectionsBounded /\ QueueConsistent)
<1>1. Init => TypeOK /\ PermitInv
  BY TypeInitially, PermitInitially
<1>2. TypeOK /\ PermitInv /\ [Next]_vars => TypeOK' /\ PermitInv'
  BY TypeStep, PermitStep
<1>3. PermitInv => PermitsAccounted /\ ConnectionsBounded /\ QueueConsistent
  BY DEF PermitInv, PermitsAccounted, ConnectionsBounded
<1> QED
  BY <1>1, <1>2, <1>3, PTL DEF SafetySpec

\* No more workers ask the broker than there are permits.
THEOREM ConnectionsCorrect == SafetySpec => []ConnectionsBounded
BY PermitsCorrect, PTL

\* The semaphore's queue holds the waiting workers, each of them once.
THEOREM QueueCorrect == SafetySpec => []QueueConsistent
BY PermitsCorrect, PTL

-----------------------------------------------------------------------------
(***************************************************************************)
(* The cache.  CacheIsLastScrape speaks of the time between refreshes; to  *)
(* carry it through one, RefreshInv says that what is on its way through   *)
(* chunk and channel, and every entry not deprecated, was reported by this *)
(* refresh, and that nothing reported gets lost on the way.                *)
(***************************************************************************)
Live(m, n) == m[n] # Absent /\ ~m[n].deprecated

RefreshInv(f) ==
  /\ pc[f] # "receive" => closed[f] /\ chan[f] = <<>> /\ cache[f] = <<>>
  /\ pc[f] \notin {"receive", "delete"} =>
       \A n \in Names : metrics[f][n] # Absent => Live(metrics[f], n)
  /\ \A n \in Names : Live(metrics[f], n) =>
       [name |-> n, value |-> metrics[f][n].value] \in reported[f]
  /\ \A m \in reported[f] : \/ Live(metrics[f], m.name)
                             \/ Occurs(cache[f], m.name)
                             \/ Occurs(chan[f], m.name)
  /\ \A i \in DOMAIN cache[f] : cache[f][i] \in reported[f]
  /\ \A i \in DOMAIN chan[f] : chan[f][i] \in reported[f]

CacheInv == \A f \in Fetchers : RefreshInv(f)

\* What Merge leaves under a name: the last value of the chunk if the chunk has
\* one, and otherwise what was there.
LEMMA StoredProperties ==
  ASSUME NEW m \in [Names -> Entry \cup {Absent}], NEW s \in Seq(Metric), NEW n \in Names
  PROVE  /\ Occurs(s, n) => /\ Live(Stored(m, s), n)
                            /\ \E i \in DOMAIN s :
                                 s[i] = [name |-> n, value |-> Stored(m, s)[n].value]
         /\ ~Occurs(s, n) => Stored(m, s)[n] = m[n]
<1>1. CASE ~Occurs(s, n)
  BY <1>1 DEF Stored
<1>2. CASE Occurs(s, n)
  <2> DEFINE k == LastIndex(s, n)
  <2>1. k \in DOMAIN s /\ s[k].name = n /\ s[k] \in Metric
    BY <1>2, LastIndexProperties
  <2>2. Stored(m, s)[n] = [value |-> s[k].value, deprecated |-> FALSE]
    BY <1>2 DEF Stored
  <2> HIDE DEF k
  <2>3. Stored(m, s)[n] \in Entry
    BY <2>1, <2>2 DEF Metric, Entry
  <2>4. Stored(m, s)[n] # Absent
    BY <2>3, AbsentAssumption
  <2>5. s[k] = [name |-> n, value |-> Stored(m, s)[n].value]
    BY <2>1, <2>2 DEF Metric
  <2>6. Live(Stored(m, s), n)
    BY <2>2, <2>4 DEF Live
  <2>7. \E i \in DOMAIN s : s[i] = [name |-> n, value |-> Stored(m, s)[n].value]
    BY <2>1, <2>5
  <2> QED
    BY <1>2, <2>6, <2>7
<1> QED
  BY <1>1, <1>2

\* Steps that leave f's refresh alone and neither enter nor leave one.
LEMMA RefreshFrame ==
  ASSUME NEW f \in Fetchers, RefreshInv(f),
         metrics'[f] = metrics[f], chan'[f] = chan[f], closed'[f] = closed[f],
         cache'[f] = cache[f], reported'[f] = reported[f],
         pc'[f] = "receive" <=> pc[f] = "receive",
         pc'[f] = "delete" <=> pc[f] = "delete"
  PROVE  RefreshInv(f)'
<1>1. pc'[f] # "receive" => closed'[f] /\ chan'[f] = <<>> /\ cache'[f] = <<>>
  BY DEF RefreshInv
<1>2. pc'[f] \notin {"receive", "delete"} =>
        \A n \in Names : metrics'[f][n] # Absent => Live(metrics'[f], n)
  BY DEF RefreshInv
<1>3. /\ \A n \in Names : Live(metrics'[f], n) =>
           [name |-> n, value |-> metrics'[f][n].value] \in reported'[f]
      /\ \A m \in reported'[f] : \/ Live(metrics'[f], m.name)
                                  \/ Occurs(cache'[f], m.name)
                                  \/ Occurs(chan'[f], m.name)
  BY DEF RefreshInv
<1>4. /\ \A i \in DOMAIN cache'[f] : cache'[f][i] \in reported'[f]
      /\ \A i \in DOMAIN chan'[f] : chan'[f][i] \in reported'[f]
  BY DEF RefreshInv
<1> QED
  BY <1>1, <1>2, <1>3, <1>4 DEF RefreshInv, Live

LEMMA CacheInitially == Init => CacheInv
<1> SUFFICES ASSUME Init, NEW f \in Fetchers PROVE RefreshInv(f)
  BY DEF CacheInv
<1>1. /\ closed[f] /\ chan[f] = <<>> /\ cache[f] = <<>> /\ reported[f] = {}
      /\ \A n \in Names : metrics[f][n] = Absent
  BY DEF Init
<1>2. \A n \in Names : ~Live(metrics[f], n)
  BY <1>1 DEF Live
<1> QED
  BY <1>1, <1>2 DEF RefreshInv

LEMMA DeprecateAllKeepsCache ==
  ASSUME TypeOK, NEW f \in Fetchers, RefreshInv(f), DeprecateAll(f)
  PROVE  RefreshInv(f)'
<1>1. metrics[f] \in [Names -> Entry \cup {Absent}]
  BY DEF TypeOK
<1>2. /\ pc'[f] = "receive" /\ chan'[f] = <<>> /\ cache'[f] = <<>> /\ reported'[f] = {}
      /\ metrics'[f] = [n \in Names |-> IF metrics[f][n] = Absent THEN Absent
                                       ELSE [metrics[f][n] EXCEPT !.deprecated = TRUE]]
  BY DEF DeprecateAll, TypeOK
<1>3. \A n \in Names : ~Live(metrics'[f], n)
  BY <1>1, <1>2, DeprecatedType DEF Live
<1> QED
  BY <1>2, <1>3 DEF RefreshInv, Live

LEMMA SendKeepsCache ==
  ASSUME TypeOK, NEW f \in Fetchers, NEW m \in Metric, RefreshInv(f), Send(f, m)
  PROVE  RefreshInv(f)'
<1>1. chan[f] \in Seq(Metric)
  BY DEF TypeOK
<1>2. /\ chan'[f] = Append(chan[f], m) /\ reported'[f] = reported[f] \cup {m}
      /\ cache' = cache /\ metrics' = metrics /\ pc' = pc /\ ~closed[f]
  BY DEF Send, TypeOK
<1>3. pc[f] = "receive"
  BY <1>2 DEF RefreshInv
<1>4. /\ DOMAIN chan'[f] = 1..(Len(chan[f]) + 1) /\ DOMAIN chan[f] = 1..Len(chan[f])
      /\ Len(chan[f]) \in Nat
      /\ \A i \in DOMAIN chan[f] : chan'[f][i] = chan[f][i]
      /\ chan'[f][Len(chan[f]) + 1] = m
  BY <1>1, <1>2
<1>5. \A i \in DOMAIN chan'[f] : chan'[f][i] \in reported'[f]
  BY <1>2, <1>4 DEF RefreshInv
<1>6. \A r \in reported'[f] : \/ Live(metrics'[f], r.name)
                              \/ Occurs(cache'[f], r.name)
                              \/ Occurs(chan'[f], r.name)
  <2>1. Occurs(chan'[f], m.name)
    BY <1>4 DEF Occurs
  <2>2. \A n : Occurs(chan[f], n) => Occurs(chan'[f], n)
    BY <1>4 DEF Occurs
  <2> QED
    BY <1>2, <2>1, <2>2 DEF RefreshInv
<1>7. \A n \in Names : Live(metrics'[f], n) =>
        [name |-> n, value |-> metrics'[f][n].value] \in reported'[f]
  BY <1>2 DEF RefreshInv
<1>8. \A i \in DOMAIN cache'[f] : cache'[f][i] \in reported'[f]
  BY <1>2 DEF RefreshInv
<1> QED
  BY <1>2, <1>3, <1>5, <1>6, <1>7, <1>8 DEF RefreshInv, Live

LEMMA ReceiveKeepsCache ==
  ASSUME TypeOK, NEW f \in Fetchers, RefreshInv(f), Receive(f)
  PROVE  RefreshInv(f)'
<1>1. chan[f] \in Seq(Metric) /\ cache[f] \in Seq(Metric) /\ chan[f] # <<>>
  BY DEF TypeOK, Receive
<1>2. /\ cache'[f] = Append(cache[f], Head(chan[f])) /\ chan'[f] = Tail(chan[f])
      /\ reported' = reported /\ metrics' = metrics /\ pc' = pc /\ pc[f] = "receive"
  BY DEF Receive, TypeOK
<1>3. /\ DOMAIN cache'[f] = 1..(Len(cache[f]) + 1) /\ DOMAIN cache[f] = 1..Len(cache[f])
      /\ Len(cache[f]) \in Nat
      /\ \A i \in DOMAIN cache[f] : cache'[f][i] = cache[f][i]
      /\ cache'[f][Len(cache[f]) + 1] = chan[f][1]
  BY <1>1, <1>2
<1>4. /\ Len(chan[f]) \in Nat \ {0} /\ DOMAIN chan[f] = 1..Len(chan[f])
      /\ DOMAIN chan'[f] = 1..(Len(chan[f]) - 1)
      /\ \A i \in DOMAIN chan'[f] : chan'[f][i] = chan[f][i + 1]
  BY <1>1, <1>2
<1>5. /\ \A i \in DOMAIN cache'[f] : cache'[f][i] \in reported'[f]
      /\ \A i \in DOMAIN chan'[f] : chan'[f][i] \in reported'[f]
  <2>1. /\ \A i \in DOMAIN cache[f] : cache[f][i] \in reported[f]
        /\ \A i \in DOMAIN chan[f] : chan[f][i] \in reported[f]
    BY DEF RefreshInv
  <2>2. \A i \in DOMAIN chan'[f] : chan'[f][i] \in reported'[f]
    BY <1>2, <1>4, <2>1
  <2>3. \A i \in DOMAIN cache'[f] : cache'[f][i] \in reported'[f]
    <3>1. chan[f][1] \in reported[f]
      BY <1>4, <2>1
    <3> QED
      BY <1>2, <1>3, <2>1, <3>1
  <2> QED
    BY <2>2, <2>3
<1>6. ASSUME NEW n, Occurs(cache[f], n) \/ Occurs(chan[f], n)
      PROVE  Occurs(cache'[f], n) \/ Occurs(chan'[f], n)
  <2>1. CASE Occurs(cache[f], n)
    BY <1>3, <2>1 DEF Occurs
  <2>2. CASE Occurs(chan[f], n)
    <3>1. PICK i \in DOMAIN chan[f] : chan[f][i].name = n
      BY <2>2 DEF Occurs
    <3>2. CASE i = 1
      BY <1>3, <3>1, <3>2 DEF Occurs
    <3>3. CASE i # 1
      <4>1. i - 1 \in DOMAIN chan'[f] /\ chan'[f][i - 1] = chan[f][i]
        BY <1>4, <3>3
      <4> QED
        BY <3>1, <4>1 DEF Occurs
    <3> QED
      BY <3>2, <3>3
  <2> QED
    BY <1>6, <2>1, <2>2
<1>7. \A r \in reported'[f] : \/ Live(metrics'[f], r.name)
                              \/ Occurs(cache'[f], r.name)
                              \/ Occurs(chan'[f], r.name)
  BY <1>2, <1>6 DEF RefreshInv
<1>8. \A n \in Names : Live(metrics'[f], n) =>
        [name |-> n, value |-> metrics'[f][n].value] \in reported'[f]
  BY <1>2 DEF RefreshInv
<1> QED
  BY <1>2, <1>5, <1>7, <1>8 DEF RefreshInv, Live

LEMMA MergeKeepsCache ==
  ASSUME TypeOK, NEW f \in Fetchers, RefreshInv(f), MergeChunk(f) \/ MergeRest(f)
  PROVE  RefreshInv(f)'
<1>1. /\ metrics[f] \in [Names -> Entry \cup {Absent}]
      /\ cache[f] \in Seq(Metric) /\ chan[f] \in Seq(Metric) /\ reported[f] \subseteq Metric
  BY DEF TypeOK
<1>2. /\ metrics'[f] = Stored(metrics[f], cache[f]) /\ cache'[f] = <<>>
      /\ chan' = chan /\ reported' = reported /\ closed' = closed /\ pc[f] = "receive"
  BY DEF MergeChunk, MergeRest, TypeOK
<1>3. /\ pc'[f] \in {"receive", "delete"}
      /\ pc'[f] = "delete" => closed[f] /\ chan[f] = <<>>
  BY DEF MergeChunk, MergeRest, TypeOK
<1>4. \A n \in Names : Live(metrics'[f], n) =>
        [name |-> n, value |-> metrics'[f][n].value] \in reported'[f]
  <2> SUFFICES ASSUME NEW n \in Names, Live(metrics'[f], n)
               PROVE  [name |-> n, value |-> metrics'[f][n].value] \in reported[f]
    BY <1>2
  <2>1. CASE Occurs(cache[f], n)
    <3>1. PICK i \in DOMAIN cache[f] :
            cache[f][i] = [name |-> n, value |-> metrics'[f][n].value]
      BY <1>1, <1>2, <2>1, StoredProperties
    <3> QED
      BY <3>1 DEF RefreshInv
  <2>2. CASE ~Occurs(cache[f], n)
    <3>1. metrics'[f][n] = metrics[f][n]
      BY <1>1, <1>2, <2>2, StoredProperties
    <3>2. Live(metrics[f], n)
      BY <3>1 DEF Live
    <3> QED
      BY <3>1, <3>2 DEF RefreshInv
  <2> QED
    BY <2>1, <2>2
<1>5. \A r \in reported'[f] : Live(metrics'[f], r.name) \/ Occurs(chan'[f], r.name)
  <2> SUFFICES ASSUME NEW r \in reported[f], ~Occurs(chan[f], r.name)
               PROVE  Live(metrics'[f], r.name)
    BY <1>2
  <2>1. r.name \in Names
    BY <1>1 DEF Metric
  <2>2. CASE Occurs(cache[f], r.name)
    BY <1>1, <1>2, <2>1, <2>2, StoredProperties
  <2>3. CASE ~Occurs(cache[f], r.name)
    <3>1. Live(metrics[f], r.name)
      BY <2>3 DEF RefreshInv
    <3>2. metrics'[f][r.name] = metrics[f][r.name]
      BY <1>1, <1>2, <2>1, <2>3, StoredProperties
    <3> QED
      BY <3>1, <3>2 DEF Live
  <2> QED
    BY <2>2, <2>3
<1>6. \A i \in DOMAIN cache'[f] : cache'[f][i] \in reported'[f]
  BY <1>2
<1>7. \A i \in DOMAIN chan'[f] : chan'[f][i] \in reported'[f]
  BY <1>2 DEF RefreshInv
<1> QED
  BY <1>2, <1>3, <1>4, <1>5, <1>6, <1>7 DEF RefreshInv, Live

LEMMA DeleteKeepsCache ==
  ASSUME TypeOK, NEW f \in Fetchers, RefreshInv(f), DeleteDeprecated(f)
  PROVE  RefreshInv(f)'
<1>1. /\ metrics[f] \in [Names -> Entry \cup {Absent}] /\ reported[f] \subseteq Metric
      /\ metrics'[f] = [n \in Names |-> IF metrics[f][n] = Absent THEN Absent
                                       ELSE IF metrics[f][n].deprecated THEN Absent
                                       ELSE metrics[f][n]]
      /\ pc[f] = "delete" /\ pc'[f] = "release"
      /\ chan' = chan /\ cache' = cache /\ closed' = closed /\ reported' = reported
  BY DEF TypeOK, DeleteDeprecated
<1>2. \A n \in Names : IF Live(metrics[f], n)
                      THEN metrics'[f][n] = metrics[f][n]
                      ELSE metrics'[f][n] = Absent
  BY <1>1 DEF Live
<1>3. \A n \in Names : metrics'[f][n] # Absent => Live(metrics'[f], n)
  BY <1>2 DEF Live
<1>4. \A n \in Names : Live(metrics'[f], n) <=> Live(metrics[f], n)
  BY <1>2 DEF Live
<1>5. closed[f] /\ chan[f] = <<>> /\ cache[f] = <<>>
  BY <1>1 DEF RefreshInv
<1>6. \A n \in Names : Live(metrics'[f], n) =>
        [name |-> n, value |-> metrics'[f][n].value] \in reported'[f]
  BY <1>1, <1>2, <1>4 DEF RefreshInv
<1>7. \A r \in reported'[f] : Live(metrics'[f], r.name)
  <2>1. \A n : ~Occurs(<<>>, n)
    BY DEF Occurs
  <2>2. \A r \in reported[f] : r.name \in Names /\ Live(metrics[f], r.name)
    BY <1>1, <1>5, <2>1 DEF RefreshInv, Metric
  <2> QED
    BY <1>1, <1>4, <2>2
<1> QED
  BY <1>1, <1>3, <1>5, <1>6, <1>7 DEF RefreshInv, Live

\* A released permit goes to a worker that is blocked in Acquire.
LEMMA HeadIsQueued ==
  ASSUME TypeOK, PermitInv, waiters # <<>>
  PROVE  Head(waiters) \in Fetchers /\ pc[Head(waiters)] = "queued"
<1>1. 1 \in DOMAIN waiters /\ Head(waiters) = waiters[1] /\ waiters[1] \in Fetchers
  BY DEF TypeOK
<1> QED
  BY <1>1 DEF PermitInv, QueueConsistent

IInv == TypeOK /\ PermitInv /\ CacheInv

\* The steps that leave every refresh alone.
Bystander == \/ \E f \in Fetchers : \/ Acquire(f) \/ AcquireFails(f) \/ Release(f)
                                   \/ Tick(f) \/ Return(f)
             \/ Cancel \/ UNCHANGED vars

LEMMA BystanderFrame ==
  ASSUME IInv, Bystander
  PROVE  /\ UNCHANGED refreshVars
         /\ \A g \in Fetchers : /\ pc'[g] = "receive" <=> pc[g] = "receive"
                                /\ pc'[g] = "delete" <=> pc[g] = "delete"
<1>1. pc \in [Fetchers -> Phases] /\ TypeOK /\ PermitInv
  BY DEF IInv, TypeOK
<1>2. UNCHANGED refreshVars
  <2>1. CASE \E f \in Fetchers : \/ Acquire(f) \/ AcquireFails(f) \/ Release(f)
                                 \/ Tick(f) \/ Return(f)
    BY <2>1 DEF Acquire, AcquireFails, Release, Tick, Return
  <2>2. CASE Cancel \/ UNCHANGED vars
    BY <2>2 DEF Cancel, vars, refreshVars
  <2> QED
    BY <2>1, <2>2 DEF Bystander
<1>3. ASSUME NEW f \in Fetchers, Acquire(f) \/ AcquireFails(f) \/ Tick(f) \/ Return(f),
             NEW g \in Fetchers
      PROVE  /\ pc'[g] = "receive" <=> pc[g] = "receive"
             /\ pc'[g] = "delete" <=> pc[g] = "delete"
  <2>1. /\ pc[f] \in {"acquire", "queued", "select"}
        /\ \E p \in {"deprecate", "queued", "stopped", "acquire"} : pc' = [pc EXCEPT ![f] = p]
    BY <1>3 DEF Acquire, AcquireFails, Tick, Return
  <2> QED
    BY <1>1, <2>1
<1>4. ASSUME NEW f \in Fetchers, Release(f), NEW g \in Fetchers
      PROVE  /\ pc'[g] = "receive" <=> pc[g] = "receive"
             /\ pc'[g] = "delete" <=> pc[g] = "delete"
  <2>1. pc[f] = "release"
    BY <1>4 DEF Release
  <2>2. CASE pc' = [pc EXCEPT ![f] = "select"]
    BY <1>1, <2>1, <2>2
  <2>3. CASE waiters # <<>> /\ pc' = [pc EXCEPT ![f] = "select", ![Head(waiters)] = "deprecate"]
    <3>1. Head(waiters) \in Fetchers /\ pc[Head(waiters)] = "queued"
      BY <1>1, <2>3, HeadIsQueued
    <3> QED
      BY <1>1, <2>1, <2>3, <3>1
  <2> QED
    BY <1>4, <2>2, <2>3 DEF Release
<1>5. CASE Cancel \/ UNCHANGED vars
  BY <1>5 DEF Cancel, vars, refreshVars
<1>6. CASE \E f \in Fetchers : Release(f)
  <2>1. \A g \in Fetchers : /\ pc'[g] = "receive" <=> pc[g] = "receive"
                            /\ pc'[g] = "delete" <=> pc[g] = "delete"
    BY <1>4, <1>6
  <2> QED
    BY <1>2, <2>1
<1>7. CASE \E f \in Fetchers : Acquire(f) \/ AcquireFails(f) \/ Tick(f) \/ Return(f)
  <2>1. \A g \in Fetchers : /\ pc'[g] = "receive" <=> pc[g] = "receive"
                            /\ pc'[g] = "delete" <=> pc[g] = "delete"
    BY <1>3, <1>7
  <2> QED
    BY <1>2, <2>1
<1> QED
  BY <1>2, <1>5, <1>6, <1>7 DEF Bystander

LEMMA CacheStep == IInv /\ [Next]_vars => CacheInv'
<1> SUFFICES ASSUME IInv, [Next]_vars, NEW g \in Fetchers
             PROVE  RefreshInv(g)'
  BY DEF CacheInv
<1>1. RefreshInv(g) /\ TypeOK
  BY DEF IInv, CacheInv
<1>2. CASE Bystander
  BY <1>1, <1>2, BystanderFrame, RefreshFrame DEF refreshVars
<1>3. ASSUME NEW f \in Fetchers, f # g,
             \/ DeprecateAll(f) \/ CloseChan(f) \/ Receive(f) \/ MergeChunk(f)
             \/ MergeRest(f) \/ DeleteDeprecated(f) \/ \E m \in Metric : Send(f, m)
      PROVE  RefreshInv(g)'
  <2>1. /\ metrics'[g] = metrics[g] /\ chan'[g] = chan[g] /\ closed'[g] = closed[g]
        /\ cache'[g] = cache[g] /\ reported'[g] = reported[g] /\ pc'[g] = pc[g]
    BY <1>1, <1>3 DEF TypeOK, DeprecateAll, CloseChan, Receive, MergeChunk, MergeRest,
                      DeleteDeprecated, Send
  <2> QED
    BY <1>1, <2>1, RefreshFrame
<1>4. CASE CloseChan(g)
  <2>1. pc[g] = "receive" /\ UNCHANGED <<pc, metrics, chan, cache, reported>>
    BY <1>1, <1>4 DEF CloseChan, RefreshInv
  <2> QED
    BY <1>1, <2>1 DEF RefreshInv, Live
<1>5. CASE DeprecateAll(g)
  BY <1>1, <1>5, DeprecateAllKeepsCache
<1>6. CASE Receive(g)
  BY <1>1, <1>6, ReceiveKeepsCache
<1>7. CASE MergeChunk(g) \/ MergeRest(g)
  BY <1>1, <1>7, MergeKeepsCache
<1>8. CASE DeleteDeprecated(g)
  BY <1>1, <1>8, DeleteKeepsCache
<1>9. CASE \E m \in Metric : Send(g, m)
  BY <1>1, <1>9, SendKeepsCache
<1> QED
  BY <1>2, <1>3, <1>4, <1>5, <1>6, <1>7, <1>8, <1>9 DEF Next, Worker, Stopped, Bystander

LEMMA IInvInductive == (Init => IInv) /\ (IInv /\ [Next]_vars => IInv')
<1>1. Init => IInv
  BY TypeInitially, PermitInitially, CacheInitially DEF IInv
<1>2. IInv /\ [Next]_vars => IInv'
  BY TypeStep, PermitStep, CacheStep DEF IInv
<1> QED
  BY <1>1, <1>2

\* Between refreshes the cache is exactly what the last refresh reported: no
\* metric is lost between channel, chunk and map, and none outlives the refresh
\* after the one that reported it, for every chunk size and channel capacity.
THEOREM CacheCorrect == SafetySpec => []CacheIsLastScrape
<1>1. IInv => CacheIsLastScrape
  <2> SUFFICES ASSUME IInv, NEW f \in Fetchers, pc[f] \notin {"receive", "delete"},
                      NEW n \in Names
               PROVE  IF Served(metrics[f])[n] = Absent
                      THEN \A m \in reported[f] : m.name # n
                      ELSE [name |-> n, value |-> Served(metrics[f])[n]] \in reported[f]
    BY DEF CacheIsLastScrape
  <2>1. RefreshInv(f) /\ metrics[f] \in [Names -> Entry \cup {Absent}]
    BY DEF IInv, CacheInv, TypeOK
  <2>2. CASE metrics[f][n] = Absent
    <3>1. Served(metrics[f])[n] = Absent
      BY <2>2 DEF Served
    <3>2. ASSUME NEW m \in reported[f] PROVE m.name # n
      <4>1. ~Occurs(cache[f], n) /\ ~Occurs(chan[f], n)
        BY <2>1 DEF RefreshInv, Occurs
      <4> QED
        BY <2>1, <2>2, <4>1 DEF RefreshInv, Live
    <3> QED
      BY <3>1, <3>2
  <2>3. CASE metrics[f][n] # Absent
    <3>1. Served(metrics[f])[n] = metrics[f][n].value /\ metrics[f][n] \in Entry
      BY <2>1, <2>3 DEF Served
    <3>2. Served(metrics[f])[n] # Absent
      BY <3>1, AbsentAssumption DEF Entry
    <3>3. [name |-> n, value |-> metrics[f][n].value] \in reported[f]
      BY <2>1, <2>3 DEF RefreshInv
    <3> QED
      BY <3>1, <3>2, <3>3
  <2> QED
    BY <2>2, <2>3
<1> QED
  BY <1>1, IInvInductive, PTL DEF SafetySpec

\* A refresh opens no gap: only its last step removes metrics, and only those
\* it did not report.
THEOREM NoGapCorrect == SafetySpec => NoGap
<1>1. ASSUME IInv, [Next]_vars, NEW f \in Fetchers, NEW n \in Names,
             metrics[f][n] # Absent, metrics'[f][n] = Absent
      PROVE  pc[f] = "delete" /\ \A m \in reported[f] : m.name # n
  <2>1. /\ metrics \in [Fetchers -> [Names -> Entry \cup {Absent}]]
        /\ cache \in [Fetchers -> Seq(Metric)] /\ RefreshInv(f)
    BY <1>1 DEF IInv, TypeOK, CacheInv
  <2>2. metrics' # metrics
    BY <1>1
  <2>3. PICK g \in Fetchers : \/ DeprecateAll(g) \/ MergeChunk(g) \/ MergeRest(g)
                             \/ DeleteDeprecated(g)
    <3>1. ~Bystander
      BY <1>1, <2>2, BystanderFrame DEF refreshVars
    <3>2. ASSUME NEW g \in Fetchers, Receive(g) \/ CloseChan(g) \/ \E m \in Metric : Send(g, m)
          PROVE  FALSE
      BY <2>2, <3>2 DEF Receive, CloseChan, Send
    <3> QED
      BY <1>1, <3>1, <3>2 DEF Next, Worker, Stopped, Bystander
  <2>4. g = f
    BY <1>1, <2>1, <2>3 DEF DeprecateAll, MergeChunk, MergeRest, DeleteDeprecated
  <2>5. ~DeprecateAll(f)
    <3> SUFFICES ASSUME DeprecateAll(f) PROVE FALSE
      OBVIOUS
    <3>1. metrics'[f][n] = [metrics[f][n] EXCEPT !.deprecated = TRUE]
      BY <1>1, <2>1 DEF DeprecateAll
    <3>2. metrics[f][n] \in Entry
      BY <1>1, <2>1
    <3> QED
      BY <1>1, <3>1, <3>2, DeprecatedType, AbsentAssumption
  <2>6. ~(MergeChunk(f) \/ MergeRest(f))
    <3> SUFFICES ASSUME MergeChunk(f) \/ MergeRest(f) PROVE FALSE
      OBVIOUS
    <3>1. metrics'[f] = Stored(metrics[f], cache[f])
      BY <2>1 DEF MergeChunk, MergeRest
    <3>2. metrics[f] \in [Names -> Entry \cup {Absent}] /\ cache[f] \in Seq(Metric)
      BY <2>1
    <3> QED
      BY <1>1, <3>1, <3>2, StoredProperties DEF Live
  <2>7. DeleteDeprecated(f)
    BY <2>3, <2>4, <2>5, <2>6
  <2>8. pc[f] = "delete" /\ ~Live(metrics[f], n)
    BY <1>1, <2>1, <2>7 DEF DeleteDeprecated, Live
  <2>9. ~Occurs(cache[f], n) /\ ~Occurs(chan[f], n)
    BY <2>1, <2>8 DEF RefreshInv, Occurs
  <2>10. \A m \in reported[f] : m.name # n
    BY <2>1, <2>8, <2>9 DEF RefreshInv
  <2> QED
    BY <2>8, <2>10
<1>2. IInv /\ [Next]_vars =>
        [\A f \in Fetchers, n \in Names :
           metrics[f][n] # Absent /\ metrics'[f][n] = Absent
             => /\ pc[f] = "delete"
                /\ \A m \in reported[f] : m.name # n]_vars
  BY <1>1
<1> QED
  BY <1>2, IInvInductive, PTL DEF SafetySpec, NoGap

-----------------------------------------------------------------------------
(***************************************************************************)
(* Refinement.  The abstract result is what the map, the chunk and the     *)
(* channel hold together, in that order; moving a metric from the channel  *)
(* to the chunk and merging the chunk leave it alone.                      *)
(***************************************************************************)
LEMMA LastIndexUnique ==
  ASSUME NEW s \in Seq(Metric), NEW n, NEW i \in DOMAIN s, s[i].name = n,
         \A j \in DOMAIN s : j > i => s[j].name # n
  PROVE  Occurs(s, n) /\ LastIndex(s, n) = i
<1>1. Occurs(s, n)
  BY DEF Occurs
<1>2. /\ LastIndex(s, n) \in DOMAIN s /\ s[LastIndex(s, n)].name = n
      /\ \A j \in DOMAIN s : j > LastIndex(s, n) => s[j].name # n
  BY <1>1, LastIndexProperties
<1>3. DOMAIN s = 1..Len(s) /\ Len(s) \in Nat
  OBVIOUS
<1> QED
  BY <1>1, <1>2, <1>3

\* Merging s and then t is merging their concatenation.
LEMMA StoredConcat ==
  ASSUME NEW m, NEW s \in Seq(Metric), NEW t \in Seq(Metric)
  PROVE  Stored(Stored(m, s), t) = Stored(m, s \o t)
<1>1. /\ s \o t \in Seq(Metric) /\ Len(s) \in Nat /\ Len(t) \in Nat
      /\ DOMAIN s = 1..Len(s) /\ DOMAIN t = 1..Len(t)
      /\ DOMAIN (s \o t) = 1..(Len(s) + Len(t))
      /\ \A i \in DOMAIN s : (s \o t)[i] = s[i]
      /\ \A i \in DOMAIN t : (s \o t)[Len(s) + i] = t[i]
  BY ConcatProperties
<1>2. ASSUME NEW n \in Names
      PROVE  Stored(Stored(m, s), t)[n] = Stored(m, s \o t)[n]
  <2>1. CASE Occurs(t, n)
    <3> DEFINE k == LastIndex(t, n)
    <3>1. k \in DOMAIN t /\ t[k].name = n /\ \A j \in DOMAIN t : j > k => t[j].name # n
      BY <2>1, LastIndexProperties
    <3> HIDE DEF k
    <3>2. Len(s) + k \in DOMAIN (s \o t) /\ (s \o t)[Len(s) + k] = t[k]
      BY <1>1, <3>1
    <3>3. ASSUME NEW j \in DOMAIN (s \o t), j > Len(s) + k PROVE (s \o t)[j].name # n
      <4>1. j - Len(s) \in DOMAIN t /\ j - Len(s) > k /\ (s \o t)[j] = t[j - Len(s)]
        <5>1. j - Len(s) \in DOMAIN t /\ j - Len(s) > k /\ j = Len(s) + (j - Len(s))
          BY <1>1, <3>1, <3>3
        <5> QED
          BY <1>1, <5>1
      <4> QED
        BY <3>1, <4>1
    <3>4. Occurs(s \o t, n) /\ LastIndex(s \o t, n) = Len(s) + k
      BY <1>1, <3>1, <3>2, <3>3, LastIndexUnique
    <3>5. Stored(m, s \o t)[n] = [value |-> t[k].value, deprecated |-> FALSE]
      BY <3>2, <3>4 DEF Stored
    <3>6. Stored(Stored(m, s), t)[n] = [value |-> t[k].value, deprecated |-> FALSE]
      BY <2>1 DEF Stored, k
    <3> QED
      BY <3>5, <3>6
  <2>2. CASE ~Occurs(t, n) /\ Occurs(s, n)
    <3> DEFINE k == LastIndex(s, n)
    <3>1. k \in DOMAIN s /\ s[k].name = n /\ \A j \in DOMAIN s : j > k => s[j].name # n
      BY <2>2, LastIndexProperties
    <3> HIDE DEF k
    <3>2. k \in DOMAIN (s \o t) /\ (s \o t)[k] = s[k]
      BY <1>1, <3>1
    <3>3. ASSUME NEW j \in DOMAIN (s \o t), j > k PROVE (s \o t)[j].name # n
      <4>1. CASE j \in DOMAIN s
        BY <1>1, <3>1, <3>3, <4>1
      <4>2. CASE j \notin DOMAIN s
        <5>1. j - Len(s) \in DOMAIN t /\ j = Len(s) + (j - Len(s))
          BY <1>1, <3>3, <4>2
        <5>2. (s \o t)[j] = t[j - Len(s)]
          BY <1>1, <5>1
        <5> QED
          BY <2>2, <5>1, <5>2 DEF Occurs
      <4> QED
        BY <4>1, <4>2
    <3>4. Occurs(s \o t, n) /\ LastIndex(s \o t, n) = k
      BY <1>1, <3>1, <3>2, <3>3, LastIndexUnique
    <3>5. Stored(m, s \o t)[n] = [value |-> s[k].value, deprecated |-> FALSE]
      BY <3>2, <3>4 DEF Stored
    <3>6. Stored(Stored(m, s), t)[n] = [value |-> s[k].value, deprecated |-> FALSE]
      BY <2>2 DEF Stored, k
    <3> QED
      BY <3>5, <3>6
  <2>3. CASE ~Occurs(t, n) /\ ~Occurs(s, n)
    <3>1. ASSUME NEW j \in DOMAIN (s \o t) PROVE (s \o t)[j].name # n
      <4>1. CASE j \in DOMAIN s
        BY <1>1, <2>3, <4>1 DEF Occurs
      <4>2. CASE j \notin DOMAIN s
        <5>1. j - Len(s) \in DOMAIN t /\ j = Len(s) + (j - Len(s))
          BY <1>1, <3>1, <4>2
        <5>2. (s \o t)[j] = t[j - Len(s)]
          BY <1>1, <5>1
        <5> QED
          BY <2>3, <5>1, <5>2 DEF Occurs
      <4> QED
        BY <4>1, <4>2
    <3>2. ~Occurs(s \o t, n)
      BY <3>1 DEF Occurs
    <3> QED
      BY <2>3, <3>2 DEF Stored
  <2> QED
    BY <2>1, <2>2, <2>3
<1> QED
  BY <1>2 DEF Stored

LEMMA StoredAppend ==
  ASSUME NEW m \in [Names -> Entry \cup {Absent}], NEW s \in Seq(Metric), NEW x \in Metric
  PROVE  \A n \in Names : Stored(m, Append(s, x))[n] =
           IF n = x.name THEN [value |-> x.value, deprecated |-> FALSE] ELSE Stored(m, s)[n]
<1> DEFINE t == <<x>>
<1>1. t \in Seq(Metric) /\ DOMAIN t = {1} /\ t[1] = x
  OBVIOUS
<1> HIDE DEF t
<1>2. Append(s, x) = s \o t
  BY DEF t
<1>3. Stored(m, Append(s, x)) = Stored(Stored(m, s), t)
  BY <1>1, <1>2, StoredConcat
<1>4. ASSUME NEW n \in Names, n = x.name
      PROVE  Stored(Stored(m, s), t)[n] = [value |-> x.value, deprecated |-> FALSE]
  <2>1. Occurs(t, n) /\ LastIndex(t, n) = 1
    BY <1>1, <1>4, LastIndexUnique
  <2> QED
    BY <1>1, <2>1 DEF Stored
<1>5. ASSUME NEW n \in Names, n # x.name
      PROVE  Stored(Stored(m, s), t)[n] = Stored(m, s)[n]
  BY <1>1, <1>5 DEF Stored, Occurs
<1> QED
  BY <1>3, <1>4, <1>5

LEMMA StoredEmpty ==
  ASSUME NEW m \in [Names -> Entry \cup {Absent}]
  PROVE  Stored(m, <<>>) = m
<1>1. \A n \in Names : ~Occurs(<<>>, n)
  BY DEF Occurs
<1> QED
  BY <1>1 DEF Stored

\* The part of a cache that the current refresh has written.
Fresh(m) == [n \in Names |-> IF m[n] = Absent THEN Absent
                             ELSE IF m[n].deprecated THEN Absent ELSE m[n].value]

LEMMA ResultIsFresh ==
  ASSUME NEW f \in Fetchers
  PROVE  Result(f) = Fresh(Stored(metrics[f], cache[f] \o chan[f]))
  BY DEF Result, Fresh

\* The mapped state of a refresh, and what a step leaves alone when it touches
\* neither the refresh variables nor the phases of the refresh.
absServed == [f \in Fetchers |-> Served(metrics[f])]
absResult == [f \in Fetchers |-> Result(f)]
absRefreshing == [f \in Fetchers |-> pc[f] \in {"receive", "delete"}]
absVars == <<absServed, absResult, reported, absRefreshing>>

LEMMA InitRefines == Init => Promise!Init
<1> SUFFICES ASSUME Init PROVE Promise!Init
  OBVIOUS
<1>1. ASSUME NEW f \in Fetchers
      PROVE  /\ Served(metrics[f]) = [n \in Names |-> Absent]
             /\ Result(f) = [n \in Names |-> Absent]
             /\ pc[f] \notin {"receive", "delete"}
  <2>1. /\ metrics[f] = [n \in Names |-> Absent] /\ chan[f] = <<>> /\ cache[f] = <<>>
        /\ pc[f] = "acquire"
    BY DEF Init
  <2>2. Stored(metrics[f], cache[f] \o chan[f]) = metrics[f]
    <3>1. cache[f] \o chan[f] = <<>>
      BY <2>1
    <3> QED
      BY <2>1, <3>1, StoredEmpty
  <2> QED
    BY <2>1, <2>2 DEF Served, Result
<1>2. reported = [f \in Fetchers |-> {}]
  BY DEF Init
<1>3. absServed = [f \in Fetchers |-> Promise!Nothing]
  BY <1>1 DEF absServed, Promise!Nothing
<1>4. absResult = [f \in Fetchers |-> Promise!Nothing]
  BY <1>1 DEF absResult, Promise!Nothing
<1>5. absRefreshing = [f \in Fetchers |-> FALSE]
  <2>1. \A f \in Fetchers : (pc[f] \in {"receive", "delete"}) = FALSE
    BY <1>1
  <2> QED
    BY <2>1 DEF absRefreshing
<1> QED
  BY <1>2, <1>3, <1>4, <1>5 DEF Promise!Init, absServed, absResult, absRefreshing

LEMMA BystanderRefines ==
  ASSUME IInv, Bystander
  PROVE  UNCHANGED absVars
<1>1. UNCHANGED <<metrics, chan, cache, reported>>
  BY BystanderFrame DEF refreshVars
<1>2. \A f \in Fetchers : (pc'[f] \in {"receive", "delete"}) = (pc[f] \in {"receive", "delete"})
  BY BystanderFrame
<1>3. absServed' = absServed /\ absRefreshing' = absRefreshing
  BY <1>1, <1>2 DEF absServed, absRefreshing
<1>4. absResult' = absResult
  BY <1>1 DEF absResult, Result
<1> QED
  BY <1>1, <1>3, <1>4 DEF absVars

LEMMA CloseRefines ==
  ASSUME NEW f \in Fetchers, CloseChan(f)
  PROVE  UNCHANGED absVars
  BY DEF CloseChan, absVars, absServed, absResult, absRefreshing, Result

LEMMA ReceiveRefines ==
  ASSUME TypeOK, NEW f \in Fetchers, Receive(f)
  PROVE  UNCHANGED absVars
<1>1. /\ chan \in [Fetchers -> Seq(Metric)] /\ cache \in [Fetchers -> Seq(Metric)]
      /\ UNCHANGED <<pc, metrics, reported>> /\ chan[f] # <<>>
      /\ cache' = [cache EXCEPT ![f] = Append(@, Head(chan[f]))]
      /\ chan' = [chan EXCEPT ![f] = Tail(@)]
  BY DEF TypeOK, Receive
<1>2. Append(cache[f], Head(chan[f])) \o Tail(chan[f]) = cache[f] \o chan[f]
  BY <1>1
<1>3. \A g \in Fetchers : cache'[g] \o chan'[g] = cache[g] \o chan[g]
  BY <1>1, <1>2
<1>4. absResult' = absResult
  BY <1>1, <1>3 DEF absResult, Result
<1>5. absServed' = absServed /\ absRefreshing' = absRefreshing
  BY <1>1 DEF absServed, absRefreshing
<1> QED
  BY <1>1, <1>4, <1>5 DEF absVars

LEMMA BeginRefines ==
  ASSUME IInv, NEW f \in Fetchers, DeprecateAll(f)
  PROVE  Promise!Begin(f)
<1>1. /\ metrics \in [Fetchers -> [Names -> Entry \cup {Absent}]]
      /\ pc \in [Fetchers -> Phases] /\ reported \in [Fetchers -> SUBSET Metric]
      /\ chan \in [Fetchers -> Seq(Metric)] /\ cache \in [Fetchers -> Seq(Metric)]
  BY DEF IInv, TypeOK
<1>2. /\ pc[f] = "deprecate" /\ pc' = [pc EXCEPT ![f] = "receive"]
      /\ chan' = [chan EXCEPT ![f] = <<>>] /\ cache' = [cache EXCEPT ![f] = <<>>]
      /\ reported' = [reported EXCEPT ![f] = {}]
      /\ \A g \in Fetchers : g # f => metrics'[g] = metrics[g]
      /\ metrics'[f] = [n \in Names |-> IF metrics[f][n] = Absent THEN Absent
                                       ELSE [metrics[f][n] EXCEPT !.deprecated = TRUE]]
  BY <1>1 DEF DeprecateAll
<1>3. Served(metrics'[f]) = Served(metrics[f])
  <2>1. ASSUME NEW n \in Names, metrics[f][n] # Absent
        PROVE  metrics'[f][n] # Absent /\ metrics'[f][n].value = metrics[f][n].value
    <3>1. metrics[f][n] \in Entry
      BY <1>1, <2>1
    <3>2. metrics'[f][n] = [metrics[f][n] EXCEPT !.deprecated = TRUE]
      BY <1>2, <2>1
    <3> QED
      BY <3>1, <3>2, DeprecatedType, AbsentAssumption
  <2> QED
    BY <1>2, <2>1 DEF Served
<1>4. Result(f)' = [n \in Names |-> Absent]
  <2>1. metrics'[f] \in [Names -> Entry \cup {Absent}]
    BY <1>1, <1>2, DeprecatedType
  <2>2. cache'[f] \o chan'[f] = <<>>
    BY <1>1, <1>2
  <2>3. Stored(metrics'[f], cache'[f] \o chan'[f]) = metrics'[f]
    BY <2>1, <2>2, StoredEmpty
  <2>4. \A n \in Names : metrics'[f][n] # Absent => metrics'[f][n].deprecated
    BY <1>1, <1>2, DeprecatedType
  <2> QED
    BY <2>3, <2>4 DEF Result
<1>5. \A g \in Fetchers : g # f => Result(g)' = Result(g)
  BY <1>1, <1>2 DEF Result
<1>6. absServed' = absServed
  BY <1>2, <1>3 DEF absServed
<1>7. absResult' = [absResult EXCEPT ![f] = [n \in Names |-> Absent]]
  BY <1>4, <1>5 DEF absResult
<1>8. ~absRefreshing[f] /\ absRefreshing' = [absRefreshing EXCEPT ![f] = TRUE]
  BY <1>1, <1>2 DEF absRefreshing
<1> QED
  BY <1>2, <1>6, <1>7, <1>8
  DEF Promise!Begin, Promise!Nothing, absServed, absResult, absRefreshing

LEMMA ReportRefines ==
  ASSUME IInv, NEW f \in Fetchers, NEW x \in Metric, Send(f, x)
  PROVE  Promise!Report(f, x)
<1>1. /\ metrics \in [Fetchers -> [Names -> Entry \cup {Absent}]]
      /\ pc \in [Fetchers -> Phases] /\ reported \in [Fetchers -> SUBSET Metric]
      /\ chan \in [Fetchers -> Seq(Metric)] /\ cache \in [Fetchers -> Seq(Metric)]
      /\ RefreshInv(f)
  BY DEF IInv, TypeOK, CacheInv
<1>2. /\ chan' = [chan EXCEPT ![f] = Append(@, x)]
      /\ reported' = [reported EXCEPT ![f] = @ \cup {x}]
      /\ UNCHANGED <<pc, metrics, cache>> /\ ~closed[f]
  BY DEF Send
<1>3. pc[f] = "receive"
  BY <1>1, <1>2 DEF RefreshInv
<1> DEFINE old == cache[f] \o chan[f]
<1>4. old \in Seq(Metric) /\ cache'[f] \o chan'[f] = Append(old, x)
  BY <1>1, <1>2
<1> HIDE DEF old
<1>5. \A n \in Names : Stored(metrics[f], Append(old, x))[n] =
        IF n = x.name THEN [value |-> x.value, deprecated |-> FALSE]
                      ELSE Stored(metrics[f], old)[n]
  <2>1. metrics[f] \in [Names -> Entry \cup {Absent}]
    BY <1>1
  <2> QED
    BY <1>4, <2>1, StoredAppend
<1>6. [value |-> x.value, deprecated |-> FALSE] # Absent
  <2>1. [value |-> x.value, deprecated |-> FALSE] \in Entry
    BY DEF Metric, Entry
  <2> QED
    BY <2>1, AbsentAssumption
<1>7. Result(f)' = [Result(f) EXCEPT ![x.name] = x.value]
  <2>1. Result(f)' = Fresh(Stored(metrics[f], Append(old, x)))
    <3>1. Stored(metrics'[f], cache'[f] \o chan'[f]) = Stored(metrics[f], Append(old, x))
      BY <1>2, <1>4
    <3> QED
      BY <3>1 DEF Result, Fresh
  <2>2. Result(f) = Fresh(Stored(metrics[f], old))
    BY ResultIsFresh DEF old
  <2>3. \A n \in Names : Fresh(Stored(metrics[f], Append(old, x)))[n] =
          IF n = x.name THEN x.value ELSE Fresh(Stored(metrics[f], old))[n]
    BY <1>5, <1>6 DEF Fresh
  <2> QED
    BY <2>1, <2>2, <2>3 DEF Fresh
<1>8. \A g \in Fetchers : g # f => Result(g)' = Result(g)
  BY <1>1, <1>2 DEF Result
<1>9. absResult' = [absResult EXCEPT ![f][x.name] = x.value]
  BY <1>7, <1>8 DEF absResult
<1>10. absServed' = absServed /\ absRefreshing' = absRefreshing /\ absRefreshing[f]
  BY <1>2, <1>3 DEF absServed, absRefreshing
<1> QED
  BY <1>2, <1>9, <1>10 DEF Promise!Report, absServed, absResult, absRefreshing

LEMMA PublishRefines ==
  ASSUME IInv, NEW f \in Fetchers, MergeChunk(f) \/ MergeRest(f)
  PROVE  Promise!Publish(f)
<1>1. /\ metrics \in [Fetchers -> [Names -> Entry \cup {Absent}]]
      /\ pc \in [Fetchers -> Phases] /\ chan \in [Fetchers -> Seq(Metric)]
      /\ cache \in [Fetchers -> Seq(Metric)] /\ RefreshInv(f)
      /\ reported \in [Fetchers -> SUBSET Metric]
  BY DEF IInv, TypeOK, CacheInv
<1>2. /\ metrics' = [metrics EXCEPT ![f] = Stored(@, cache[f])]
      /\ cache' = [cache EXCEPT ![f] = <<>>] /\ UNCHANGED <<chan, reported>>
      /\ pc[f] = "receive"
  BY DEF MergeChunk, MergeRest
<1>3. pc' = pc \/ pc' = [pc EXCEPT ![f] = "delete"]
  BY DEF MergeChunk, MergeRest
<1>4. metrics[f] \in [Names -> Entry \cup {Absent}] /\ cache[f] \in Seq(Metric)
      /\ chan[f] \in Seq(Metric)
  BY <1>1
<1>5. Stored(metrics[f], cache[f]) \in [Names -> Entry \cup {Absent}]
  BY <1>4, StoredType
<1> DEFINE shown == Served(Stored(metrics[f], cache[f]))
<1>6. shown \in [Names -> Values \cup {Absent}]
  BY <1>5 DEF Served, Entry
<1>7. ASSUME NEW n \in Names
      PROVE  \/ shown[n] = Served(metrics[f])[n]
             \/ [name |-> n, value |-> shown[n]] \in reported[f]
  <2>1. CASE Occurs(cache[f], n)
    <3>1. PICK i \in DOMAIN cache[f] :
            cache[f][i] = [name |-> n, value |-> Stored(metrics[f], cache[f])[n].value]
      BY <1>4, <2>1, StoredProperties
    <3>2. Stored(metrics[f], cache[f])[n] # Absent
      BY <1>4, <2>1, StoredProperties DEF Live
    <3>3. shown[n] = Stored(metrics[f], cache[f])[n].value
      BY <3>2 DEF Served
    <3> QED
      BY <1>1, <3>1, <3>3 DEF RefreshInv
  <2>2. CASE ~Occurs(cache[f], n)
    <3>1. Stored(metrics[f], cache[f])[n] = metrics[f][n]
      BY <1>4, <2>2, StoredProperties
    <3> QED
      BY <3>1 DEF Served
  <2> QED
    BY <2>1, <2>2
<1> HIDE DEF shown
<1>8. absServed' = [absServed EXCEPT ![f] = shown]
  BY <1>1, <1>2 DEF absServed, shown
<1>9. absResult' = absResult
  <2>1. Stored(metrics'[f], cache'[f] \o chan'[f]) = Stored(metrics[f], cache[f] \o chan[f])
    <3>1. cache'[f] \o chan'[f] = chan[f] /\ metrics'[f] = Stored(metrics[f], cache[f])
      BY <1>1, <1>2
    <3> QED
      BY <1>4, <3>1, StoredConcat
  <2>2. Result(f)' = Result(f)
    BY <2>1 DEF Result
  <2>3. \A g \in Fetchers : g # f => Result(g)' = Result(g)
    BY <1>1, <1>2 DEF Result
  <2> QED
    BY <2>2, <2>3 DEF absResult
<1>10. absRefreshing' = absRefreshing /\ absRefreshing[f]
  <2>1. \A g \in Fetchers : (pc'[g] \in {"receive", "delete"}) = (pc[g] \in {"receive", "delete"})
    BY <1>1, <1>2, <1>3
  <2> QED
    BY <1>2, <2>1 DEF absRefreshing
<1>11. \E v \in [Names -> Values \cup {Absent}] :
         /\ \A n \in Names : \/ v[n] = absServed[f][n]
                             \/ [name |-> n, value |-> v[n]] \in reported[f]
         /\ absServed' = [absServed EXCEPT ![f] = v]
  BY <1>6, <1>7, <1>8 DEF absServed
<1> QED
  BY <1>2, <1>9, <1>10, <1>11 DEF Promise!Publish, absServed, absResult, absRefreshing

LEMMA FinishRefines ==
  ASSUME IInv, NEW f \in Fetchers, DeleteDeprecated(f)
  PROVE  Promise!Finish(f)
<1>1. /\ metrics \in [Fetchers -> [Names -> Entry \cup {Absent}]]
      /\ pc \in [Fetchers -> Phases] /\ RefreshInv(f)
  BY DEF IInv, TypeOK, CacheInv
<1>2. /\ pc[f] = "delete" /\ pc' = [pc EXCEPT ![f] = "release"]
      /\ UNCHANGED <<chan, cache, reported>>
      /\ \A g \in Fetchers : g # f => metrics'[g] = metrics[g]
      /\ metrics'[f] = [n \in Names |-> IF metrics[f][n] = Absent THEN Absent
                                       ELSE IF metrics[f][n].deprecated THEN Absent
                                       ELSE metrics[f][n]]
  BY <1>1 DEF DeleteDeprecated
<1>3. cache[f] \o chan[f] = <<>>
  BY <1>1, <1>2 DEF RefreshInv
<1>4. metrics[f] \in [Names -> Entry \cup {Absent}]
      /\ metrics'[f] \in [Names -> Entry \cup {Absent}]
  BY <1>1, <1>2
<1>5. Result(f) = Fresh(metrics[f])
  BY <1>3, <1>4, StoredEmpty, ResultIsFresh
<1>6. Served(metrics'[f]) = Fresh(metrics[f])
  BY <1>2 DEF Served, Fresh
<1>7. Result(f)' = Fresh(metrics'[f])
  <2>1. Stored(metrics'[f], cache'[f] \o chan'[f]) = metrics'[f]
    BY <1>2, <1>3, <1>4, StoredEmpty
  <2> QED
    BY <2>1 DEF Result, Fresh
<1>8. Fresh(metrics'[f]) = Fresh(metrics[f])
  BY <1>2 DEF Fresh
<1>9. absServed' = [absServed EXCEPT ![f] = absResult[f]]
  BY <1>2, <1>5, <1>6 DEF absServed, absResult
<1>10. absResult' = absResult
  <2>1. \A g \in Fetchers : g # f => Result(g)' = Result(g)
    BY <1>2 DEF Result
  <2> QED
    BY <1>5, <1>7, <1>8, <2>1 DEF absResult
<1>11. absRefreshing[f] /\ absRefreshing' = [absRefreshing EXCEPT ![f] = FALSE]
  <2>1. pc[f] \in {"receive", "delete"} /\ (pc'[f] \in {"receive", "delete"}) = FALSE
    BY <1>1, <1>2
  <2>2. \A g \in Fetchers : g # f => pc'[g] = pc[g]
    BY <1>1, <1>2
  <2>3. \A g \in Fetchers : g # f => absRefreshing'[g] = absRefreshing[g]
    BY <2>2 DEF absRefreshing
  <2>4. absRefreshing'[f] = FALSE
    BY <2>1 DEF absRefreshing
  <2>5. absRefreshing[f]
    BY <2>1 DEF absRefreshing
  <2> QED
    BY <2>3, <2>4, <2>5 DEF absRefreshing
<1> QED
  BY <1>2, <1>9, <1>10, <1>11 DEF Promise!Finish, absServed, absResult, absRefreshing

\* The detailed specification implements the promise of PrefetchCache: every
\* step of a worker or a scraping goroutine is a step of the promise or changes
\* nothing that a scrape of the endpoint could see.
THEOREM Refinement == SafetySpec => ImplementsPrefetchCache
<1>1. Init => Promise!Init
  BY InitRefines
<1>2. ASSUME IInv, [Next]_vars
      PROVE  [Promise!Next]_(Promise!vars)
  <2>1. ASSUME UNCHANGED absVars PROVE UNCHANGED Promise!vars
    BY <2>1 DEF absVars, absServed, absResult, absRefreshing, Promise!vars
  <2>2. CASE Bystander
    BY <1>2, <2>1, <2>2, BystanderRefines
  <2>3. CASE \E f \in Fetchers : CloseChan(f)
    BY <2>1, <2>3, CloseRefines
  <2>4. CASE \E f \in Fetchers : Receive(f)
    BY <1>2, <2>1, <2>4, ReceiveRefines DEF IInv
  <2>5. CASE \E f \in Fetchers : DeprecateAll(f)
    BY <1>2, <2>5, BeginRefines DEF Promise!Next
  <2>6. CASE \E f \in Fetchers : \E m \in Metric : Send(f, m)
    <3>1. Promise!Metric = Metric
      BY DEF Promise!Metric, Metric
    <3> QED
      BY <1>2, <2>6, <3>1, ReportRefines DEF Promise!Next
  <2>7. CASE \E f \in Fetchers : MergeChunk(f) \/ MergeRest(f)
    BY <1>2, <2>7, PublishRefines DEF Promise!Next
  <2>8. CASE \E f \in Fetchers : DeleteDeprecated(f)
    BY <1>2, <2>8, FinishRefines DEF Promise!Next
  <2> QED
    BY <1>2, <2>2, <2>3, <2>4, <2>5, <2>6, <2>7, <2>8
    DEF Next, Worker, Stopped, Bystander
<1> QED
  BY <1>1, <1>2, IInvInductive, PTL DEF SafetySpec, ImplementsPrefetchCache, Promise!Spec

-----------------------------------------------------------------------------
(***************************************************************************)
(* The workers' semaphore implements Semaphore.                            *)
(***************************************************************************)
semaphoreVars == <<Holders, waiters, ctxDone>>

LEMMA SemaphoreInitially == Init => Permits!Init
BY DEF Init, Permits!Init, Holders, Holding

\* Who waits, in the terms of both.
LEMMA WaitingAreQueued ==
  ASSUME PermitInv, NEW f \in Fetchers
  PROVE  f \in Permits!Waiting <=> pc[f] = "queued"
BY DEF PermitInv, QueueConsistent, Permits!Waiting

LEMMA AcquireTakesTurn ==
  ASSUME TypeOK, PermitInv, NEW f \in Fetchers, Acquire(f)
  PROVE  Permits!Acquire(f)
<1>1. /\ pc \in [Fetchers -> Phases] /\ pc[f] = "acquire" /\ ~ctxDone /\ ctxDone' = ctxDone
  BY DEF TypeOK, Acquire
<1>2. f \notin Holders \cup Permits!Waiting
  BY <1>1, WaitingAreQueued DEF Holders, Holding
<1>3. PermitFree <=> Permits!Free
  <2>1. inUse = Cardinality(Holders)
    BY DEF PermitInv, PermitsAccounted
  <2> QED
    BY <2>1, Zenon DEF PermitFree, Permits!Free, Cardinality, Permits!Cardinality
<1>4. CASE PermitFree
  <2>1. pc' = [pc EXCEPT ![f] = "deprecate"] /\ waiters' = waiters
    BY <1>4 DEF Acquire
  <2>2. Holders' = Holders \cup {f}
    BY <1>1, <2>1 DEF Holders, Holding
  <2> QED
    BY <1>1, <1>2, <1>3, <1>4, <2>1, <2>2 DEF Permits!Acquire
<1>5. CASE ~PermitFree
  <2>1. pc' = [pc EXCEPT ![f] = "queued"] /\ waiters' = Append(waiters, f)
    BY <1>5 DEF Acquire
  <2>2. Holders' = Holders
    BY <1>1, <2>1 DEF Holders, Holding
  <2> QED
    BY <1>1, <1>2, <1>3, <1>5, <2>1, <2>2 DEF Permits!Acquire
<1> QED
  BY <1>4, <1>5

LEMMA AcquireFailsGivesUp ==
  ASSUME TypeOK, NEW f \in Fetchers, AcquireFails(f)
  PROVE  Permits!GiveUp(f) \/ UNCHANGED semaphoreVars
<1>1. /\ pc \in [Fetchers -> Phases] /\ pc[f] \in {"acquire", "queued"}
      /\ pc' = [pc EXCEPT ![f] = "stopped"] /\ ctxDone /\ ctxDone' = ctxDone
  BY DEF TypeOK, AcquireFails
<1>2. Holders' = Holders
  BY <1>1 DEF Holders, Holding
<1>3. CASE UNCHANGED waiters
  BY <1>1, <1>2, <1>3 DEF semaphoreVars
<1>4. CASE \E i \in DOMAIN waiters : waiters[i] = f /\ waiters' = Without(waiters, i)
  BY <1>1, <1>2, <1>4 DEF Permits!GiveUp, Without
<1> QED
  BY <1>3, <1>4 DEF AcquireFails

LEMMA ReleaseHandsOver ==
  ASSUME TypeOK, PermitInv, NEW f \in Fetchers, Release(f)
  PROVE  Permits!Release(f)
<1>1. /\ pc \in [Fetchers -> Phases] /\ pc[f] = "release" /\ f \in Holders /\ ctxDone' = ctxDone
  BY DEF TypeOK, Release, Holders, Holding
<1>2. CASE waiters = <<>> \/ ctxDone
  <2>1. pc' = [pc EXCEPT ![f] = "select"] /\ waiters' = waiters
    BY <1>2 DEF Release
  <2>2. Holders' = Holders \ {f}
    BY <1>1, <2>1 DEF Holders, Holding
  <2> QED
    BY <1>1, <1>2, <2>1, <2>2 DEF Permits!Release
<1>3. CASE ~(waiters = <<>> \/ ctxDone)
  <2> DEFINE g == Head(waiters)
  <2>1. pc' = [pc EXCEPT ![f] = "select", ![g] = "deprecate"] /\ waiters' = Tail(waiters)
    BY <1>3 DEF Release
  <2>2. g \in Fetchers /\ pc[g] = "queued"
    BY <1>3, HeadIsQueued
  <2> HIDE DEF g
  <2>3. g # f
    BY <1>1, <2>2
  <2>4. Holders' = (Holders \ {f}) \cup {g}
    BY <1>1, <2>1, <2>2, <2>3 DEF Holders, Holding
  <2> QED
    BY <1>1, <1>3, <2>1, <2>4 DEF Permits!Release, g
<1> QED
  BY <1>2, <1>3

\* Between Acquire and Release, and outside of them, a worker's steps move no
\* permit.
LEMMA OtherStepsMoveNone ==
  ASSUME TypeOK, NEW f \in Fetchers,
         \/ DeprecateAll(f) \/ Receive(f) \/ MergeChunk(f) \/ MergeRest(f)
         \/ DeleteDeprecated(f) \/ Tick(f) \/ Return(f) \/ CloseChan(f)
         \/ \E m \in Metric : Send(f, m)
  PROVE  UNCHANGED semaphoreVars
<1>1. pc \in [Fetchers -> Phases]
  BY DEF TypeOK
<1>2. waiters' = waiters /\ ctxDone' = ctxDone
  BY DEF DeprecateAll, Receive, MergeChunk, MergeRest, DeleteDeprecated, Tick, Return,
         CloseChan, Send, semVars
<1>3. \/ pc' = pc
      \/ \E p \in {"receive", "delete", "release"} : pc[f] \in Holding /\ pc' = [pc EXCEPT ![f] = p]
      \/ \E p \in {"acquire", "stopped"} : pc[f] = "select" /\ pc' = [pc EXCEPT ![f] = p]
  BY DEF DeprecateAll, Receive, MergeChunk, MergeRest, DeleteDeprecated, Tick, Return,
         CloseChan, Send, Holding
<1>4. \A g \in Fetchers : pc'[g] \in Holding <=> pc[g] \in Holding
  BY <1>1, <1>3 DEF Holding
<1> QED
  BY <1>2, <1>4 DEF semaphoreVars, Holders

LEMMA SemaphoreStep ==
  TypeOK /\ PermitInv /\ [Next]_vars => [Permits!Next]_semaphoreVars
<1> SUFFICES ASSUME TypeOK, PermitInv, [Next]_vars
             PROVE  [Permits!Next]_semaphoreVars
  OBVIOUS
<1>1. ASSUME NEW f \in Fetchers, Acquire(f) PROVE Permits!Next
  BY <1>1, AcquireTakesTurn DEF Permits!Next
<1>2. ASSUME NEW f \in Fetchers, AcquireFails(f) PROVE [Permits!Next]_semaphoreVars
  BY <1>2, AcquireFailsGivesUp DEF Permits!Next
<1>3. ASSUME NEW f \in Fetchers, Release(f) PROVE Permits!Next
  BY <1>3, ReleaseHandsOver DEF Permits!Next
<1>4. CASE Cancel
  <2>1. ~ctxDone /\ ctxDone' = TRUE /\ waiters' = waiters /\ Holders' = Holders
    BY <1>4 DEF Cancel, semVars, Holders
  <2> QED
    BY <2>1 DEF Permits!Next, Permits!Cancel
<1>5. CASE UNCHANGED vars
  BY <1>5 DEF vars, semVars, semaphoreVars, Holders
<1> QED
  BY <1>1, <1>2, <1>3, <1>4, <1>5, OtherStepsMoveNone DEF Next, Worker, Stopped

\* For any number of workers and permits, and through every cancellation, the
\* permits go round as golang.org/x/sync/semaphore promises (Acquire and Release
\* in asyncFetcher.go): first come, first served, a released permit straight to
\* the first that waits.
THEOREM SemaphoreRefinement == SafetySpec => ImplementsSemaphore
<1>1. Init => TypeOK /\ PermitInv
  BY TypeInitially, PermitInitially
<1>2. TypeOK /\ PermitInv /\ [Next]_vars => TypeOK' /\ PermitInv'
  BY TypeStep, PermitStep
<1>3. semaphoreVars = Permits!vars
  BY DEF semaphoreVars, Permits!vars
<1>4. TypeOK /\ PermitInv /\ [Next]_vars => [Permits!Next]_(Permits!vars)
  BY SemaphoreStep DEF semaphoreVars, Permits!vars
<1> QED
  BY <1>1, <1>2, <1>4, SemaphoreInitially, PTL DEF SafetySpec, ImplementsSemaphore, Permits!Spec

=============================================================================
