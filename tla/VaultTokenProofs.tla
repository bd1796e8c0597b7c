--------------------------- MODULE VaultTokenProofs ---------------------------
(***************************************************************************)
(* Proofs about VaultToken for any leases, delays and timeout.             *)
(***************************************************************************)
EXTENDS VaultToken, TLAPS

(***************************************************************************)
(* Delays.                                                                 *)
(***************************************************************************)
LEMMA ConstantsType ==
  /\ MaxLease \in Nat /\ CallTimeout \in Nat \ {0} /\ BaseDelay \in BaseDelay..MaxDelay
  /\ BaseDelay \in Nat /\ MaxDelay \in Nat /\ MinSlack \in Nat /\ Fallback \in Nat
  /\ \A l \in Leases : l \in 1..MaxLease
BY LeasesAssumption, DelaysAssumption, TimeoutAssumption

LEMMA JitterType ==
  ASSUME NEW d \in Nat
  PROVE  /\ Shortest(d) \in Nat /\ Longest(d) \in Nat
         /\ \A e \in Nat : d <= e => Longest(d) <= Longest(e)
BY DEF Shortest, Longest

LEMMA DoubledType ==
  ASSUME NEW d \in BaseDelay..MaxDelay
  PROVE  Doubled(d) \in BaseDelay..MaxDelay
BY ConstantsType DEF Doubled, Smaller

LEMMA HalfType ==
  ASSUME NEW l \in Nat
  PROVE  Half(l) \in Nat /\ \A k \in Nat : l <= k => Half(l) <= Half(k)
BY ConstantsType DEF Half, Larger

LEMMA LongestPauseType ==
  /\ LongestPause \in Nat
  /\ \A l \in 0..MaxLease : Half(l) \in 0..LongestPause
  /\ Half(Fallback) \in 0..LongestPause
  /\ \A d \in BaseDelay..MaxDelay : Longest(d) \in 0..LongestPause
<1> DEFINE a == Half(MaxLease)
           b == Half(Fallback)
           c == Longest(MaxDelay)
<1>1. a \in Nat /\ b \in Nat /\ c \in Nat
  BY ConstantsType, HalfType, JitterType
<1>2. LongestPause = Larger(Larger(a, b), c)
  BY DEF LongestPause
<1>3. /\ LongestPause \in Nat /\ a <= LongestPause
      /\ b <= LongestPause /\ c <= LongestPause
  <2> HIDE DEF a, b, c
  <2> QED
    BY <1>1, <1>2 DEF Larger
<1>4. ASSUME NEW l \in 0..MaxLease PROVE Half(l) \in Nat /\ Half(l) <= a
  <2>1. l \in Nat /\ l <= MaxLease
    BY ConstantsType
  <2> QED
    BY <2>1, ConstantsType, HalfType
<1>5. ASSUME NEW d \in BaseDelay..MaxDelay PROVE Longest(d) \in Nat /\ Longest(d) <= c
  <2>1. d \in Nat /\ d <= MaxDelay
    BY ConstantsType
  <2> QED
    BY <2>1, ConstantsType, JitterType
<1> HIDE DEF a, c
<1> QED
  BY <1>1, <1>3, <1>4, <1>5

(***************************************************************************)
(* Types.                                                                  *)
(***************************************************************************)
LEMMA StartType == /\ 0 \in 0..CallTimeout /\ 0 \in 0..LongestPause
                   /\ BaseDelay \in BaseDelay..MaxDelay
BY ConstantsType, LongestPauseType

LEMMA TypeInitially == Init => TypeOK
<1> SUFFICES ASSUME Init PROVE TypeOK
  OBVIOUS
<1>1. left \in 0..MaxLease
  <2>1. setup.lease \in 1..MaxLease
    BY ConstantsType DEF Init
  <2>2. left = 1 \/ left = setup.lease
    BY DEF Init
  <2> QED
    BY <2>1, <2>2, ConstantsType
<1>2. setup \in [source: {"env", "file", "none"}, renewable: BOOLEAN, lease: Leases]
  BY DEF Init
<1>3. file \in BOOLEAN
  BY DEF Init
<1> QED
  BY <1>1, <1>2, <1>3, StartType DEF Init, TypeOK

\* What a pause of length d leaves to show.
LEMMA SleepType ==
  ASSUME TypeOK, NEW d, Sleep(d), d \in 0..LongestPause, retryDelay' \in BaseDelay..MaxDelay,
         row' \in 0..3 \cup {None}, UNCHANGED <<setup, file, token, cancelled, left>>
  PROVE  TypeOK'
BY StartType DEF TypeOK, Sleep

LEMMA FailType == ASSUME TypeOK, Fail PROVE TypeOK'
<1>1. retryDelay \in BaseDelay..MaxDelay /\ retryDelay \in Nat
  BY ConstantsType DEF TypeOK
<1>2. retryDelay' \in BaseDelay..MaxDelay
  BY <1>1, DoubledType DEF Fail
<1>3. PICK d \in Shortest(retryDelay)..Longest(retryDelay) : Sleep(d)
  BY DEF Fail
<1>4. d \in 0..LongestPause
  <2>1. Shortest(retryDelay) \in Nat /\ Longest(retryDelay) \in 0..LongestPause
    BY <1>1, JitterType, LongestPauseType
  <2> QED
    BY <1>3, <2>1, LongestPauseType
<1>5. row' \in 0..3 \cup {None}
  BY NoneAssumption DEF Fail, TypeOK, Smaller
<1>6. UNCHANGED <<setup, file, token, cancelled, left>>
  BY DEF Fail
<1> QED
  BY <1>2, <1>3, <1>4, <1>5, <1>6, SleepType

LEMMA TypeStep == TypeOK /\ [Next]_vars => TypeOK'
<1> SUFFICES ASSUME TypeOK, [Next]_vars PROVE TypeOK'
  OBVIOUS
<1>1. CASE Start
  BY <1>1 DEF Start, TypeOK
<1>2. CASE LookUp
  BY <1>2, StartType DEF LookUp, Call, TypeOK
<1>3. CASE LookUpFails
  BY <1>3, StartType DEF LookUpFails, Call, TypeOK
<1>4. CASE Grant
  <2>1. setup.lease \in 0..MaxLease
    BY ConstantsType DEF TypeOK
  <2> QED
    BY <1>4, <2>1 DEF Grant, TypeOK
<1>5. CASE Succeed
  <2>1. PICK ttl \in {setup.lease, Fallback} : Sleep(Half(ttl))
    BY <1>5 DEF Succeed
  <2>2. setup.lease \in 0..MaxLease
    BY ConstantsType DEF TypeOK
  <2>3. Half(ttl) \in 0..LongestPause
    BY <2>1, <2>2, LongestPauseType
  <2>4. retryDelay' \in BaseDelay..MaxDelay /\ row' \in 0..3 \cup {None}
    BY <1>5, ConstantsType DEF Succeed
  <2> QED
    BY <1>5, <2>1, <2>3, <2>4, SleepType DEF Succeed
<1>6. CASE Fail
  BY <1>6, FailType
<1>7. CASE Wake
  BY <1>7, StartType DEF Wake, Call, TypeOK
<1>8. CASE End
  BY <1>8, StartType DEF End, TypeOK
<1>9. CASE Cancel
  BY <1>9 DEF Cancel, TypeOK
<1>10. CASE Crash
  BY <1>10, StartType DEF Crash, TypeOK
<1>11. CASE Tick
  <2>1. left' \in 0..MaxLease
    BY <1>11, ConstantsType DEF Tick, TypeOK, Less
  <2>2. callAge' \in 0..CallTimeout
    BY <1>11, ConstantsType DEF Tick, TypeOK
  <2>3. pause' \in 0..LongestPause
    BY <1>11, LongestPauseType DEF Tick, TypeOK
  <2> QED
    BY <1>11, <2>1, <2>2, <2>3 DEF Tick, TypeOK
<1>12. CASE UNCHANGED vars
  BY <1>12 DEF vars, memory, TypeOK
<1> QED
  BY <1>1, <1>2, <1>3, <1>4, <1>5, <1>6, <1>7, <1>8, <1>9, <1>10, <1>11, <1>12
     DEF Next, TimesOut

\* The state is well typed; in particular no delay exceeds its cap by more than
\* the jitter.
THEOREM TypeCorrect == SafetySpec => []TypeOK
<1> QED
  BY TypeInitially, TypeStep, PTL DEF SafetySpec

(***************************************************************************)
(* The token of the process.                                               *)
(***************************************************************************)
\* An exporter that runs has the token it was given, however often it crashed.
THEOREM TokenlessCorrect == SafetySpec => []NeverRunsTokenless
<1>1. Init => NeverRunsTokenless
  BY DEF Init, NeverRunsTokenless
<1>2. TypeOK /\ NeverRunsTokenless /\ [Next]_vars => NeverRunsTokenless'
  <2> SUFFICES ASSUME TypeOK, NeverRunsTokenless, [Next]_vars PROVE NeverRunsTokenless'
    OBVIOUS
  <2>1. CASE Start
    BY <2>1 DEF Start, TypeOK, NeverRunsTokenless
  <2>2. CASE LookUp \/ LookUpFails \/ Grant \/ Wake \/ End \/ Cancel \/ Crash \/ Tick
    BY <2>2 DEF LookUp, LookUpFails, Grant, Wake, End, Cancel, Crash, Tick, Call,
                NeverRunsTokenless
  <2>3. CASE Succeed \/ Fail
    BY <2>3 DEF Succeed, Fail, Sleep, NeverRunsTokenless
  <2>4. CASE UNCHANGED vars
    BY <2>4 DEF vars, memory, NeverRunsTokenless
  <2> QED
    BY <2>1, <2>2, <2>3, <2>4 DEF Next, TimesOut
<1> QED
  BY <1>1, <1>2, TypeCorrect, PTL DEF SafetySpec

(***************************************************************************)
(* The life of the token.                                                  *)
(***************************************************************************)
LEMMA CostType ==
  /\ \A n \in 0..2 : Cost(n) \in Nat
  /\ Cost(0) = 0
  /\ Cost(1) = CallTimeout + Longest(BaseDelay)
  /\ Cost(2) = Cost(1) + CallTimeout + Longest(Doubled(BaseDelay))
<1>1. Doubled(BaseDelay) \in Nat
  BY DoubledType, ConstantsType
<1>2. Longest(BaseDelay) \in Nat /\ Longest(Doubled(BaseDelay)) \in Nat
  BY <1>1, ConstantsType, JitterType
<1>3. /\ Cost(0) = 0 /\ Cost(1) = CallTimeout + Longest(BaseDelay)
      /\ Cost(2) = 2 * CallTimeout + Longest(BaseDelay) + Longest(Doubled(BaseDelay))
  BY DEF Cost
<1> QED
  BY <1>2, <1>3, ConstantsType

\* The calls of the current run have left the token at least this much.
Reserve == setup.lease - CallTimeout - LongestSleep

GrantInv == granted => phase = "renewing" /\ left >= setup.lease - callAge

BackoffInv == /\ row = 0 => retryDelay = BaseDelay
              /\ row = 1 => retryDelay = Doubled(BaseDelay)

RowInv == row # None => phase \in {"renewing", "pausing", "ended"}

LifeInv ==
  row \in 0..2 =>
    /\ phase = "pausing" => left >= Reserve - Cost(row) + pause
    /\ phase = "renewing" => left >= Reserve - Cost(row) - callAge

Inv == TypeOK /\ GrantInv /\ BackoffInv /\ RowInv /\ LifeInv

LEMMA ReserveType ==
  ASSUME TypeOK
  PROVE  /\ LongestSleep \in Nat /\ Reserve \in Int /\ setup.lease \in Nat
         /\ Reserve = setup.lease - CallTimeout - LongestSleep
         /\ Half(setup.lease) \in Nat /\ Half(setup.lease) <= LongestSleep
         /\ Half(Fallback) \in Nat /\ Half(Fallback) <= LongestSleep
<1>1. setup.lease \in Nat
  BY ConstantsType DEF TypeOK
<1>2. Half(setup.lease) \in Nat /\ Half(Fallback) \in Nat
  BY <1>1, ConstantsType, HalfType
<1>3. /\ LongestSleep \in Nat /\ Half(setup.lease) <= LongestSleep
      /\ Half(Fallback) <= LongestSleep
  BY <1>2 DEF LongestSleep, Larger
<1> QED
  BY <1>1, <1>2, <1>3, ConstantsType DEF Reserve

LEMMA Initially == Init => Inv
BY TypeInitially, NoneAssumption
   DEF Init, Inv, GrantInv, BackoffInv, RowInv, LifeInv

LEMMA SucceedStep == ASSUME Inv, Succeed PROVE GrantInv' /\ BackoffInv' /\ RowInv' /\ LifeInv'
<1>1. PICK ttl \in {setup.lease, Fallback} : Sleep(Half(ttl))
  BY DEF Succeed
<1>2. /\ phase' = "pausing" /\ pause' = Half(ttl) /\ granted' = FALSE
      /\ row' = 0 /\ retryDelay' = BaseDelay /\ left' = left /\ setup' = setup
  BY <1>1 DEF Succeed, Sleep
<1>3. /\ left \in Nat /\ left >= setup.lease - callAge /\ callAge \in 0..CallTimeout
      /\ setup.lease \in Nat
  BY ConstantsType, ReserveType DEF Succeed, Inv, GrantInv, TypeOK
<1>4. pause' \in Nat /\ pause' <= LongestSleep /\ LongestSleep \in Nat
  BY <1>1, <1>2, ReserveType DEF Inv
<1>5. left' >= Reserve - Cost(0) + pause'
  BY <1>2, <1>3, <1>4, CostType, ReserveType, ConstantsType DEF Inv
<1>6. Reserve' = Reserve
  BY <1>2 DEF Reserve, LongestSleep
<1>7. LifeInv'
  BY <1>2, <1>5, <1>6 DEF LifeInv
<1> QED
  BY <1>2, <1>7 DEF GrantInv, BackoffInv, RowInv

LEMMA FailStep == ASSUME Inv, Fail PROVE GrantInv' /\ BackoffInv' /\ RowInv' /\ LifeInv'
<1>1. PICK d \in Shortest(retryDelay)..Longest(retryDelay) : Sleep(d)
  BY DEF Fail
<1>2. /\ phase = "renewing" /\ phase' = "pausing" /\ pause' = d /\ granted' = FALSE
      /\ row' = (IF row = None THEN None ELSE Smaller(row + 1, 3))
      /\ retryDelay' = Doubled(retryDelay) /\ left' = left /\ setup' = setup
  BY <1>1 DEF Fail, Sleep
<1>3. row \in 0..3 \cup {None} /\ callAge \in 0..CallTimeout /\ left \in Nat
  BY ConstantsType DEF Inv, TypeOK
<1>4. BackoffInv'
  <2>1. row' # 0 /\ (row' = 1 => row = 0)
    BY <1>2, <1>3, NoneAssumption DEF Smaller
  <2> QED
    BY <1>2, <2>1 DEF Inv, BackoffInv
<1>5. Reserve' = Reserve
  BY <1>2 DEF Reserve, LongestSleep
<1>6. ASSUME row' \in 0..2 PROVE left' >= Reserve - Cost(row') + pause'
  <2>1. row \in 0..1 /\ row' = row + 1
    BY <1>2, <1>3, <1>6, NoneAssumption DEF Smaller
  <2>2. retryDelay \in Nat
    BY ConstantsType DEF Inv, TypeOK
  <2>3. Shortest(retryDelay) \in Nat /\ Longest(retryDelay) \in Nat
    BY <2>2, JitterType
  <2>4. pause' \in Nat /\ pause' <= Longest(retryDelay)
    BY <1>1, <1>2, <2>3
  <2>5. Cost(row + 1) = Cost(row) + CallTimeout + Longest(retryDelay)
    <3>1. CASE row = 0
      BY <3>1, <2>3, CostType, ConstantsType DEF Inv, BackoffInv
    <3>2. CASE row = 1
      BY <3>2, CostType DEF Inv, BackoffInv
    <3> QED
      BY <2>1, <3>1, <3>2
  <2>6. left >= Reserve - Cost(row) - callAge
    BY <1>2, <2>1 DEF Inv, LifeInv
  <2>7. Cost(row) \in Nat /\ Reserve \in Int
    BY <2>1, CostType, ReserveType DEF Inv
  <2> QED
    BY <1>2, <1>3, <2>1, <2>3, <2>4, <2>5, <2>6, <2>7, ConstantsType
<1>7. LifeInv'
  BY <1>2, <1>5, <1>6 DEF LifeInv
<1> QED
  BY <1>2, <1>4, <1>7 DEF GrantInv, RowInv

LEMMA TickStep == ASSUME Inv, Tick PROVE GrantInv' /\ BackoffInv' /\ RowInv' /\ LifeInv'
<1>1. UNCHANGED <<setup, phase, granted, retryDelay, row>>
  BY DEF Tick
<1>2. /\ left \in Nat /\ left' \in Nat /\ left' >= left - 1
      /\ callAge \in Nat /\ pause \in Nat
  <2>1. left \in Nat /\ callAge \in Nat /\ pause \in Nat
    BY ConstantsType, LongestPauseType DEF Inv, TypeOK
  <2> QED
    BY <2>1 DEF Tick, Less
<1>3. /\ phase = "renewing" => callAge' = callAge + 1
      /\ phase = "pausing" => pause' = pause - 1
  BY DEF Tick, Calling
<1>4. setup.lease \in Nat /\ Reserve \in Int
  BY ReserveType DEF Inv
<1>5. GrantInv'
  BY <1>1, <1>2, <1>3, <1>4 DEF Inv, GrantInv
<1>6. LifeInv'
  <2>1. Reserve' = Reserve
    BY <1>1 DEF Reserve, LongestSleep
  <2> SUFFICES ASSUME row \in 0..2
               PROVE  /\ phase = "pausing" => left' >= Reserve - Cost(row) + pause'
                      /\ phase = "renewing" => left' >= Reserve - Cost(row) - callAge'
    BY <1>1, <2>1 DEF LifeInv
  <2>2. Cost(row) \in Nat
    BY CostType
  <2> QED
    BY <1>2, <1>3, <1>4, <2>2 DEF Inv, LifeInv
<1> QED
  BY <1>1, <1>5, <1>6 DEF Inv, BackoffInv, RowInv

LEMMA GrantStep == ASSUME Inv, Grant PROVE GrantInv' /\ BackoffInv' /\ RowInv' /\ LifeInv'
<1>1. /\ phase = "renewing" /\ left' = setup.lease /\ granted' = TRUE
      /\ UNCHANGED <<setup, phase, callAge, retryDelay, pause, row>>
  BY DEF Grant
<1>2. callAge \in Nat /\ setup.lease \in Nat /\ Reserve \in Int /\ LongestSleep \in Nat
  BY ReserveType, ConstantsType DEF Inv, TypeOK
<1>3. GrantInv'
  BY <1>1, <1>2 DEF GrantInv
<1>4. LifeInv'
  <2>1. Reserve' = Reserve
    BY <1>1 DEF Reserve, LongestSleep
  <2> SUFFICES ASSUME row \in 0..2
               PROVE  left' >= Reserve - Cost(row) - callAge
    BY <1>1, <2>1 DEF LifeInv
  <2>2. Cost(row) \in Nat
    BY CostType
  <2> QED
    BY <1>1, <1>2, <2>2, ReserveType, ConstantsType DEF Inv
<1> QED
  BY <1>1, <1>3, <1>4 DEF Inv, BackoffInv, RowInv

LEMMA InvStep == Inv /\ [Next]_vars => Inv'
<1> SUFFICES ASSUME Inv, [Next]_vars
             PROVE  GrantInv' /\ BackoffInv' /\ RowInv' /\ LifeInv'
  BY TypeStep DEF Inv
<1>1. CASE Start \/ LookUp \/ LookUpFails
  <2>1. row = None /\ row' = None
    BY <1>1 DEF Start, LookUp, LookUpFails, Inv, RowInv
  <2>2. ~granted /\ ~granted'
    BY <1>1 DEF Start, LookUp, LookUpFails, Call, Inv, GrantInv
  <2> QED
    BY <2>1, <2>2, NoneAssumption DEF GrantInv, BackoffInv, RowInv, LifeInv
<1>2. CASE Crash
  BY <1>2, NoneAssumption DEF Crash, GrantInv, BackoffInv, RowInv, LifeInv
<1>3. CASE Wake
  <2>1. Reserve' = Reserve
    BY <1>3 DEF Wake, Reserve, LongestSleep
  <2>2. /\ phase = "pausing" /\ pause = 0 /\ phase' = "renewing" /\ callAge' = 0
        /\ ~granted' /\ UNCHANGED <<setup, retryDelay, left, row>>
    BY <1>3 DEF Wake, Call
  <2>3. ASSUME row \in 0..2 PROVE left >= Reserve - Cost(row) - callAge'
    <3>1. Cost(row) \in Nat /\ Reserve \in Int
      BY <2>3, CostType, ReserveType DEF Inv
    <3> QED
      BY <2>2, <2>3, <3>1 DEF Inv, LifeInv
  <2> QED
    BY <2>1, <2>2, <2>3 DEF Inv, GrantInv, BackoffInv, RowInv, LifeInv
<1>4. CASE End
  BY <1>4 DEF End, Inv, GrantInv, BackoffInv, RowInv, LifeInv
<1>5. CASE Cancel
  <2>1. Reserve' = Reserve
    BY <1>5 DEF Cancel, Reserve, LongestSleep
  <2> QED
    BY <1>5, <2>1 DEF Cancel, Inv, GrantInv, BackoffInv, RowInv, LifeInv
<1>6. CASE UNCHANGED vars
  <2>1. Reserve' = Reserve
    BY <1>6 DEF vars, Reserve, LongestSleep
  <2> QED
    BY <1>6, <2>1 DEF vars, memory, Inv, GrantInv, BackoffInv, RowInv, LifeInv
<1> QED
  BY <1>1, <1>2, <1>3, <1>4, <1>5, <1>6, SucceedStep, FailStep, TickStep, GrantStep
     DEF Next, TimesOut

\* Once renewed, a token whose lease is long enough outlives two renewals that
\* fail in a row.
THEOREM SurvivesCorrect == SafetySpec => []TokenSurvives
<1>1. Inv => TokenSurvives
  <2> SUFFICES ASSUME Inv, phase \in {"renewing", "pausing"}, row \in 0..2,
                      LongestSleep + 2 * CallTimeout + Cost(row) < setup.lease
               PROVE  left > 0
    BY DEF TokenSurvives
  <2>1. /\ LongestSleep \in Nat /\ Cost(row) \in Nat /\ setup.lease \in Nat
        /\ Reserve = setup.lease - CallTimeout - LongestSleep
    BY CostType, ReserveType DEF Inv
  <2>2. left \in Nat /\ callAge \in 0..CallTimeout /\ pause \in Nat
    BY ConstantsType, LongestPauseType DEF Inv, TypeOK
  <2>3. left >= Reserve - Cost(row) - CallTimeout
    BY <2>1, <2>2, ConstantsType DEF Inv, LifeInv
  <2> QED
    BY <2>1, <2>2, <2>3, ConstantsType
<1> QED
  BY <1>1, Initially, InvStep, PTL DEF SafetySpec
=============================================================================
