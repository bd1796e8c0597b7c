------------------------------ MODULE VaultToken ------------------------------
(***************************************************************************)
(* The exporter's own Vault token (internal/secret/hashicorp_backend.go):  *)
(* where it comes from when the exporter starts, and the background loop   *)
(* that renews it, with a backoff while renewals fail.  The process may    *)
(* crash and be started again at any moment; the token file and what Vault *)
(* knows of the token outlive it.                                          *)
(*                                                                         *)
(* consecutiveFailures is kept as the delay nextRenewalRetryDelay derives  *)
(* from it.  Vault grants the token one and the same lease again and again *)
(* (a token at the end of its maximal life is lost whatever is done).      *)
(***************************************************************************)
EXTENDS Integers

CONSTANTS Leases, MaxLease,    \* leases of a token; time is counted in coarse ticks
          BaseDelay, MaxDelay, \* renewalRetryBaseDelay (30s), ...MaxDelay (10min)
          MinSlack,            \* minRenewSlack (5s)
          Fallback,            \* tokenRenewFallbackTTL (60s)
          CallTimeout,         \* the Vault client's timeout (60s)
          None

ASSUME LeasesAssumption == MaxLease \in Nat /\ Leases \subseteq 1..MaxLease
ASSUME DelaysAssumption == /\ BaseDelay \in Nat \ {0} /\ MaxDelay \in Nat /\ BaseDelay <= MaxDelay
                           /\ MinSlack \in Nat \ {0} /\ Fallback \in Nat
ASSUME TimeoutAssumption == CallTimeout \in Nat \ {0}
ASSUME NoneAssumption == None \notin Nat

VARIABLES
  setup,      \* [source, renewable, lease] of the token, fixed
  file,       \* VAULT_TOKEN_FILE is there
  phase,      \* what the process, and then its renewal loop, is doing
  token,      \* the client has the token
  callAge,    \* how long the call to Vault has been running
  granted,    \* Vault has renewed the token for it
  retryDelay, \* the delay after the next failure
  pause,      \* what is left of time.After
  cancelled,  \* ctx is done
  left,       \* the life the token has left
  row         \* history: failures since the last success; None before one

memory == <<token, callAge, granted, retryDelay, pause, cancelled, row>>
vars == <<setup, file, phase, memory, left>>

Larger(a, b) == IF a > b THEN a ELSE b
Smaller(a, b) == IF a < b THEN a ELSE b
Less(n) == IF n > 0 THEN n - 1 ELSE n

\* TypeOK, faulty: the doubled delay is not capped.
Doubled_Uncapped(d) == 2 * d

\* nextRenewalRetryDelay for one failure more.
Doubled(d) == Smaller(2 * d, MaxDelay)

\* applyJitter: the delay, more or less a fifth.
Shortest(d) == d - d \div 5
Longest(d) == d + d \div 5

\* How long to sleep for a lease.
Half(lease) == Larger(lease \div 2, MinSlack)

LongestPause == Larger(Larger(Half(MaxLease), Half(Fallback)), Longest(MaxDelay))

Calling == phase \in {"lookup", "renewing"}

-----------------------------------------------------------------------------
Init == /\ setup \in [source: {"env", "file", "none"}, renewable: BOOLEAN, lease: Leases]
        /\ file = (setup.source = "file")
        /\ phase = "down"
        /\ token = FALSE
        /\ callAge = 0
        /\ granted = FALSE
        /\ retryDelay = BaseDelay
        /\ pause = 0
        /\ cancelled = FALSE
        /\ left \in {1, setup.lease}
        /\ row = None

\* NeverRunsTokenless, faulty: a token file that cannot be read is ignored.
Start_WithoutFile ==
  /\ phase = "down"
  /\ \/ /\ setup.source = "env"
        /\ token' = TRUE /\ phase' = "lookup" /\ UNCHANGED file
     \/ /\ setup.source = "none" \/ ~file
        /\ phase' = "idle" /\ UNCHANGED <<token, file>>
     \/ /\ setup.source = "file" /\ file
        /\ token' = TRUE /\ phase' = "lookup" /\ file' \in BOOLEAN
  /\ UNCHANGED <<setup, callAge, granted, retryDelay, pause, cancelled, left, row>>

\* authenticate.  The file is deleted once it has been read, or that fails; if
\* it cannot be read the exporter exits.
Start ==
  /\ phase = "down"
  /\ \/ /\ setup.source = "env"
        /\ token' = TRUE /\ phase' = "lookup" /\ UNCHANGED file
     \/ /\ setup.source = "none"
        /\ phase' = "idle" /\ UNCHANGED <<token, file>>
     \/ /\ setup.source = "file" /\ file
        /\ token' = TRUE /\ phase' = "lookup" /\ file' \in BOOLEAN
     \/ /\ setup.source = "file" /\ ~file
        /\ phase' = "exited" /\ UNCHANGED <<token, file>>
  /\ UNCHANGED <<setup, callAge, granted, retryDelay, pause, cancelled, left, row>>

\* RenewSelf is called.
Call == /\ phase' = "renewing"
        /\ callAge' = 0
        /\ granted' = FALSE

\* LookupSelf: the loop starts unless Vault says the token is not renewable.
LookUp == /\ phase = "lookup" /\ left > 0
          /\ IF setup.renewable THEN Call
             ELSE phase' = "idle" /\ UNCHANGED <<callAge, granted>>
          /\ UNCHANGED <<setup, file, token, retryDelay, pause, cancelled, left, row>>

LookUpFails == /\ phase = "lookup"
               /\ Call
               /\ UNCHANGED <<setup, file, token, retryDelay, pause, cancelled, left, row>>

\* Vault renews the token; its answer has not arrived yet.
Grant == /\ phase = "renewing" /\ ~granted
         /\ setup.renewable /\ left > 0
         /\ left' = setup.lease
         /\ granted' = TRUE
         /\ UNCHANGED <<setup, file, phase, token, callAge, retryDelay, pause, cancelled, row>>

Sleep(d) == /\ phase' = "pausing"
            /\ pause' = d
            /\ callAge' = 0
            /\ granted' = FALSE

\* TokenSurvives, faulty: the backoff is not reset.
Succeed_NoReset == /\ phase = "renewing" /\ granted
                   /\ row' = 0
                   /\ \E ttl \in {setup.lease, Fallback} : Sleep(Half(ttl))
                   /\ UNCHANGED <<setup, file, token, retryDelay, cancelled, left>>

\* The answer arrives, with or without the lease.
Succeed == /\ phase = "renewing" /\ granted
           /\ retryDelay' = BaseDelay
           /\ row' = 0
           /\ \E ttl \in {setup.lease, Fallback} : Sleep(Half(ttl))
           /\ UNCHANGED <<setup, file, token, cancelled, left>>

\* Vault refuses, is not reached, or its answer is lost.
Fail == /\ phase = "renewing"
        /\ retryDelay' = Doubled(retryDelay)
        /\ row' = IF row = None THEN None ELSE Smaller(row + 1, 3)
        /\ \E d \in Shortest(retryDelay)..Longest(retryDelay) : Sleep(d)
        /\ UNCHANGED <<setup, file, token, cancelled, left>>

\* CallsGoOn, faulty: calls to Vault have no timeout.
TimedOut_Never == FALSE

TimedOut == callAge >= CallTimeout

TimesOut == TimedOut /\ (Fail \/ LookUpFails)

\* time.After fires.
Wake == /\ phase = "pausing" /\ pause = 0
        /\ Call
        /\ UNCHANGED <<setup, file, token, retryDelay, pause, cancelled, left, row>>

\* ctx.Done() ends the loop, but only while it sleeps.
End == /\ phase = "pausing" /\ cancelled
       /\ phase' = "ended"
       /\ pause' = 0
       /\ UNCHANGED <<setup, file, token, callAge, granted, retryDelay, cancelled, left, row>>

Cancel == /\ phase \in {"renewing", "pausing"} /\ ~cancelled
          /\ cancelled' = TRUE
          /\ UNCHANGED <<setup, file, phase, token, callAge, granted, retryDelay, pause, left, row>>

\* The process is killed; it may be started again.
Crash == /\ phase # "down"
         /\ phase' = "down"
         /\ token' = FALSE
         /\ callAge' = 0
         /\ granted' = FALSE
         /\ retryDelay' = BaseDelay
         /\ pause' = 0
         /\ cancelled' = FALSE
         /\ row' = None
         /\ UNCHANGED <<setup, file, left>>

\* Time passes, but not beyond a timeout or a timer, nor while a cancelled loop
\* sleeps.
Tick == /\ Calling => callAge < CallTimeout
        /\ phase = "pausing" => pause > 0 /\ ~cancelled
        /\ left' = Less(left)
        /\ callAge' = IF Calling THEN callAge + 1 ELSE callAge
        /\ pause' = IF phase = "pausing" THEN pause - 1 ELSE pause
        /\ UNCHANGED <<setup, file, phase, token, granted, retryDelay, cancelled, row>>

Next == \/ Start \/ LookUp \/ LookUpFails \/ Grant \/ Succeed \/ Fail \/ TimesOut
        \/ Wake \/ End \/ Cancel \/ Crash \/ Tick

SafetySpec == Init /\ [][Next]_vars

\* Time passes, timeouts and timers fire, and a goroutine that may return does.
\* Vault need not answer, and nobody need start a process that is down.
Fairness == WF_vars(Tick) /\ WF_vars(TimesOut) /\ WF_vars(Wake) /\ WF_vars(End)

Spec == SafetySpec /\ Fairness

-----------------------------------------------------------------------------
(***************************************************************************)
(* Properties.                                                             *)
(***************************************************************************)
TypeOK ==
  /\ setup \in [source: {"env", "file", "none"}, renewable: BOOLEAN, lease: Leases]
  /\ file \in BOOLEAN /\ token \in BOOLEAN /\ granted \in BOOLEAN /\ cancelled \in BOOLEAN
  /\ phase \in {"down", "exited", "idle", "lookup", "renewing", "pausing", "ended"}
  /\ callAge \in 0..CallTimeout
  /\ retryDelay \in BaseDelay..MaxDelay
  /\ pause \in 0..LongestPause
  /\ left \in 0..MaxLease
  /\ row \in 0..3 \cup {None}

\* An exporter that was given a token runs with it, after a crash too: if the
\* file is gone, it does not come up (authenticate).
NeverRunsTokenless ==
  phase \notin {"down", "exited"} /\ setup.source # "none" => token

\* What n failures in a row cost at most: each its attempt and its delay.
Cost(n) == CASE n = 0 -> 0
             [] n = 1 -> CallTimeout + Longest(BaseDelay)
             [] OTHER -> 2 * CallTimeout + Longest(BaseDelay) + Longest(Doubled(BaseDelay))

\* The longest sleep after a success, whether or not Vault reports the lease.
LongestSleep == Larger(Half(setup.lease), Half(Fallback))

\* Once renewed, the token outlives sleep and attempts, and one or two renewals
\* that fail in between, whenever its lease is long enough for them (and never
\* mind how slowly Vault answers).
TokenSurvives ==
  phase \in {"renewing", "pausing"} /\ row \in 0..2
    /\ LongestSleep + 2 * CallTimeout + Cost(row) < setup.lease => left > 0

\* The loop is stuck neither in a call nor in a pause, and once cancelled returns,
\* if only after the call it is in.
CallsGoOn == /\ []<>(~Calling) /\ []<>(phase # "pausing")
             /\ cancelled ~> phase \notin {"renewing", "pausing"}
=============================================================================
