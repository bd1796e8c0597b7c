------------------------------ MODULE Semaphore ------------------------------
(***************************************************************************)
(* What the prefetch workers are promised by the semaphore they share      *)
(* (golang.org/x/sync/semaphore, with permits of weight 1, as main and     *)
(* asyncFetcher.go use it): the permits are handed out in the order they   *)
(* are asked for, and a worker that waits gives up only if the context it  *)
(* waits with is cancelled.                                                *)
(*                                                                         *)
(* AsyncFetcher and ExporterSystem keep the semaphore in different ways;   *)
(* both are shown to implement this specification.                         *)
(***************************************************************************)
EXTENDS Integers, Sequences, FiniteSets

CONSTANTS Workers,  \* who asks for permits
          Permits   \* how many there are

VARIABLES holders,  \* the workers between Acquire and Release
          waiters,  \* those that have asked in vain, in order
          cancelled \* the context is done

vars == <<holders, waiters, cancelled>>

Init == holders = {} /\ waiters = <<>> /\ cancelled = FALSE

Waiting == {waiters[i] : i \in DOMAIN waiters}

\* Permits that are given back go to those who wait first.
Free == Cardinality(holders) < Permits /\ waiters = <<>>

Acquire(w) == /\ ~cancelled
              /\ w \notin holders \cup Waiting
              /\ \/ Free /\ holders' = holders \cup {w} /\ UNCHANGED waiters
                 \/ ~Free /\ waiters' = Append(waiters, w) /\ UNCHANGED holders
              /\ UNCHANGED cancelled

Release(w) == /\ w \in holders
              /\ \/ /\ waiters = <<>> \/ cancelled
                    /\ holders' = holders \ {w}
                    /\ UNCHANGED waiters
                 \/ /\ waiters # <<>> /\ ~cancelled
                    /\ holders' = (holders \ {w}) \cup {Head(waiters)}
                    /\ waiters' = Tail(waiters)
              /\ UNCHANGED cancelled

GiveUp(w) == /\ cancelled
             /\ \E i \in DOMAIN waiters :
                  /\ waiters[i] = w
                  /\ waiters' = [j \in 1..(Len(waiters) - 1) |->
                                   IF j < i THEN waiters[j] ELSE waiters[j + 1]]
             /\ UNCHANGED <<holders, cancelled>>

Cancel == ~cancelled /\ cancelled' = TRUE /\ UNCHANGED <<holders, waiters>>

Next == (\E w \in Workers : Acquire(w) \/ Release(w) \/ GiveUp(w)) \/ Cancel

Spec == Init /\ [][Next]_vars

=============================================================================
