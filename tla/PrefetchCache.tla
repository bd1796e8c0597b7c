--------------------------- MODULE PrefetchCache ---------------------------
(***************************************************************************)
(* What a prefetched endpoint promises to whoever scrapes it, with nothing *)
(* said about semaphores, channels, chunks or deprecation flags: a refresh *)
(* begins, the broker reports metrics, some of what was reported becomes   *)
(* visible early, and when the refresh ends the endpoint serves exactly    *)
(* the last value of every metric reported in it and nothing else.         *)
(*                                                                         *)
(* AsyncFetcher is shown to implement this specification.                  *)
(***************************************************************************)
CONSTANTS Fetchers,   \* the prefetched endpoints
          Names,      \* metric identities: name plus label values
          Values,     \* sample values
          Absent      \* "no such metric"

VARIABLES served,     \* served[f][n]: what a scrape of f would return for n now
          result,     \* result[f][n]: last value of n reported in f's refresh
          reported,   \* reported[f]: the metrics reported in f's refresh
          refreshing  \* refreshing[f]: f's refresh is running

vars == <<served, result, reported, refreshing>>

Metric == [name: Names, value: Values]

Nothing == [n \in Names |-> Absent]

Init == /\ served = [f \in Fetchers |-> Nothing]
        /\ result = [f \in Fetchers |-> Nothing]
        /\ reported = [f \in Fetchers |-> {}]
        /\ refreshing = [f \in Fetchers |-> FALSE]

Begin(f) == /\ ~refreshing[f]
            /\ refreshing' = [refreshing EXCEPT ![f] = TRUE]
            /\ result' = [result EXCEPT ![f] = Nothing]
            /\ reported' = [reported EXCEPT ![f] = {}]
            /\ UNCHANGED served

Report(f, m) == /\ refreshing[f]
                /\ result' = [result EXCEPT ![f][m.name] = m.value]
                /\ reported' = [reported EXCEPT ![f] = @ \cup {m}]
                /\ UNCHANGED <<served, refreshing>>

\* A metric may change before the refresh ends, but only to a value reported
\* in this refresh: it neither disappears nor goes back to an older refresh.
Publish(f) == /\ refreshing[f]
              /\ \E shown \in [Names -> Values \cup {Absent}] :
                   /\ \A n \in Names :
                        \/ shown[n] = served[f][n]
                        \/ [name |-> n, value |-> shown[n]] \in reported[f]
                   /\ served' = [served EXCEPT ![f] = shown]
              /\ UNCHANGED <<result, reported, refreshing>>

Finish(f) == /\ refreshing[f]
             /\ served' = [served EXCEPT ![f] = result[f]]
             /\ refreshing' = [refreshing EXCEPT ![f] = FALSE]
             /\ UNCHANGED <<result, reported>>

Next == \E f \in Fetchers : \/ Begin(f)
                            \/ \E m \in Metric : Report(f, m)
                            \/ Publish(f)
                            \/ Finish(f)

Spec == Init /\ [][Next]_vars

=============================================================================
