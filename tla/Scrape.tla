-------------------------------- MODULE Scrape --------------------------------
(***************************************************************************)
(* What a scrape promises, whatever goroutines and channels it is built    *)
(* from (Exporter.Collect, internal/exporter/exporter.collect.go): metrics *)
(* are reported until the reporting has finished, and then the scrape is   *)
(* answered, once, with the latest value reported for every series.        *)
(***************************************************************************)
CONSTANTS Series,   \* everything that can be reported: [name, value]
          NoReply   \* no answer yet

VARIABLES result,   \* the latest value reported for every series
          finished, \* nothing more will be reported
          reply     \* the answer

vars == <<result, finished, reply>>

Init == /\ result = <<>>
        /\ finished = FALSE
        /\ reply = NoReply

Report == /\ ~finished
          /\ \E m \in Series :
               result' = [n \in DOMAIN result \cup {m.name} |->
                            IF n = m.name THEN m.value ELSE result[n]]
          /\ UNCHANGED <<finished, reply>>

Finish == /\ ~finished
          /\ finished' = TRUE
          /\ UNCHANGED <<result, reply>>

Answer == /\ finished
          /\ reply = NoReply
          /\ reply' = result
          /\ UNCHANGED <<result, finished>>

Next == Report \/ Finish \/ Answer

Spec == Init /\ [][Next]_vars

=============================================================================
