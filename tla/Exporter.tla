------------------------------- MODULE Exporter -------------------------------
(***************************************************************************)
(* One synchronous scrape (internal/exporter/exporter.collect.go).         *)
(* Collect starts a worker goroutine that visits the request's data        *)
(* sources one after another and sends metrics on a bounded channel, a     *)
(* closer goroutine that closes the channel when the worker has ended, and *)
(* itself receives, keeps the latest value of every series and hands the   *)
(* lot to Prometheus.  The getter of a data source (module SempGetter) is  *)
(* reduced to what the worker sees of it: metrics sent, then a return      *)
(* value, or a panic.                                                      *)
(***************************************************************************)
EXTENDS Integers, Sequences, ScrapeTargets

CONSTANTS Requests,      \* [sources, isHWBroker, defaultVpnSet]
          Metrics,       \* what the getters report: [name, value]
          Errors,        \* error texts of the getters
          CapMetricChan, \* capMetricChan (1000)
          NoReply

ASSUME CapAssumption == CapMetricChan \in Nat \ {0}
ASSUME RequestsAssumption ==
  \A r \in Requests :
    r.sources \in Seq([target: STRING, v1: BOOLEAN, vpnFilter: STRING, itemFilter: STRING])
ASSUME MetricsAssumption == \A m \in Metrics : m.name[1] # "up"

VARIABLES
  request,   \* the data sources and the two settings the worker looks at
  pc,        \* where the worker is
  i,         \* the data source it is at
  up, err,   \* its variables of these names
  ch,        \* the metric channel
  closed,    \* ch is closed
  distinct,  \* distinctMetrics of Collect: series name -> latest value
  reply,     \* what Collect handed to Prometheus
  verdict    \* history: how each data source really went

vars == <<request, pc, i, up, err, ch, closed, distinct, reply, verdict>>

Source == request.sources[i]
DsName(ds) == [target |-> ds.target, v1 |-> ds.v1]
Global == [target |-> "global", v1 |-> FALSE]

\* A getter that panics: it cuts the last character off a spool quota that an
\* unexpected reply may not contain.
MayPanic == {"Spool"}

\* The series solace_up{error, endpoint}.
UpSeries(value, error, endpoint) ==
  [name |-> <<"up", error, endpoint>>, value |-> value]

\* How the worker names the error in the series: "Unknown" if there is none.
ErrorText(e) == IF e = "" THEN "Unknown" ELSE e

\* The sample that up, err and the data source call for.
UpVerdict == IF up < 1
             THEN UpSeries(0, ErrorText(err), IF up < 0 THEN Global ELSE DsName(Source))
             ELSE UpSeries(1, "", DsName(Source))

\* d after the metric x is stored in it.
Stored(d, x) == [n \in DOMAIN d \cup {x.name} |-> IF n = x.name THEN x.value ELSE d[n]]

-----------------------------------------------------------------------------
(***************************************************************************)
(* Faulty variants of the actions below, one per property.                 *)
(***************************************************************************)
\* TypeOK: the metric is sent without looking at the channel's capacity.
GetterSends_Unbounded(m) ==
  /\ pc = "scraping"
  /\ ch' = Append(ch, m)
  /\ UNCHANGED <<request, pc, i, up, err, closed, distinct, reply, verdict>>

\* UpIsTruthful: no "up = 0" before the default VPN is looked up.
StartSource_NoReset ==
  /\ pc = "dispatch"
  /\ i <= Len(request.sources)
  /\ LET kind == Dispatch(Source, request.isHWBroker)
         fails == \/ kind \notin {"semp1", "semp2"}
                  \/ kind = "semp2" /\ GetVpnNameFails(Source, request.defaultVpnSet)
     IN
     /\ up' = IF kind \in {"semp1", "semp2"} THEN up ELSE 0
     /\ err' = CASE kind = "semp1" -> err
                 [] kind = "semp2" -> IF fails THEN "noDefaultVpn" ELSE ""
                 [] OTHER -> kind
     /\ verdict' = [verdict EXCEPT ![i] = IF fails THEN "failed" ELSE @]
     /\ pc' = IF fails THEN "emitUp" ELSE "scraping"
  /\ UNCHANGED <<request, i, ch, closed, distinct, reply>>

\* OnlyUnreachableStops: the break leaves the switch, not the loop.
EmitUp_BreaksSwitch ==
  /\ pc = "emitUp"
  /\ Len(ch) < CapMetricChan
  /\ ch' = Append(ch, UpVerdict)
  /\ pc' = "dispatch" /\ i' = i + 1
  /\ UNCHANGED <<request, up, err, closed, distinct, reply, verdict>>

\* ImplementsScrape: the first value received under a name is kept.
Receive_FirstWins ==
  /\ ch # <<>>
  /\ distinct' = [n \in DOMAIN distinct \cup {Head(ch).name} |->
                    IF n \in DOMAIN distinct THEN distinct[n] ELSE Head(ch).value]
  /\ ch' = Tail(ch)
  /\ UNCHANGED <<request, pc, i, up, err, closed, reply, verdict>>

\* EveryScrapeEnds: the recovery is inside the loop and tries again.
GetterPanics_TriesAgain ==
  /\ pc = "scraping"
  /\ Source.target \in MayPanic
  /\ pc' = "dispatch"
  /\ UNCHANGED <<request, i, up, err, ch, closed, distinct, reply, verdict>>

-----------------------------------------------------------------------------
Init == /\ request \in Requests
        /\ pc = "dispatch"
        /\ i = 1
        /\ up = 0
        /\ err = ""
        /\ ch = <<>>
        /\ closed = FALSE
        /\ distinct = <<>>
        /\ reply = NoReply
        /\ verdict = [k \in DOMAIN request.sources |-> "pending"]

\* The switch: call a getter, or fail at once.
StartSource ==
  /\ pc = "dispatch"
  /\ i <= Len(request.sources)
  /\ LET kind == Dispatch(Source, request.isHWBroker)
         fails == \/ kind \notin {"semp1", "semp2"}
                  \/ kind = "semp2" /\ GetVpnNameFails(Source, request.defaultVpnSet)
     IN
     /\ up' = IF kind = "semp1" THEN up ELSE 0
     /\ err' = CASE kind = "semp1" -> err
                 [] kind = "semp2" -> IF fails THEN "noDefaultVpn" ELSE ""
                 [] OTHER -> kind
     /\ verdict' = [verdict EXCEPT ![i] = IF fails THEN "failed" ELSE @]
     /\ pc' = IF fails THEN "emitUp" ELSE "scraping"
  /\ UNCHANGED <<request, i, ch, closed, distinct, reply>>

GetterSends(m) ==
  /\ pc = "scraping"
  /\ Len(ch) < CapMetricChan
  /\ ch' = Append(ch, m)
  /\ UNCHANGED <<request, pc, i, up, err, closed, distinct, reply, verdict>>

\* The getter returns 1; 0 and an error; or, through SEMP v1 only, -1 and an
\* error, when the broker could not be asked.
GetterReturns ==
  /\ pc = "scraping"
  /\ \/ up' = 1 /\ err' = "" /\ verdict' = [verdict EXCEPT ![i] = "ok"]
     \/ up' = 0 /\ err' \in Errors /\ verdict' = [verdict EXCEPT ![i] = "failed"]
     \/ /\ Source.target \notin Semp2Targets
        /\ up' = -1 /\ err' \in Errors
        /\ verdict' = [verdict EXCEPT ![i] = "unreachable"]
  /\ pc' = "emitUp"
  /\ UNCHANGED <<request, i, ch, closed, distinct, reply>>

\* The panic ends the worker; its deferred functions recover it.
GetterPanics ==
  /\ pc = "scraping"
  /\ Source.target \in MayPanic
  /\ verdict' = [verdict EXCEPT ![i] = "panicked"]
  /\ pc' = "returned"
  /\ UNCHANGED <<request, i, up, err, ch, closed, distinct, reply>>

\* solace_up for the data source; an unreachable broker is reported as such
\* and ends the loop.
EmitUp ==
  /\ pc = "emitUp"
  /\ Len(ch) < CapMetricChan
  /\ ch' = Append(ch, UpVerdict)
  /\ IF up < 0 THEN pc' = "break" /\ UNCHANGED i
               ELSE pc' = "dispatch" /\ i' = i + 1
  /\ UNCHANGED <<request, up, err, closed, distinct, reply, verdict>>

WorkerReturns ==
  /\ \/ pc = "break"
     \/ pc = "dispatch" /\ i > Len(request.sources)
  /\ pc' = "returned"
  /\ UNCHANGED <<request, i, up, err, ch, closed, distinct, reply, verdict>>

\* The closer: wg.Wait(), then close(ch).
CloseCh ==
  /\ pc = "returned"
  /\ ~closed
  /\ closed' = TRUE
  /\ UNCHANGED <<request, pc, i, up, err, ch, distinct, reply, verdict>>

\* Collect receives a metric.
Receive ==
  /\ ch # <<>>
  /\ distinct' = Stored(distinct, Head(ch))
  /\ ch' = Tail(ch)
  /\ UNCHANGED <<request, pc, i, up, err, closed, reply, verdict>>

\* Collect finds the channel closed and empty.
Answer ==
  /\ closed /\ ch = <<>>
  /\ reply = NoReply
  /\ reply' = distinct
  /\ UNCHANGED <<request, pc, i, up, err, ch, closed, distinct, verdict>>

Worker == \/ StartSource
          \/ \E m \in Metrics : GetterSends(m)
          \/ GetterReturns \/ GetterPanics \/ EmitUp \/ WorkerReturns

\* The scrape is answered.
Done == reply # NoReply /\ UNCHANGED vars

Next == Worker \/ CloseCh \/ Receive \/ Answer \/ Done

SafetySpec == Init /\ [][Next]_vars

\* Goroutines keep running; a getter does not send for ever, since its paging
\* ends and every request has a timeout (SempGetter), so its return is fair
\* whenever it could go on sending.
Spec == /\ SafetySpec
        /\ WF_vars(StartSource) /\ WF_vars(GetterReturns \/ GetterPanics)
        /\ WF_vars(EmitUp) /\ WF_vars(WorkerReturns)
        /\ WF_vars(CloseCh) /\ WF_vars(Receive) /\ WF_vars(Answer)

-----------------------------------------------------------------------------
(***************************************************************************)
(* Properties.                                                             *)
(***************************************************************************)
Verdicts == {"pending", "ok", "failed", "unreachable", "panicked"}

TypeOK == /\ request \in Requests
          /\ pc \in {"dispatch", "scraping", "emitUp", "break", "returned"}
          /\ i \in 1..(Len(request.sources) + 1)
          /\ up \in {-1, 0, 1}
          /\ Len(ch) <= CapMetricChan
          /\ closed \in BOOLEAN
          /\ verdict \in [DOMAIN request.sources -> Verdicts]

\* The solace_up samples of an answer: which endpoint is said to be up or down.
UpSamples(answer) == {[endpoint |-> n[3], value |-> answer[n]] :
                        n \in {m \in DOMAIN answer : m[1] = "up"}}

\* What they have to be, given how the data sources really went.
TrueSamples ==
  {[endpoint |-> IF verdict[k] = "unreachable" THEN Global ELSE DsName(request.sources[k]),
    value |-> IF verdict[k] = "ok" THEN 1 ELSE 0] :
     k \in {j \in DOMAIN verdict : verdict[j] \in {"ok", "failed", "unreachable"}}}

\* solace_up says of every data source what really happened to it: up and err
\* are carried from one data source to the next, yet no verdict is reported
\* for another one, and duplicate filtering hides no failure behind a success
\* of a data source of the same name.
UpIsTruthful == reply # NoReply => UpSamples(reply) = TrueSamples

\* The data sources of a scrape do not depend on each other: every one is
\* tried, except those behind a broker found unreachable (which a getter would
\* ask again, in vain) and those behind a panic.
OnlyUnreachableStops ==
  \A k \in DOMAIN verdict :
    LET stopped == \E j \in 1..(k - 1) : verdict[j] \in {"unreachable", "panicked"} IN
    /\ stopped => verdict[k] = "pending"
    /\ reply # NoReply /\ ~stopped => verdict[k] # "pending"

Endpoints == {Global} \cup UNION {{DsName(r.sources[k]) : k \in DOMAIN r.sources} : r \in Requests}
ErrorTexts == Errors \cup {"Unknown", "unknownTarget", "hardwareOnly", "softwareOnly", "noDefaultVpn"}
AllUpSeries ==
  UNION {{UpSeries(1, "", e)} \cup {UpSeries(0, t, e) : t \in ErrorTexts} : e \in Endpoints}

\* d after all metrics of s are stored in it, one after another.
Occurs(s, n) == \E k \in DOMAIN s : s[k].name = n
LastIndex(s, n) == CHOOSE k \in DOMAIN s : /\ s[k].name = n
                                           /\ \A j \in DOMAIN s : j > k => s[j].name # n
Overlaid(d, s) ==
  [n \in DOMAIN d \cup {s[k].name : k \in DOMAIN s} |->
     IF Occurs(s, n) THEN s[LastIndex(s, n)].value ELSE d[n]]

Promise == INSTANCE Scrape WITH
             Series <- Metrics \cup AllUpSeries,
             result <- Overlaid(distinct, ch),
             finished <- pc = "returned"

\* The goroutines and the channel implement a scrape: nothing that was sent is
\* lost between worker, closer and reader, also when the worker panics, the
\* latest value sent for a series is the one answered, and there is one answer.
ImplementsScrape == Promise!Spec

\* Every scrape is answered, however full the channel gets and even if the
\* worker panics.
EveryScrapeEnds == <>(reply # NoReply)

\* README.md: "every scrape emits a solace_up{error, endpoint} gauge".
EveryScrapeHasUp == reply # NoReply => UpSamples(reply) # {}

\* README.md: "each also has a ...V1 alias (for example VpnStats and VpnStatsV1
\* are equivalent)": a target's alias is never answered with "unknown".  (A
\* SEMP v2 target already carries its version.)
EveryTargetHasAlias ==
  pc = "emitUp" /\ err = "unknownTarget" =>
    ~(Source.v1 /\ Source.target \in Targets \ Semp2Targets)

\* Targets that docs/CONFIG.md lists with an item filter.
DocumentedItemFilter == FilteredByBoth \cup Semp2Targets \cup
  {"ClientMessageSpoolEgress", "ClientMessageSpoolStats", "Interface",
   "InterfaceHW", "StorageElement"}

\* docs/CONFIG.md, "Supported Scrape Targets": a target with an item filter
\* asks the broker for the items of its data source's item filter.
ItemFilterHonoured ==
  pc = "scraping" /\ Source.target \in DocumentedItemFilter
    => GetterFilters(Source).item = Source.itemFilter

=============================================================================
