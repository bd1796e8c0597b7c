---------------------------- MODULE ExporterProofs ----------------------------
(***************************************************************************)
(* Proofs about Exporter for any requests, metrics, errors and channel     *)
(* capacity.                                                               *)
(***************************************************************************)
EXTENDS Exporter, TLAPS, SequenceTheorems, WellFoundedInduction

Sent == Metrics \cup AllUpSeries

\* What the worker knows where it is.
WorkerInv ==
  /\ ch \in Seq(Sent)
  /\ pc \in {"scraping", "emitUp", "break"} => i \in DOMAIN request.sources
  /\ pc = "emitUp" /\ up < 1 => err \in ErrorTexts \cup {""}

\* How the data sources went before the one the worker is at, at it, and after it.
VerdictInv ==
  /\ \A k \in DOMAIN verdict : /\ k < i => verdict[k] \in {"ok", "failed"}
                               /\ k > i => verdict[k] = "pending"
  /\ i \in DOMAIN verdict =>
       /\ pc \in {"dispatch", "scraping"} => verdict[i] = "pending"
       /\ pc = "emitUp" => \/ up = 1 /\ verdict[i] = "ok"
                           \/ up = 0 /\ verdict[i] = "failed"
                           \/ up = -1 /\ verdict[i] = "unreachable"
       /\ pc = "break" => verdict[i] = "unreachable"
       /\ pc = "returned" => verdict[i] \in {"unreachable", "panicked"}

\* The answer is all that was received, when no more will be.
ReplyInv ==
  /\ closed => pc = "returned"
  /\ reply # NoReply => closed /\ ch = <<>> /\ reply = distinct

Inv == TypeOK /\ WorkerInv /\ VerdictInv /\ ReplyInv

-----------------------------------------------------------------------------
LEMMA SourcesType ==
  ASSUME NEW r \in Requests
  PROVE  /\ DOMAIN r.sources = 1..Len(r.sources)
         /\ Len(r.sources) \in Nat
         /\ \A k \in DOMAIN r.sources : DsName(r.sources[k]) \in Endpoints
  BY RequestsAssumption DEF Endpoints

LEMMA DispatchKinds ==
  ASSUME NEW ds, NEW hw
  PROVE  Dispatch(ds, hw) \in {"unknownTarget", "hardwareOnly", "softwareOnly", "semp1", "semp2"}
  BY DEF Dispatch

(***************************************************************************)
(* A sequence one element longer, or without its head.                     *)
(***************************************************************************)
LEMMA AppendFacts ==
  ASSUME NEW S, NEW s \in Seq(S), NEW x \in S
  PROVE  /\ Append(s, x) \in Seq(S)
         /\ Len(Append(s, x)) = Len(s) + 1
         /\ DOMAIN s = 1..Len(s)
         /\ DOMAIN Append(s, x) = 1..(Len(s) + 1)
         /\ \A k \in 1..Len(s) : Append(s, x)[k] = s[k]
         /\ Append(s, x)[Len(s) + 1] = x
  OBVIOUS

LEMMA TailFacts ==
  ASSUME NEW S, NEW s \in Seq(S), s # <<>>
  PROVE  /\ Tail(s) \in Seq(S)
         /\ Len(s) \in Nat \ {0}
         /\ Len(Tail(s)) = Len(s) - 1
         /\ DOMAIN s = 1..Len(s)
         /\ DOMAIN Tail(s) = 1..(Len(s) - 1)
         /\ \A k \in 1..(Len(s) - 1) : Tail(s)[k] = s[k + 1]
         /\ Head(s) = s[1] /\ s[1] \in S
<1>1. Len(s) \in Nat \ {0}
  OBVIOUS
<1> QED
  BY <1>1

(***************************************************************************)
(* The parts of a solace_up sample, and which samples there are.           *)
(***************************************************************************)
LEMMA UpSeriesFacts ==
  \A v, t, e : /\ UpSeries(v, t, e).name[1] = "up"
               /\ UpSeries(v, t, e).name[2] = t
               /\ UpSeries(v, t, e).name[3] = e
               /\ UpSeries(v, t, e).value = v
  BY DEF UpSeries

LEMMA UpSeriesType ==
  /\ \A e \in Endpoints : UpSeries(1, "", e) \in AllUpSeries
  /\ \A t \in ErrorTexts, e \in Endpoints : UpSeries(0, t, e) \in AllUpSeries
<1> DEFINE S(x) == {UpSeries(1, "", x)} \cup {UpSeries(0, y, x) : y \in ErrorTexts}
<1>1. /\ \A e \in Endpoints : UpSeries(1, "", e) \in S(e)
      /\ \A t \in ErrorTexts, e \in Endpoints : UpSeries(0, t, e) \in S(e)
  OBVIOUS
<1>2. AllUpSeries = UNION {S(x) : x \in Endpoints}
  BY DEF AllUpSeries
<1> HIDE DEF S
<1> QED
  BY <1>1, <1>2

(***************************************************************************)
(* The sample the worker sends is a series of its endpoint.                *)
(***************************************************************************)
LEMMA UpVerdictFacts ==
  ASSUME Inv, pc = "emitUp"
  PROVE  /\ UpVerdict \in AllUpSeries
         /\ UpVerdict.name[1] = "up"
         /\ up = 1 => /\ UpVerdict.name[2] = "" /\ UpVerdict.value = 1
                      /\ UpVerdict.name[3] = DsName(request.sources[i])
         /\ up # 1 => UpVerdict.name[2] # "" /\ UpVerdict.value = 0
         /\ up = 0 => UpVerdict.name[3] = DsName(request.sources[i])
         /\ up = -1 => UpVerdict.name[3] = Global
<1>1. /\ up \in {-1, 0, 1}
      /\ up < 1 => err \in ErrorTexts \cup {""}
      /\ i \in DOMAIN request.sources
      /\ request \in Requests
  BY DEF Inv, TypeOK, WorkerInv
<1>2. DsName(request.sources[i]) \in Endpoints /\ Global \in Endpoints
  BY <1>1, SourcesType DEF Endpoints
<1>3. up < 1 => ErrorText(err) \in ErrorTexts /\ ErrorText(err) # ""
  BY <1>1 DEF ErrorText, ErrorTexts
<1> DEFINE v == IF up < 1 THEN 0 ELSE 1
           t == IF up < 1 THEN ErrorText(err) ELSE ""
           e == IF up < 0 THEN Global ELSE DsName(request.sources[i])
<1>4. up \in {-1, 0, 1}
  BY <1>1
<1>5. /\ up = 1 => ~(up < 1) /\ ~(up < 0)
      /\ up = 0 => (up < 1) /\ ~(up < 0)
      /\ up = -1 => (up < 1) /\ (up < 0)
      /\ up < 1 => up # 1
      /\ ~(up < 1) => up = 1
  BY <1>4
<1>6. UpVerdict = UpSeries(v, t, e)
  <2>1. CASE up < 1
    <3>1. v = 0 /\ t = ErrorText(err) /\ e = (IF up < 0 THEN Global ELSE DsName(Source))
      BY <2>1 DEF Source
    <3>2. UpVerdict = UpSeries(0, ErrorText(err), IF up < 0 THEN Global ELSE DsName(Source))
      BY <2>1 DEF UpVerdict
    <3> HIDE DEF v, t, e
    <3> QED
      BY <3>1, <3>2, Zenon
  <2>2. CASE ~(up < 1)
    <3>1. v = 1 /\ t = "" /\ e = DsName(Source)
      <4>1. ~(up < 0)
        BY <1>5, <2>2
      <4> QED
        BY <2>2, <4>1 DEF Source
    <3>2. UpVerdict = UpSeries(1, "", DsName(Source))
      BY <2>2 DEF UpVerdict
    <3> HIDE DEF v, t, e
    <3> QED
      BY <3>1, <3>2, Zenon
  <2> QED
    BY <2>1, <2>2
<1>7. up = 1 => v = 1 /\ t = "" /\ e = DsName(request.sources[i])
  BY <1>5
<1>8. up = 0 => v = 0 /\ t = ErrorText(err) /\ e = DsName(request.sources[i])
  BY <1>5
<1>9. up = -1 => v = 0 /\ t = ErrorText(err) /\ e = Global
  BY <1>5
<1>10. /\ (v = 1 /\ t = "") \/ (v = 0 /\ t \in ErrorTexts)
       /\ e \in Endpoints
       /\ up = 1 => t = "" /\ v = 1 /\ e = DsName(request.sources[i])
       /\ up # 1 => t # "" /\ v = 0
       /\ up = 0 => e = DsName(request.sources[i])
       /\ up = -1 => e = Global
  <2> HIDE DEF v, t, e
  <2> QED
    BY <1>4, <1>5, <1>2, <1>3, <1>7, <1>8, <1>9
<1> HIDE DEF v, t, e
<1>11. /\ UpVerdict.name[1] = "up"
       /\ UpVerdict.name[2] = t
       /\ UpVerdict.name[3] = e
       /\ UpVerdict.value = v
  BY <1>6, UpSeriesFacts
<1>12. UpVerdict \in AllUpSeries
  <2>1. CASE v = 1 /\ t = ""
    <3>1. UpVerdict = UpSeries(1, "", e)
      BY <1>6, <2>1, Zenon
    <3> QED
      BY <1>10, <3>1, UpSeriesType
  <2>2. CASE v = 0 /\ t \in ErrorTexts
    <3>1. UpVerdict = UpSeries(0, t, e)
      BY <1>6, <2>2, Zenon
    <3> QED
      BY <1>10, <2>2, <3>1, UpSeriesType
  <2> QED
    BY <1>10, <2>1, <2>2, Zenon
<1>13. up = 1 => /\ UpVerdict.name[2] = "" /\ UpVerdict.value = 1
                 /\ UpVerdict.name[3] = DsName(request.sources[i])
  BY <1>10, <1>11, Zenon
<1>14. up # 1 => UpVerdict.name[2] # "" /\ UpVerdict.value = 0
  BY <1>10, <1>11, Zenon
<1>15. /\ up = 0 => UpVerdict.name[3] = DsName(request.sources[i])
       /\ up = -1 => UpVerdict.name[3] = Global
  BY <1>10, <1>11, Zenon
<1> QED
  BY <1>11, <1>12, <1>13, <1>14, <1>15, Zenon

-----------------------------------------------------------------------------
(***************************************************************************)
(* The first step of a data source, without its LET.                       *)
(***************************************************************************)
LEMMA StartSourceFacts ==
  ASSUME Inv, StartSource
  PROVE  /\ pc = "dispatch" /\ i \in DOMAIN request.sources /\ i \in DOMAIN verdict
         /\ UNCHANGED <<request, i, ch, closed, distinct, reply>>
         /\ \/ /\ verdict' = verdict /\ pc' = "scraping" /\ up' \in {up, 0}
            \/ /\ verdict' = [verdict EXCEPT ![i] = "failed"]
               /\ pc' = "emitUp" /\ up' = 0 /\ err' \in ErrorTexts
<1> DEFINE kind == Dispatch(Source, request.isHWBroker)
           fails == \/ kind \notin {"semp1", "semp2"}
                    \/ kind = "semp2" /\ GetVpnNameFails(Source, request.defaultVpnSet)
           v == IF fails THEN "failed" ELSE verdict[i]
<1>1. /\ pc = "dispatch" /\ i <= Len(request.sources)
      /\ up' = IF kind = "semp1" THEN up ELSE 0
      /\ err' = CASE kind = "semp1" -> err
                  [] kind = "semp2" -> IF fails THEN "noDefaultVpn" ELSE ""
                  [] OTHER -> kind
      /\ verdict' = [verdict EXCEPT ![i] = v]
      /\ pc' = IF fails THEN "emitUp" ELSE "scraping"
      /\ UNCHANGED <<request, i, ch, closed, distinct, reply>>
  BY DEF StartSource
<1>2. /\ i \in DOMAIN request.sources
      /\ i \in DOMAIN verdict
      /\ verdict \in [DOMAIN request.sources -> Verdicts]
  <2>1. /\ request \in Requests /\ i \in 1..(Len(request.sources) + 1)
        /\ verdict \in [DOMAIN request.sources -> Verdicts]
    BY DEF Inv, TypeOK
  <2>2. i <= Len(request.sources)
    BY <1>1
  <2>3. DOMAIN request.sources = 1..Len(request.sources) /\ Len(request.sources) \in Nat
    BY <2>1, SourcesType
  <2> QED
    BY <2>1, <2>2, <2>3
<1>3. kind \in {"unknownTarget", "hardwareOnly", "softwareOnly", "semp1", "semp2"}
  BY DispatchKinds
<1>4. fails \in BOOLEAN
  OBVIOUS
<1> HIDE DEF kind
<1>5. CASE fails
  <2>1. up' = 0 /\ pc' = "emitUp" /\ verdict' = [verdict EXCEPT ![i] = "failed"]
    BY <1>1, <1>5
  <2>2. err' \in ErrorTexts
    BY <1>1, <1>3, <1>5 DEF ErrorTexts
  <2> QED
    BY <1>1, <1>2, <2>1, <2>2
<1>6. CASE ~fails
  <2>1. verdict' = verdict
    BY <1>1, <1>2, <1>6
  <2>2. pc' = "scraping" /\ up' \in {up, 0}
    BY <1>1, <1>6
  <2> QED
    BY <1>1, <1>2, <2>1, <2>2
<1> QED
  BY <1>5, <1>6

-----------------------------------------------------------------------------
LEMMA InvInitially == Init => Inv
<1> SUFFICES ASSUME Init PROVE Inv
  OBVIOUS
<1>1. request \in Requests /\ pc = "dispatch"
  BY DEF Init
<1>2. i = 1 /\ up = 0
  BY DEF Init
<1>3. ch = <<>>
  BY DEF Init
<1>4. verdict = [k \in DOMAIN request.sources |-> "pending"]
  BY DEF Init
<1>5. ~closed /\ reply = NoReply /\ closed \in BOOLEAN
  BY DEF Init
<1>6. DOMAIN request.sources = 1..Len(request.sources) /\ Len(request.sources) \in Nat
  BY <1>1, SourcesType
<1>7. TypeOK
  <2>1. Len(ch) <= CapMetricChan
    BY <1>3, CapAssumption
  <2>2. verdict \in [DOMAIN request.sources -> Verdicts]
    BY <1>4 DEF Verdicts
  <2>3. i \in 1..(Len(request.sources) + 1) /\ up \in {-1, 0, 1}
    BY <1>2, <1>6
  <2> QED
    BY <1>1, <1>5, <2>1, <2>2, <2>3 DEF TypeOK
<1>8. WorkerInv
  <2>1. ch \in Seq(Sent)
    BY <1>3
  <2> QED
    BY <1>1, <2>1 DEF WorkerInv
<1>9. VerdictInv
  <2>1. \A k \in DOMAIN verdict : verdict[k] = "pending"
    BY <1>4
  <2>2. \A k \in DOMAIN verdict : ~(k < i)
    BY <1>2, <1>4, <1>6
  <2> QED
    BY <1>1, <2>1, <2>2 DEF VerdictInv
<1> QED
  BY <1>5, <1>7, <1>8, <1>9 DEF Inv, ReplyInv

(***************************************************************************)
(* What Inv says of a state in which the worker has not returned, in one   *)
(* place.                                                                  *)
(***************************************************************************)
LEMMA WorkerFacts ==
  ASSUME Inv
  PROVE  /\ DOMAIN verdict = 1..Len(request.sources)
         /\ DOMAIN request.sources = 1..Len(request.sources)
         /\ Len(request.sources) \in Nat
         /\ i \in 1..(Len(request.sources) + 1)
         /\ verdict \in [DOMAIN request.sources -> Verdicts]
         /\ pc # "returned" => ~closed /\ reply = NoReply
<1>1. request \in Requests /\ verdict \in [DOMAIN request.sources -> Verdicts]
  BY DEF Inv, TypeOK
<1> QED
  BY <1>1, SourcesType DEF Inv, TypeOK, ReplyInv

LEMMA StartSourceInv == Inv /\ StartSource => Inv'
<1> SUFFICES ASSUME Inv, StartSource PROVE Inv'
  OBVIOUS
<1>1. /\ pc = "dispatch" /\ i \in DOMAIN request.sources /\ i \in DOMAIN verdict
      /\ UNCHANGED <<request, i, ch, closed, distinct, reply>>
  BY StartSourceFacts
<1>2. \/ /\ verdict' = verdict /\ pc' = "scraping" /\ up' \in {up, 0}
      \/ /\ verdict' = [verdict EXCEPT ![i] = "failed"]
         /\ pc' = "emitUp" /\ up' = 0 /\ err' \in ErrorTexts
  BY StartSourceFacts
<1>3. verdict' \in [DOMAIN request.sources -> Verdicts]
  BY <1>2, WorkerFacts DEF Verdicts
<1>4. TypeOK'
  <2>1. pc' \in {"dispatch", "scraping", "emitUp", "break", "returned"} /\ up' \in {-1, 0, 1}
    BY <1>2 DEF Inv, TypeOK
  <2> QED
    BY <1>1, <1>3, <2>1 DEF Inv, TypeOK
<1>5. WorkerInv'
  BY <1>1, <1>2 DEF Inv, WorkerInv
<1>6. VerdictInv'
  BY <1>1, <1>2, WorkerFacts DEF Inv, VerdictInv
<1>7. ReplyInv'
  BY <1>1, WorkerFacts DEF Inv, ReplyInv
<1> QED
  BY <1>4, <1>5, <1>6, <1>7 DEF Inv

LEMMA GetterSendsInv == ASSUME NEW m \in Metrics PROVE Inv /\ GetterSends(m) => Inv'
<1> SUFFICES ASSUME Inv, GetterSends(m) PROVE Inv'
  OBVIOUS
<1>1. /\ pc = "scraping" /\ Len(ch) < CapMetricChan /\ ch' = Append(ch, m)
      /\ UNCHANGED <<request, pc, i, up, err, closed, distinct, reply, verdict>>
  BY DEF GetterSends
<1>2. ch' \in Seq(Sent) /\ Len(ch') = Len(ch) + 1 /\ Len(ch) \in Nat
  <2>1. ch \in Seq(Sent) /\ m \in Sent
    BY DEF Inv, WorkerInv, Sent
  <2> QED
    BY <1>1, <2>1, AppendFacts
<1>3. TypeOK'
  BY <1>1, <1>2, CapAssumption DEF Inv, TypeOK
<1>4. WorkerInv'
  BY <1>1, <1>2 DEF Inv, WorkerInv
<1>5. VerdictInv'
  BY <1>1 DEF Inv, VerdictInv
<1>6. ReplyInv'
  BY <1>1, WorkerFacts DEF Inv, ReplyInv
<1> QED
  BY <1>3, <1>4, <1>5, <1>6 DEF Inv

LEMMA GetterReturnsInv == Inv /\ GetterReturns => Inv'
<1> SUFFICES ASSUME Inv, GetterReturns PROVE Inv'
  OBVIOUS
<1>1. /\ pc = "scraping" /\ pc' = "emitUp"
      /\ UNCHANGED <<request, i, ch, closed, distinct, reply>>
  BY DEF GetterReturns
<1>2. \/ up' = 1 /\ err' = "" /\ verdict' = [verdict EXCEPT ![i] = "ok"]
      \/ up' = 0 /\ err' \in Errors /\ verdict' = [verdict EXCEPT ![i] = "failed"]
      \/ up' = -1 /\ err' \in Errors /\ verdict' = [verdict EXCEPT ![i] = "unreachable"]
  BY DEF GetterReturns
<1>3. verdict' \in [DOMAIN request.sources -> Verdicts]
  BY <1>2, WorkerFacts DEF Verdicts
<1>4. i \in DOMAIN request.sources
  BY <1>1 DEF Inv, WorkerInv
<1>5. TypeOK'
  <2>1. up' \in {-1, 0, 1}
    BY <1>2
  <2> QED
    BY <1>1, <1>3, <2>1 DEF Inv, TypeOK
<1>6. WorkerInv'
  BY <1>1, <1>2, <1>4 DEF Inv, WorkerInv, ErrorTexts
<1>7. VerdictInv'
  BY <1>1, <1>2, <1>4, WorkerFacts DEF Inv, VerdictInv
<1>8. ReplyInv'
  BY <1>1, WorkerFacts DEF Inv, ReplyInv
<1> QED
  BY <1>5, <1>6, <1>7, <1>8 DEF Inv

LEMMA GetterPanicsInv == Inv /\ GetterPanics => Inv'
<1> SUFFICES ASSUME Inv, GetterPanics PROVE Inv'
  OBVIOUS
<1>1. /\ pc = "scraping" /\ pc' = "returned"
      /\ verdict' = [verdict EXCEPT ![i] = "panicked"]
      /\ UNCHANGED <<request, i, up, err, ch, closed, distinct, reply>>
  BY DEF GetterPanics
<1>2. verdict' \in [DOMAIN request.sources -> Verdicts]
  BY <1>1, WorkerFacts DEF Verdicts
<1>3. i \in DOMAIN request.sources
  BY <1>1 DEF Inv, WorkerInv
<1>4. TypeOK'
  BY <1>1, <1>2 DEF Inv, TypeOK
<1>5. WorkerInv'
  BY <1>1 DEF Inv, WorkerInv
<1>6. VerdictInv'
  BY <1>1, <1>3, WorkerFacts DEF Inv, VerdictInv
<1>7. ReplyInv'
  BY <1>1, WorkerFacts DEF Inv, ReplyInv
<1> QED
  BY <1>4, <1>5, <1>6, <1>7 DEF Inv

LEMMA EmitUpInv == Inv /\ EmitUp => Inv'
<1> SUFFICES ASSUME Inv, EmitUp PROVE Inv'
  OBVIOUS
<1>1. /\ pc = "emitUp" /\ Len(ch) < CapMetricChan /\ ch' = Append(ch, UpVerdict)
      /\ UNCHANGED <<request, up, err, closed, distinct, reply, verdict>>
  BY DEF EmitUp
<1>2. \/ up < 0 /\ pc' = "break" /\ i' = i
      \/ ~(up < 0) /\ pc' = "dispatch" /\ i' = i + 1
  BY DEF EmitUp
<1>3. ch' \in Seq(Sent) /\ Len(ch') = Len(ch) + 1 /\ Len(ch) \in Nat
  <2>1. ch \in Seq(Sent) /\ UpVerdict \in Sent
    BY <1>1, UpVerdictFacts DEF Inv, WorkerInv, Sent
  <2> QED
    BY <1>1, <2>1, AppendFacts
<1>4. i \in DOMAIN request.sources /\ i \in DOMAIN verdict
  BY <1>1, WorkerFacts DEF Inv, WorkerInv
<1>5. /\ i' \in 1..(Len(request.sources) + 1)
      /\ pc' \in {"dispatch", "break"}
      /\ pc' = "break" => i' = i /\ verdict[i] = "unreachable"
      /\ pc' = "dispatch" => i' = i + 1 /\ verdict[i] \in {"ok", "failed"}
  <2>1. up \in {-1, 0, 1}
    BY DEF Inv, TypeOK
  <2> QED
    BY <1>1, <1>2, <1>4, <2>1, WorkerFacts DEF Inv, VerdictInv
<1>6. TypeOK'
  BY <1>1, <1>3, <1>5, CapAssumption DEF Inv, TypeOK
<1>7. WorkerInv'
  BY <1>1, <1>3, <1>4, <1>5 DEF Inv, WorkerInv
<1>8. VerdictInv'
  BY <1>1, <1>4, <1>5, WorkerFacts DEF Inv, VerdictInv
<1>9. ReplyInv'
  BY <1>1, WorkerFacts DEF Inv, ReplyInv
<1> QED
  BY <1>6, <1>7, <1>8, <1>9 DEF Inv

LEMMA WorkerReturnsInv == Inv /\ WorkerReturns => Inv'
<1> SUFFICES ASSUME Inv, WorkerReturns PROVE Inv'
  OBVIOUS
<1>1. /\ pc = "break" \/ (pc = "dispatch" /\ i > Len(request.sources))
      /\ pc' = "returned"
      /\ UNCHANGED <<request, i, up, err, ch, closed, distinct, reply, verdict>>
  BY DEF WorkerReturns
<1>2. TypeOK'
  BY <1>1 DEF Inv, TypeOK
<1>3. WorkerInv'
  BY <1>1 DEF Inv, WorkerInv
<1>4. VerdictInv'
  BY <1>1, WorkerFacts DEF Inv, VerdictInv
<1>5. ReplyInv'
  BY <1>1, WorkerFacts DEF Inv, ReplyInv
<1> QED
  BY <1>2, <1>3, <1>4, <1>5 DEF Inv

LEMMA CloseChInv == Inv /\ CloseCh => Inv'
<1> SUFFICES ASSUME Inv, CloseCh PROVE Inv'
  OBVIOUS
<1>1. /\ pc = "returned" /\ closed' = TRUE /\ ~closed
      /\ UNCHANGED <<request, pc, i, up, err, ch, distinct, reply, verdict>>
  BY DEF CloseCh
<1>2. TypeOK'
  BY <1>1 DEF Inv, TypeOK
<1>3. WorkerInv' /\ VerdictInv'
  BY <1>1 DEF Inv, WorkerInv, VerdictInv
<1>4. ReplyInv'
  BY <1>1 DEF Inv, ReplyInv
<1> QED
  BY <1>2, <1>3, <1>4 DEF Inv

LEMMA ReceiveInv == Inv /\ Receive => Inv'
<1> SUFFICES ASSUME Inv, Receive PROVE Inv'
  OBVIOUS
<1>1. /\ ch # <<>> /\ ch' = Tail(ch)
      /\ UNCHANGED <<request, pc, i, up, err, closed, reply, verdict>>
  BY DEF Receive
<1>2. ch' \in Seq(Sent) /\ Len(ch') = Len(ch) - 1 /\ Len(ch) \in Nat
  <2>1. ch \in Seq(Sent)
    BY DEF Inv, WorkerInv
  <2> QED
    BY <1>1, <2>1, TailFacts
<1>3. TypeOK'
  BY <1>1, <1>2, CapAssumption DEF Inv, TypeOK
<1>4. WorkerInv'
  BY <1>1, <1>2 DEF Inv, WorkerInv
<1>5. VerdictInv'
  BY <1>1 DEF Inv, VerdictInv
<1>6. ReplyInv'
  BY <1>1 DEF Inv, ReplyInv
<1> QED
  BY <1>3, <1>4, <1>5, <1>6 DEF Inv

LEMMA AnswerInv == Inv /\ Answer => Inv'
<1> SUFFICES ASSUME Inv, Answer PROVE Inv'
  OBVIOUS
<1>1. /\ closed /\ ch = <<>> /\ reply' = distinct
      /\ UNCHANGED <<request, pc, i, up, err, ch, closed, distinct, verdict>>
  BY DEF Answer
<1>2. TypeOK'
  BY <1>1 DEF Inv, TypeOK
<1>3. WorkerInv' /\ VerdictInv'
  BY <1>1 DEF Inv, WorkerInv, VerdictInv
<1>4. ReplyInv'
  BY <1>1 DEF Inv, ReplyInv
<1> QED
  BY <1>2, <1>3, <1>4 DEF Inv

LEMMA InvStutters == Inv /\ UNCHANGED vars => Inv'
<1> SUFFICES ASSUME Inv, UNCHANGED vars PROVE Inv'
  OBVIOUS
<1>1. UNCHANGED <<request, pc, i, up, err, ch, closed, distinct, reply, verdict>>
  BY DEF vars
<1>2. TypeOK'
  BY <1>1 DEF Inv, TypeOK
<1>3. WorkerInv' /\ VerdictInv' /\ ReplyInv'
  BY <1>1 DEF Inv, WorkerInv, VerdictInv, ReplyInv
<1> QED
  BY <1>2, <1>3 DEF Inv

LEMMA InvStep == Inv /\ [Next]_vars => Inv'
<1> SUFFICES ASSUME Inv, [Next]_vars PROVE Inv'
  OBVIOUS
<1>1. CASE Worker
  <2>1. CASE \E m \in Metrics : GetterSends(m)
    BY <2>1, GetterSendsInv
  <2> QED
    BY <1>1, <2>1, StartSourceInv, GetterReturnsInv, GetterPanicsInv, EmitUpInv,
       WorkerReturnsInv DEF Worker
<1>2. CASE Done \/ UNCHANGED vars
  BY <1>2, InvStutters DEF Done
<1> QED
  BY <1>1, <1>2, CloseChInv, ReceiveInv, AnswerInv DEF Next

LEMMA InvHolds == SafetySpec => []Inv
<1> QED
  BY InvInitially, InvStep, PTL DEF SafetySpec

(***************************************************************************)
(* Types of a scrape, and that the channel holds no more than its          *)
(* capacity, for any data sources, metrics and capacity.                   *)
(***************************************************************************)
THEOREM TypeCorrect == SafetySpec => []TypeOK
<1>1. Inv => TypeOK
  BY DEF Inv
<1> QED
  BY <1>1, InvHolds, PTL

(***************************************************************************)
(* Every data source is tried in its turn, unless the broker was found     *)
(* unreachable or a getter panicked before, for any list of data sources.  *)
(***************************************************************************)
THEOREM StopsCorrect == SafetySpec => []OnlyUnreachableStops
<1>1. Inv => OnlyUnreachableStops
  <2> SUFFICES ASSUME Inv, NEW k \in DOMAIN verdict
               PROVE  LET stopped == \E j \in 1..(k - 1) :
                                       verdict[j] \in {"unreachable", "panicked"}
                      IN  /\ stopped => verdict[k] = "pending"
                          /\ reply # NoReply /\ ~stopped => verdict[k] # "pending"
    BY DEF OnlyUnreachableStops
  <2>1. /\ DOMAIN verdict = 1..Len(request.sources) /\ Len(request.sources) \in Nat
        /\ i \in 1..(Len(request.sources) + 1)
        /\ k \in 1..Len(request.sources)
    BY WorkerFacts
  <2>2. ASSUME NEW j \in 1..(k - 1), verdict[j] \in {"unreachable", "panicked"}
        PROVE  verdict[k] = "pending"
    <3>1. j \in DOMAIN verdict /\ j < k
      BY <2>1
    <3>2. ~(j < i)
      BY <2>2, <3>1 DEF Inv, VerdictInv
    <3> QED
      BY <2>1, <3>1, <3>2 DEF Inv, VerdictInv
  <2>3. ASSUME reply # NoReply, verdict[k] = "pending"
        PROVE  \E j \in 1..(k - 1) : verdict[j] \in {"unreachable", "panicked"}
    <3>1. pc = "returned"
      BY <2>3 DEF Inv, ReplyInv
    <3>2. ~(k < i)
      BY <2>3 DEF Inv, VerdictInv
    <3>3. i \in DOMAIN verdict
      BY <2>1, <3>2
    <3>4. verdict[i] \in {"unreachable", "panicked"}
      BY <3>1, <3>3 DEF Inv, VerdictInv
    <3>5. i # k
      BY <2>3, <3>4
    <3> QED
      BY <2>1, <3>2, <3>4, <3>5
  <2> QED
    BY <2>2, <2>3
<1> QED
  BY <1>1, InvHolds, PTL

-----------------------------------------------------------------------------
(***************************************************************************)
(* The refinement.                                                         *)
(***************************************************************************)

(***************************************************************************)
(* The metrics sent under one name have a last one, and only one.          *)
(***************************************************************************)
LEMMA LastIndexExists ==
  ASSUME NEW S, NEW s \in Seq(S), NEW n, Occurs(s, n)
  PROVE  \E k \in DOMAIN s : s[k].name = n /\ \A j \in DOMAIN s : j > k => s[j].name # n
<1> DEFINE T == {d \in Nat : \E k \in DOMAIN s : s[k].name = n /\ d = Len(s) - k}
<1>1. DOMAIN s = 1..Len(s) /\ Len(s) \in Nat
  OBVIOUS
<1>2. T \subseteq Nat /\ T # {}
  <2>1. PICK k \in DOMAIN s : s[k].name = n
    BY DEF Occurs
  <2>2. Len(s) - k \in T
    BY <1>1, <2>1
  <2> QED
    BY <2>2
<1>3. PICK d \in T : \A y \in T : ~(<<y, d>> \in OpToRel(<, Nat))
  BY <1>2, WFMin, NatLessThanWellFounded
<1>4. \A y \in T : ~(y < d)
  BY <1>2, <1>3 DEF OpToRel
<1>5. PICK k \in DOMAIN s : s[k].name = n /\ d = Len(s) - k
  OBVIOUS
<1>6. ASSUME NEW j \in DOMAIN s, j > k, s[j].name = n
      PROVE  FALSE
  <2>1. Len(s) - j \in T /\ Len(s) - j < d
    BY <1>1, <1>5, <1>6
  <2> QED
    BY <1>4, <2>1
<1> QED
  BY <1>5, <1>6

LEMMA LastIndexIs ==
  ASSUME NEW S, NEW s \in Seq(S), NEW n, NEW k \in DOMAIN s, s[k].name = n,
         \A j \in DOMAIN s : j > k => s[j].name # n
  PROVE  LastIndex(s, n) = k
<1>1. /\ LastIndex(s, n) \in DOMAIN s
      /\ s[LastIndex(s, n)].name = n
      /\ \A j \in DOMAIN s : j > LastIndex(s, n) => s[j].name # n
  BY DEF LastIndex
<1>2. DOMAIN s = 1..Len(s) /\ Len(s) \in Nat
  OBVIOUS
<1> QED
  BY <1>1, <1>2

(***************************************************************************)
(* Overlaying a sequence is storing its metrics, at either end of it.      *)
(***************************************************************************)
NamesOf(s) == {s[k].name : k \in DOMAIN s}

LEMMA NamesOfAppend ==
  ASSUME NEW S, NEW s \in Seq(S), NEW x \in S
  PROVE  NamesOf(Append(s, x)) = NamesOf(s) \cup {x.name}
<1> DEFINE a == Append(s, x)
<1>1. /\ DOMAIN s = 1..Len(s) /\ DOMAIN a = 1..(Len(s) + 1)
      /\ Len(s) \in Nat
      /\ \A k \in 1..Len(s) : a[k] = s[k]
      /\ a[Len(s) + 1] = x
  BY AppendFacts
<1> HIDE DEF a
<1>2. NamesOf(a) = NamesOf(s) \cup {x.name}
  BY <1>1 DEF NamesOf
<1> QED
  BY <1>2 DEF a

LEMMA NamesOfTail ==
  ASSUME NEW S, NEW s \in Seq(S), s # <<>>
  PROVE  NamesOf(s) = NamesOf(Tail(s)) \cup {Head(s).name}
<1> DEFINE r == Tail(s)
           x == Head(s)
<1>1. /\ DOMAIN s = 1..Len(s) /\ DOMAIN r = 1..(Len(s) - 1)
      /\ Len(s) \in Nat \ {0}
      /\ \A k \in 1..(Len(s) - 1) : r[k] = s[k + 1]
      /\ x = s[1]
  BY TailFacts
<1> HIDE DEF x, r
<1>2. ASSUME NEW k \in DOMAIN s
      PROVE  s[k].name \in NamesOf(r) \cup {x.name}
  <2>1. CASE k = 1
    BY <1>1, <2>1
  <2>2. CASE k # 1
    <3>1. k - 1 \in DOMAIN r /\ r[k - 1] = s[k]
      BY <1>1, <2>2
    <3> QED
      BY <3>1 DEF NamesOf
  <2> QED
    BY <2>1, <2>2
<1>3. ASSUME NEW j \in DOMAIN r
      PROVE  r[j].name \in NamesOf(s)
  <2>1. j + 1 \in DOMAIN s /\ r[j] = s[j + 1]
    BY <1>1
  <2> QED
    BY <2>1 DEF NamesOf
<1>4. x.name \in NamesOf(s)
  BY <1>1 DEF NamesOf
<1>5. NamesOf(s) = NamesOf(r) \cup {x.name}
  BY <1>2, <1>3, <1>4 DEF NamesOf
<1> QED
  BY <1>5 DEF x, r

LEMMA OccursIsName == \A s, n : Occurs(s, n) <=> n \in NamesOf(s)
  BY DEF Occurs, NamesOf

LEMMA OverlaidParts ==
  \A d, s : /\ Overlaid(d, s) = [n \in DOMAIN Overlaid(d, s) |-> Overlaid(d, s)[n]]
            /\ DOMAIN Overlaid(d, s) = DOMAIN d \cup NamesOf(s)
            /\ \A n \in DOMAIN Overlaid(d, s) :
                 Overlaid(d, s)[n] = IF Occurs(s, n) THEN s[LastIndex(s, n)].value ELSE d[n]
  BY DEF Overlaid, NamesOf

LEMMA StoredParts ==
  \A d, x : /\ Stored(d, x) = [n \in DOMAIN Stored(d, x) |-> Stored(d, x)[n]]
            /\ DOMAIN Stored(d, x) = DOMAIN d \cup {x.name}
            /\ \A n \in DOMAIN Stored(d, x) :
                 Stored(d, x)[n] = IF n = x.name THEN x.value ELSE d[n]
  BY DEF Stored

LEMMA OverlaidAppend ==
  ASSUME NEW d, NEW S, NEW s \in Seq(S), NEW x \in S
  PROVE  Overlaid(d, Append(s, x)) = Stored(Overlaid(d, s), x)
<1> DEFINE a == Append(s, x)
           o == Overlaid(d, s)
<1>1. /\ a \in Seq(S) /\ DOMAIN s = 1..Len(s) /\ DOMAIN a = 1..(Len(s) + 1)
      /\ Len(s) \in Nat
      /\ \A k \in 1..Len(s) : a[k] = s[k]
      /\ a[Len(s) + 1] = x
  BY AppendFacts
<1> HIDE DEF a
<1>2. DOMAIN Overlaid(d, a) = DOMAIN Stored(o, x)
  <2>1. NamesOf(a) = NamesOf(s) \cup {x.name}
    BY NamesOfAppend DEF a
  <2>2. DOMAIN Overlaid(d, a) = DOMAIN d \cup NamesOf(a)
    BY OverlaidParts
  <2>3. DOMAIN o = DOMAIN d \cup NamesOf(s)
    BY OverlaidParts
  <2>4. DOMAIN Stored(o, x) = DOMAIN o \cup {x.name}
    BY StoredParts
  <2> QED
    BY <2>1, <2>2, <2>3, <2>4
<1>3. ASSUME NEW n \in DOMAIN Overlaid(d, a)
      PROVE  Overlaid(d, a)[n] = Stored(o, x)[n]
  <2>1. CASE n = x.name
    <3>1. LastIndex(a, n) = Len(s) + 1
      BY <1>1, <2>1, LastIndexIs
    <3>2. Occurs(a, n)
      BY <1>1, <2>1 DEF Occurs
    <3>3. Overlaid(d, a)[n] = x.value
      BY <1>1, <3>1, <3>2, OverlaidParts
    <3>4. Stored(o, x)[n] = x.value
      BY <1>2, <2>1, StoredParts
    <3> QED
      BY <3>3, <3>4
  <2>2. CASE n # x.name /\ Occurs(s, n)
    <3>1. PICK k \in DOMAIN s : /\ s[k].name = n
                                /\ \A j \in DOMAIN s : j > k => s[j].name # n
      BY <2>2, LastIndexExists
    <3>2. LastIndex(s, n) = k
      BY <3>1, LastIndexIs
    <3>3. k \in DOMAIN a /\ a[k] = s[k]
      BY <1>1
    <3>4. \A j \in DOMAIN a : j > k => a[j].name # n
      BY <1>1, <2>2, <3>1
    <3>5. LastIndex(a, n) = k
      BY <1>1, <3>1, <3>3, <3>4, LastIndexIs
    <3>6. Occurs(a, n)
      BY <3>1, <3>3 DEF Occurs
    <3>7. Overlaid(d, a)[n] = s[k].value
      BY <3>3, <3>5, <3>6, OverlaidParts
    <3>8. n \in DOMAIN o
      <4>1. n \in NamesOf(s)
        BY <2>2, OccursIsName
      <4>2. DOMAIN o = DOMAIN d \cup NamesOf(s)
        BY OverlaidParts
      <4> QED
        BY <4>1, <4>2
    <3>9. o[n] = s[k].value
      BY <2>2, <3>2, <3>8, OverlaidParts
    <3>10. Stored(o, x)[n] = o[n]
      BY <1>2, <2>2, StoredParts
    <3> QED
      BY <3>7, <3>9, <3>10
  <2>3. CASE n # x.name /\ ~Occurs(s, n)
    <3>1. ~Occurs(a, n)
      BY <1>1, <2>3 DEF Occurs
    <3>2. Overlaid(d, a)[n] = d[n]
      BY <3>1, OverlaidParts
    <3>3. Stored(o, x)[n] = o[n] /\ n \in DOMAIN o
      <4>1. n \in DOMAIN Stored(o, x)
        BY <1>2
      <4>2. DOMAIN Stored(o, x) = DOMAIN o \cup {x.name}
        BY StoredParts
      <4> HIDE DEF o
      <4>3. n \in DOMAIN o
        BY <2>3, <4>1, <4>2
      <4>4. Stored(o, x)[n] = o[n]
        BY <2>3, <4>1, StoredParts
      <4> QED
        BY <4>3, <4>4
    <3>4. o[n] = d[n]
      BY <2>3, <3>3, OverlaidParts
    <3> QED
      BY <3>2, <3>3, <3>4
  <2> QED
    BY <2>1, <2>2, <2>3
<1>4. Overlaid(d, a) = [n \in DOMAIN Overlaid(d, a) |-> Overlaid(d, a)[n]]
  BY OverlaidParts
<1>5. Stored(o, x) = [n \in DOMAIN Stored(o, x) |-> Stored(o, x)[n]]
  BY StoredParts
<1>6. Overlaid(d, a) = Stored(o, x)
  BY <1>2, <1>3, <1>4, <1>5
<1> QED
  BY <1>6 DEF a

LEMMA OverlaidReceive ==
  ASSUME NEW d, NEW S, NEW s \in Seq(S), s # <<>>
  PROVE  Overlaid(Stored(d, Head(s)), Tail(s)) = Overlaid(d, s)
<1> DEFINE x == Head(s)
           r == Tail(s)
           o == Stored(d, x)
<1>1. /\ r \in Seq(S) /\ DOMAIN s = 1..Len(s) /\ DOMAIN r = 1..(Len(s) - 1)
      /\ Len(s) \in Nat \ {0}
      /\ \A k \in 1..(Len(s) - 1) : r[k] = s[k + 1]
      /\ x = s[1]
  BY TailFacts
<1> HIDE DEF x, r
<1>2. DOMAIN Overlaid(o, r) = DOMAIN Overlaid(d, s)
  <2>1. NamesOf(s) = NamesOf(r) \cup {x.name}
    BY NamesOfTail DEF x, r
  <2>2. DOMAIN Overlaid(o, r) = DOMAIN o \cup NamesOf(r)
    BY OverlaidParts
  <2>3. DOMAIN Overlaid(d, s) = DOMAIN d \cup NamesOf(s)
    BY OverlaidParts
  <2>4. DOMAIN o = DOMAIN d \cup {x.name}
    BY StoredParts
  <2> QED
    BY <2>1, <2>2, <2>3, <2>4
<1>3. ASSUME NEW n \in DOMAIN Overlaid(d, s)
      PROVE  Overlaid(o, r)[n] = Overlaid(d, s)[n]
  <2>1. CASE Occurs(r, n)
    <3>1. PICK k \in DOMAIN r : /\ r[k].name = n
                                /\ \A j \in DOMAIN r : j > k => r[j].name # n
      BY <1>1, <2>1, LastIndexExists
    <3>2. LastIndex(r, n) = k
      <4>1. r \in Seq(S)
        BY <1>1
      <4> QED
        BY <3>1, <4>1, LastIndexIs
    <3>3. k + 1 \in DOMAIN s /\ s[k + 1] = r[k] /\ k \in Nat
      BY <1>1
    <3>4. ASSUME NEW j \in DOMAIN s, j > k + 1
          PROVE  s[j].name # n
      <4>1. j - 1 \in DOMAIN r /\ r[j - 1] = s[j] /\ j - 1 > k
        BY <1>1, <3>4
      <4> QED
        BY <3>1, <4>1
    <3>5. LastIndex(s, n) = k + 1
      BY <3>1, <3>3, <3>4, LastIndexIs
    <3>6. Occurs(s, n)
      BY <3>1, <3>3 DEF Occurs
    <3>7. Overlaid(d, s)[n] = r[k].value
      BY <3>3, <3>5, <3>6, OverlaidParts
    <3>8. Overlaid(o, r)[n] = r[k].value
      BY <1>2, <2>1, <3>2, OverlaidParts
    <3> QED
      BY <3>7, <3>8
  <2>2. CASE ~Occurs(r, n) /\ n = x.name
    <3>1. ASSUME NEW j \in DOMAIN s, j > 1
          PROVE  s[j].name # n
      <4>1. j - 1 \in DOMAIN r /\ r[j - 1] = s[j]
        BY <1>1, <3>1
      <4> QED
        BY <2>2, <4>1 DEF Occurs
    <3>2. 1 \in DOMAIN s /\ s[1].name = n
      BY <1>1, <2>2
    <3>3. LastIndex(s, n) = 1
      BY <3>1, <3>2, LastIndexIs
    <3>4. Occurs(s, n)
      BY <3>2 DEF Occurs
    <3>5. Overlaid(d, s)[n] = x.value
      BY <1>1, <3>3, <3>4, OverlaidParts
    <3>6. Overlaid(o, r)[n] = o[n]
      BY <1>2, <2>2, OverlaidParts
    <3>7. o[n] = x.value
      <4>1. DOMAIN o = DOMAIN d \cup {x.name}
        BY StoredParts
      <4>2. n \in DOMAIN o
        BY <2>2, <4>1
      <4> QED
        BY <2>2, <4>2, StoredParts
    <3> QED
      BY <3>5, <3>6, <3>7
  <2>3. CASE ~Occurs(r, n) /\ n # x.name
    <3>1. ~Occurs(s, n)
      <4>1. SUFFICES ASSUME NEW k \in DOMAIN s, s[k].name = n
                     PROVE  FALSE
        BY DEF Occurs
      <4>2. k # 1
        BY <1>1, <2>3, <4>1
      <4>3. k - 1 \in DOMAIN r /\ r[k - 1] = s[k]
        BY <1>1, <4>2
      <4> QED
        BY <2>3, <4>1, <4>3 DEF Occurs
    <3>2. Overlaid(d, s)[n] = d[n]
      BY <3>1, OverlaidParts
    <3>3. Overlaid(o, r)[n] = o[n]
      BY <1>2, <2>3, OverlaidParts
    <3>4. n \in DOMAIN d
      <4>1. DOMAIN Overlaid(d, s) = DOMAIN d \cup NamesOf(s)
        BY OverlaidParts
      <4>2. n \notin NamesOf(s)
        BY <3>1, OccursIsName
      <4> QED
        BY <4>1, <4>2
    <3>5. o[n] = d[n]
      <4>1. DOMAIN o = DOMAIN d \cup {x.name}
        BY StoredParts
      <4>2. n \in DOMAIN o
        BY <3>4, <4>1
      <4> QED
        BY <2>3, <4>2, StoredParts
    <3> QED
      BY <3>2, <3>3, <3>5
  <2> QED
    BY <2>1, <2>2, <2>3
<1>4. Overlaid(o, r) = [n \in DOMAIN Overlaid(o, r) |-> Overlaid(o, r)[n]]
  BY OverlaidParts
<1>5. Overlaid(d, s) = [n \in DOMAIN Overlaid(d, s) |-> Overlaid(d, s)[n]]
  BY OverlaidParts
<1>6. Overlaid(o, r) = Overlaid(d, s)
  BY <1>2, <1>3, <1>4, <1>5
<1> QED
  BY <1>6 DEF x, r

LEMMA OverlaidEmpty ==
  ASSUME NEW d, d = [n \in DOMAIN d |-> d[n]]
  PROVE  Overlaid(d, <<>>) = d
<1>1. \A n : ~Occurs(<<>>, n)
  BY DEF Occurs
<1>2. DOMAIN Overlaid(d, <<>>) = DOMAIN d
  <2>1. DOMAIN Overlaid(d, <<>>) = DOMAIN d \cup NamesOf(<<>>)
    BY OverlaidParts
  <2>2. NamesOf(<<>>) = {}
    BY DEF NamesOf
  <2> QED
    BY <2>1, <2>2
<1>3. \A n \in DOMAIN d : Overlaid(d, <<>>)[n] = d[n]
  BY <1>1, <1>2, OverlaidParts
<1>4. Overlaid(d, <<>>) = [n \in DOMAIN Overlaid(d, <<>>) |-> Overlaid(d, <<>>)[n]]
  BY OverlaidParts
<1> QED
  BY <1>2, <1>3, <1>4

-----------------------------------------------------------------------------
\* distinctMetrics is a map.
MapInv == distinct = [n \in DOMAIN distinct |-> distinct[n]]

LEMMA MapInitially == Init => MapInv
<1> SUFFICES ASSUME distinct = <<>> PROVE MapInv
  BY DEF Init
<1>1. distinct \in [{} -> {}]
  OBVIOUS
<1> QED
  BY <1>1 DEF MapInv

LEMMA MapStep == MapInv /\ [Next]_vars => MapInv'
<1> SUFFICES ASSUME MapInv, [Next]_vars PROVE MapInv'
  OBVIOUS
<1>1. CASE Receive
  <2>1. distinct' = Stored(distinct, Head(ch))
    BY <1>1 DEF Receive
  <2> QED
    BY <2>1, StoredParts DEF MapInv
<1>2. CASE UNCHANGED distinct
  BY <1>2 DEF MapInv
<1>3. Receive \/ UNCHANGED distinct
  BY DEF Next, Worker, StartSource, GetterSends, GetterReturns, GetterPanics, EmitUp,
         WorkerReturns, CloseCh, Answer, Done, vars
<1> QED
  BY <1>1, <1>2, <1>3

LEMMA MapHolds == SafetySpec => []MapInv
<1> QED
  BY MapInitially, MapStep, PTL DEF SafetySpec

LEMMA ReportStep ==
  ASSUME NEW m \in Metrics \cup AllUpSeries, Inv, pc # "returned", pc' # "returned",
         ch' = Append(ch, m), UNCHANGED <<distinct, reply>>
  PROVE  Promise!Report
<1>1. ch \in Seq(Sent) /\ m \in Sent
  BY DEF Inv, WorkerInv, Sent
<1>2. Overlaid(distinct', ch') = Stored(Overlaid(distinct, ch), m)
  BY <1>1, OverlaidAppend
<1>3. Overlaid(distinct', ch') =
        [n \in DOMAIN Overlaid(distinct, ch) \cup {m.name} |->
           IF n = m.name THEN m.value ELSE Overlaid(distinct, ch)[n]]
  BY <1>2 DEF Stored
<1>4. ~(pc = "returned") /\ (pc' = "returned") = (pc = "returned") /\ reply' = reply
  OBVIOUS
<1> QED
  BY <1>3, <1>4 DEF Promise!Report

LEMMA StutterStep ==
  ASSUME Overlaid(distinct', ch') = Overlaid(distinct, ch), reply' = reply,
         (pc' = "returned") = (pc = "returned")
  PROVE  UNCHANGED Promise!vars
  BY DEF Promise!vars

LEMMA RefinementStep == Inv /\ MapInv /\ [Next]_vars => [Promise!Next]_(Promise!vars)
<1> SUFFICES ASSUME Inv, MapInv, [Next]_vars PROVE Promise!Next \/ UNCHANGED Promise!vars
  OBVIOUS
<1>1. CASE StartSource
  <2>1. pc = "dispatch" /\ pc' \in {"scraping", "emitUp"} /\ UNCHANGED <<ch, distinct, reply>>
    BY <1>1, StartSourceFacts
  <2> QED
    BY <2>1, StutterStep
<1>2. CASE \E m \in Metrics : GetterSends(m)
  <2>1. PICK m \in Metrics : GetterSends(m)
    BY <1>2
  <2>2. Promise!Report
    BY <2>1, ReportStep DEF GetterSends
  <2> QED
    BY <2>2 DEF Promise!Next
<1>3. CASE GetterReturns
  <2>1. pc = "scraping" /\ pc' = "emitUp" /\ UNCHANGED <<ch, distinct, reply>>
    BY <1>3 DEF GetterReturns
  <2> QED
    BY <2>1, StutterStep
<1>4. CASE GetterPanics \/ WorkerReturns
  <2>1. pc # "returned" /\ pc' = "returned" /\ UNCHANGED <<ch, distinct, reply>>
    BY <1>4 DEF GetterPanics, WorkerReturns
  <2> QED
    BY <2>1 DEF Promise!Next, Promise!Finish
<1>5. CASE EmitUp
  <2>1. /\ pc = "emitUp" /\ pc' \in {"break", "dispatch"}
        /\ ch' = Append(ch, UpVerdict) /\ UNCHANGED <<distinct, reply>>
    BY <1>5 DEF EmitUp
  <2>2. UpVerdict \in AllUpSeries
    BY <2>1, UpVerdictFacts
  <2>3. Promise!Report
    BY <2>1, <2>2, ReportStep
  <2> QED
    BY <2>3 DEF Promise!Next
<1>6. CASE CloseCh
  <2>1. UNCHANGED <<pc, ch, distinct, reply>>
    BY <1>6 DEF CloseCh
  <2> QED
    BY <2>1, StutterStep
<1>7. CASE Receive
  <2>1. /\ ch # <<>> /\ ch' = Tail(ch) /\ distinct' = Stored(distinct, Head(ch))
        /\ UNCHANGED <<pc, reply>>
    BY <1>7 DEF Receive
  <2>2. ch \in Seq(Sent)
    BY DEF Inv, WorkerInv
  <2>3. Overlaid(distinct', ch') = Overlaid(distinct, ch)
    BY <2>1, <2>2, OverlaidReceive
  <2> QED
    BY <2>1, <2>3, StutterStep
<1>8. CASE Answer
  <2>1. /\ closed /\ ch = <<>> /\ reply = NoReply /\ reply' = distinct
        /\ UNCHANGED <<pc, ch, distinct>>
    BY <1>8 DEF Answer
  <2>2. pc = "returned"
    BY <2>1 DEF Inv, ReplyInv
  <2>3. Overlaid(distinct, ch) = distinct
    BY <2>1, OverlaidEmpty DEF MapInv
  <2>4. Promise!Answer
    BY <2>1, <2>2, <2>3 DEF Promise!Answer
  <2> QED
    BY <2>4 DEF Promise!Next
<1>9. CASE Done \/ UNCHANGED vars
  <2>1. UNCHANGED <<pc, ch, distinct, reply>>
    BY <1>9 DEF Done, vars
  <2> QED
    BY <2>1, StutterStep
<1> QED
  BY <1>1, <1>2, <1>3, <1>4, <1>5, <1>6, <1>7, <1>8, <1>9 DEF Next, Worker

LEMMA RefinementInitially == Init => Promise!Init
<1> SUFFICES ASSUME Init PROVE Promise!Init
  OBVIOUS
<1>1. distinct = <<>> /\ ch = <<>> /\ reply = NoReply /\ pc = "dispatch"
  BY DEF Init
<1>2. Overlaid(distinct, ch) = <<>>
  BY <1>1, MapInitially, OverlaidEmpty DEF MapInv
<1> QED
  BY <1>1, <1>2 DEF Promise!Init

(***************************************************************************)
(* The goroutines and the channel implement a scrape, for any data         *)
(* sources, metrics, errors and channel capacity.                          *)
(***************************************************************************)
THEOREM Refinement == SafetySpec => ImplementsScrape
<1>1. SafetySpec => Promise!Spec
  BY InvHolds, MapHolds, RefinementInitially, RefinementStep, PTL DEF SafetySpec, Promise!Spec
<1> QED
  BY <1>1 DEF ImplementsScrape

-----------------------------------------------------------------------------
(***************************************************************************)
(* solace_up is truthful.  The samples received or still in the channel    *)
(* are, at any time, those of the data sources whose verdict was sent.     *)
(***************************************************************************)
Emitted(k) == verdict[k] \in {"ok", "failed", "unreachable"} /\ ~(pc = "emitUp" /\ k = i)

EndpointOf(k) == IF verdict[k] = "unreachable" THEN Global ELSE DsName(request.sources[k])

\* The name n is that of the sample the data source k calls for.
Tells(n, k) == n[1] = "up" /\ n[3] = EndpointOf(k) /\ (n[2] = "" <=> verdict[k] = "ok")

Known == DOMAIN distinct \cup NamesOf(ch)

\* The value of a sample follows from its name: 1 without an error, else 0.
Valued(n, v) == n[1] = "up" => v = IF n[2] = "" THEN 1 ELSE 0

UpInv ==
  /\ \A n \in Known : n[1] = "up" => \E k \in DOMAIN verdict : Emitted(k) /\ Tells(n, k)
  /\ \A k \in DOMAIN verdict : Emitted(k) => \E n \in Known : Tells(n, k)
  /\ \A n \in DOMAIN distinct : Valued(n, distinct[n])
  /\ \A j \in DOMAIN ch : Valued(ch[j].name, ch[j].value)

LEMMA UpInitially == Init => UpInv
<1> SUFFICES ASSUME Init PROVE UpInv
  OBVIOUS
<1>1. distinct = <<>> /\ ch = <<>>
  BY DEF Init
<1>2. Known = {}
  BY <1>1 DEF Known, NamesOf
<1>3. \A k \in DOMAIN verdict : verdict[k] = "pending"
  BY DEF Init
<1> QED
  BY <1>1, <1>2, <1>3 DEF UpInv, Emitted

(***************************************************************************)
(* A step that sends and receives nothing, and settles no verdict but that *)
(* of the data source whose sample is not sent yet.                        *)
(***************************************************************************)
LEMMA UpKept ==
  ASSUME Inv, UpInv, UNCHANGED <<request, ch, distinct>>, DOMAIN verdict' = DOMAIN verdict,
         \A k \in DOMAIN verdict : /\ Emitted(k)' <=> Emitted(k)
                                   /\ Emitted(k) => verdict'[k] = verdict[k]
  PROVE  UpInv'
<1>1. Known' = Known
  BY DEF Known
<1>2. \A k \in DOMAIN verdict : Emitted(k) => \A n : Tells(n, k)' <=> Tells(n, k)
  BY DEF Tells, EndpointOf
<1>3. \A n \in Known' : n[1] = "up" => \E k \in DOMAIN verdict' : Emitted(k)' /\ Tells(n, k)'
  BY <1>1, <1>2 DEF UpInv
<1>4. \A k \in DOMAIN verdict' : Emitted(k)' => \E n \in Known' : Tells(n, k)'
  BY <1>1, <1>2 DEF UpInv
<1>5. /\ \A n \in DOMAIN distinct' : Valued(n, distinct'[n])
      /\ \A j \in DOMAIN ch' : Valued(ch'[j].name, ch'[j].value)
  BY DEF UpInv
<1> QED
  BY <1>3, <1>4, <1>5 DEF UpInv

(***************************************************************************)
(* A step of the worker that sends nothing.                                *)
(***************************************************************************)
LEMMA UpQuiet ==
  Inv /\ UpInv /\ (StartSource \/ GetterReturns \/ GetterPanics \/ WorkerReturns) => UpInv'
<1> SUFFICES ASSUME Inv, UpInv, StartSource \/ GetterReturns \/ GetterPanics \/ WorkerReturns
             PROVE  UpInv'
  OBVIOUS
<1>1. CASE StartSource
  <2>1. /\ pc = "dispatch" /\ UNCHANGED <<request, ch, distinct, i>>
        /\ i \in DOMAIN verdict
        /\ \/ verdict' = verdict /\ pc' = "scraping"
           \/ verdict' = [verdict EXCEPT ![i] = "failed"] /\ pc' = "emitUp"
    BY <1>1, StartSourceFacts
  <2>2. verdict[i] = "pending"
    BY <2>1 DEF Inv, VerdictInv
  <2>3. DOMAIN verdict' = DOMAIN verdict
    BY <2>1
  <2>4. \A k \in DOMAIN verdict : /\ Emitted(k)' <=> Emitted(k)
                                  /\ Emitted(k) => verdict'[k] = verdict[k]
    BY <2>1, <2>2 DEF Emitted
  <2> QED
    BY <2>1, <2>3, <2>4, UpKept
<1>2. CASE GetterReturns
  <2>1. /\ pc = "scraping" /\ pc' = "emitUp" /\ UNCHANGED <<request, ch, distinct, i>>
        /\ \E v \in {"ok", "failed", "unreachable"} : verdict' = [verdict EXCEPT ![i] = v]
    BY <1>2 DEF GetterReturns
  <2>2. verdict[i] = "pending"
    BY <2>1, WorkerFacts DEF Inv, WorkerInv, VerdictInv
  <2>3. DOMAIN verdict' = DOMAIN verdict
    BY <2>1
  <2>4. \A k \in DOMAIN verdict : /\ Emitted(k)' <=> Emitted(k)
                                  /\ Emitted(k) => verdict'[k] = verdict[k]
    BY <2>1, <2>2 DEF Emitted
  <2> QED
    BY <2>1, <2>3, <2>4, UpKept
<1>3. CASE GetterPanics
  <2>1. /\ pc = "scraping" /\ pc' = "returned" /\ UNCHANGED <<request, ch, distinct, i>>
        /\ verdict' = [verdict EXCEPT ![i] = "panicked"]
    BY <1>3 DEF GetterPanics
  <2>2. verdict[i] = "pending"
    BY <2>1, WorkerFacts DEF Inv, WorkerInv, VerdictInv
  <2>3. DOMAIN verdict' = DOMAIN verdict
    BY <2>1
  <2>4. \A k \in DOMAIN verdict : /\ Emitted(k)' <=> Emitted(k)
                                  /\ Emitted(k) => verdict'[k] = verdict[k]
    BY <2>1, <2>2 DEF Emitted
  <2> QED
    BY <2>1, <2>3, <2>4, UpKept
<1>4. CASE WorkerReturns
  <2>1. /\ pc \in {"break", "dispatch"} /\ pc' = "returned"
        /\ UNCHANGED <<request, ch, distinct, i, verdict>>
    BY <1>4 DEF WorkerReturns
  <2>2. \A k \in DOMAIN verdict : Emitted(k)' <=> Emitted(k)
    BY <2>1 DEF Emitted
  <2> QED
    BY <2>1, <2>2, UpKept
<1> QED
  BY <1>1, <1>2, <1>3, <1>4

(***************************************************************************)
(* A getter's metric is no sample of solace_up.                            *)
(***************************************************************************)
LEMMA UpSends == ASSUME NEW m \in Metrics PROVE Inv /\ UpInv /\ GetterSends(m) => UpInv'
<1> SUFFICES ASSUME Inv, UpInv, GetterSends(m) PROVE UpInv'
  OBVIOUS
<1>1. /\ ch' = Append(ch, m)
      /\ UNCHANGED <<request, pc, i, distinct, verdict>>
  BY DEF GetterSends
<1>2. ch \in Seq(Sent) /\ m \in Sent
  BY DEF Inv, WorkerInv, Sent
<1>3. m.name[1] # "up"
  BY MetricsAssumption
<1>4. Known' = Known \cup {m.name}
  BY <1>1, <1>2, NamesOfAppend DEF Known
<1>5. \A k : (Emitted(k)' <=> Emitted(k)) /\ \A n : Tells(n, k)' <=> Tells(n, k)
  BY <1>1 DEF Emitted, Tells, EndpointOf
<1>6. \A n \in Known' : n[1] = "up" => \E k \in DOMAIN verdict' : Emitted(k)' /\ Tells(n, k)'
  BY <1>1, <1>3, <1>4, <1>5 DEF UpInv
<1>7. \A k \in DOMAIN verdict' : Emitted(k)' => \E n \in Known' : Tells(n, k)'
  BY <1>1, <1>4, <1>5 DEF UpInv
<1>8. \A j \in DOMAIN ch' : Valued(ch'[j].name, ch'[j].value)
  <2>1. Valued(m.name, m.value)
    BY <1>3 DEF Valued
  <2>2. /\ DOMAIN ch' = 1..(Len(ch) + 1) /\ DOMAIN ch = 1..Len(ch) /\ Len(ch) \in Nat
        /\ \A j \in 1..Len(ch) : ch'[j] = ch[j]
        /\ ch'[Len(ch) + 1] = m
    BY <1>1, <1>2, AppendFacts
  <2>3. ASSUME NEW j \in DOMAIN ch' PROVE Valued(ch'[j].name, ch'[j].value)
    <3>1. j \in DOMAIN ch \/ j = Len(ch) + 1
      BY <2>2
    <3> QED
      BY <2>1, <2>2, <3>1 DEF UpInv
  <2> QED
    BY <2>3
<1>9. \A n \in DOMAIN distinct' : Valued(n, distinct'[n])
  BY <1>1 DEF UpInv
<1> QED
  BY <1>6, <1>7, <1>8, <1>9 DEF UpInv

(***************************************************************************)
(* The sample sent is the one the data source calls for.                   *)
(***************************************************************************)
LEMMA UpEmits == Inv /\ UpInv /\ EmitUp => UpInv'
<1> SUFFICES ASSUME Inv, UpInv, EmitUp PROVE UpInv'
  OBVIOUS
<1> DEFINE u == UpVerdict
<1>1. /\ pc = "emitUp" /\ pc' \in {"break", "dispatch"} /\ ch' = Append(ch, u)
      /\ UNCHANGED <<request, distinct, verdict>>
  BY DEF EmitUp
<1>2. ch \in Seq(Sent) /\ u \in Sent
  BY <1>1, UpVerdictFacts DEF Inv, WorkerInv, Sent
<1>3. i \in DOMAIN verdict
  BY <1>1, WorkerFacts DEF Inv, WorkerInv
<1>4. \/ up = 1 /\ verdict[i] = "ok"
      \/ up = 0 /\ verdict[i] = "failed"
      \/ up = -1 /\ verdict[i] = "unreachable"
  BY <1>1, <1>3 DEF Inv, VerdictInv
<1>5. /\ u.name[1] = "up"
      /\ u.name[3] = EndpointOf(i)
      /\ u.name[2] = "" <=> verdict[i] = "ok"
      /\ u.value = IF u.name[2] = "" THEN 1 ELSE 0
  <2>1. CASE up = 1 /\ verdict[i] = "ok"
    BY <1>1, <2>1, UpVerdictFacts DEF EndpointOf
  <2>2. CASE up = 0 /\ verdict[i] = "failed"
    BY <1>1, <2>2, UpVerdictFacts DEF EndpointOf
  <2>3. CASE up = -1 /\ verdict[i] = "unreachable"
    <3>1. EndpointOf(i) = Global /\ verdict[i] # "ok" /\ up # 1
      BY <2>3 DEF EndpointOf
    <3>2. /\ u.name[1] = "up" /\ u.name[2] # "" /\ u.value = 0
          /\ u.name[3] = Global
      <4>1. up = -1
        BY <2>3
      <4> QED
        BY <1>1, <3>1, <4>1, UpVerdictFacts, Zenon
    <3> HIDE DEF u
    <3> QED
      BY <3>1, <3>2
  <2> QED
    BY <1>4, <2>1, <2>2, <2>3
<1> HIDE DEF u
<1>6. Known' = Known \cup {u.name}
  BY <1>1, <1>2, NamesOfAppend DEF Known
<1>7. /\ \A k \in DOMAIN verdict : Emitted(k)' <=> (Emitted(k) \/ k = i)
      /\ \A k, n : Tells(n, k)' <=> Tells(n, k)
  <2>1. verdict[i] \in {"ok", "failed", "unreachable"}
    BY <1>4
  <2>2. \A k \in DOMAIN verdict : Emitted(k)' <=> (Emitted(k) \/ k = i)
    BY <1>1, <2>1 DEF Emitted
  <2>3. \A k, n : Tells(n, k)' <=> Tells(n, k)
    BY <1>1 DEF Tells, EndpointOf
  <2> QED
    BY <2>2, <2>3
<1>8. Tells(u.name, i)
  BY <1>5 DEF Tells
<1>9. \A n \in Known' : n[1] = "up" => \E k \in DOMAIN verdict' : Emitted(k)' /\ Tells(n, k)'
  BY <1>1, <1>3, <1>6, <1>7, <1>8 DEF UpInv
<1>10. \A k \in DOMAIN verdict' : Emitted(k)' => \E n \in Known' : Tells(n, k)'
  BY <1>1, <1>6, <1>7, <1>8 DEF UpInv
<1>11. \A j \in DOMAIN ch' : Valued(ch'[j].name, ch'[j].value)
  <2>1. Valued(u.name, u.value)
    BY <1>5 DEF Valued
  <2>2. /\ DOMAIN ch' = 1..(Len(ch) + 1) /\ DOMAIN ch = 1..Len(ch) /\ Len(ch) \in Nat
        /\ \A j \in 1..Len(ch) : ch'[j] = ch[j]
        /\ ch'[Len(ch) + 1] = u
    BY <1>1, <1>2, AppendFacts
  <2>3. ASSUME NEW j \in DOMAIN ch' PROVE Valued(ch'[j].name, ch'[j].value)
    <3>1. j \in DOMAIN ch \/ j = Len(ch) + 1
      BY <2>2
    <3> QED
      BY <2>1, <2>2, <3>1 DEF UpInv
  <2> QED
    BY <2>3
<1>12. \A n \in DOMAIN distinct' : Valued(n, distinct'[n])
  BY <1>1 DEF UpInv
<1> QED
  BY <1>9, <1>10, <1>11, <1>12 DEF UpInv

LEMMA UpReceives == Inv /\ UpInv /\ Receive => UpInv'
<1> SUFFICES ASSUME Inv, UpInv, Receive PROVE UpInv'
  OBVIOUS
<1> DEFINE x == Head(ch)
<1>1. /\ ch # <<>> /\ ch' = Tail(ch) /\ distinct' = Stored(distinct, x)
      /\ UNCHANGED <<request, pc, i, verdict>>
  BY DEF Receive
<1>2. ch \in Seq(Sent)
  BY DEF Inv, WorkerInv
<1>3. /\ DOMAIN ch = 1..Len(ch) /\ DOMAIN ch' = 1..(Len(ch) - 1) /\ Len(ch) \in Nat \ {0}
      /\ \A j \in 1..(Len(ch) - 1) : ch'[j] = ch[j + 1]
      /\ x = ch[1]
  BY <1>1, <1>2, TailFacts
<1>4. NamesOf(ch) = NamesOf(ch') \cup {x.name}
  BY <1>1, <1>2, NamesOfTail
<1> HIDE DEF x
<1>5. DOMAIN distinct' = DOMAIN distinct \cup {x.name}
  BY <1>1, StoredParts
<1>6. Known' = Known
  BY <1>4, <1>5 DEF Known
<1>7. \A k : (Emitted(k)' <=> Emitted(k)) /\ \A n : Tells(n, k)' <=> Tells(n, k)
  BY <1>1 DEF Emitted, Tells, EndpointOf
<1>8. /\ \A n \in Known' : n[1] = "up" => \E k \in DOMAIN verdict' : Emitted(k)' /\ Tells(n, k)'
      /\ \A k \in DOMAIN verdict' : Emitted(k)' => \E n \in Known' : Tells(n, k)'
  BY <1>1, <1>6, <1>7 DEF UpInv
<1>9. Valued(x.name, x.value)
  BY <1>3 DEF UpInv
<1>10. ASSUME NEW n \in DOMAIN distinct' PROVE Valued(n, distinct'[n])
  <2>1. distinct'[n] = IF n = x.name THEN x.value ELSE distinct[n]
    BY <1>1, StoredParts
  <2> QED
    BY <1>5, <1>9, <2>1 DEF UpInv
<1>11. ASSUME NEW j \in DOMAIN ch' PROVE Valued(ch'[j].name, ch'[j].value)
  <2>1. j + 1 \in DOMAIN ch /\ ch'[j] = ch[j + 1]
    BY <1>3
  <2> QED
    BY <2>1 DEF UpInv
<1> QED
  BY <1>8, <1>10, <1>11 DEF UpInv

LEMMA UpStep == Inv /\ UpInv /\ [Next]_vars => UpInv'
<1> SUFFICES ASSUME Inv, UpInv, [Next]_vars PROVE UpInv'
  OBVIOUS
<1>1. CASE Worker
  <2>1. CASE \E m \in Metrics : GetterSends(m)
    BY <2>1, UpSends
  <2> QED
    BY <1>1, <2>1, UpQuiet, UpEmits DEF Worker
<1>2. CASE CloseCh \/ Answer \/ Done \/ UNCHANGED vars
  <2>1. UNCHANGED <<request, pc, i, ch, distinct, verdict>>
    BY <1>2 DEF CloseCh, Answer, Done, vars
  <2>2. \A k \in DOMAIN verdict : Emitted(k)' <=> Emitted(k)
    BY <2>1 DEF Emitted
  <2> QED
    BY <2>1, <2>2, UpKept
<1> QED
  BY <1>1, <1>2, UpReceives DEF Next

LEMMA UpSampleSets ==
  ASSUME Inv, UpInv, reply # NoReply
  PROVE  UpSamples(reply) = TrueSamples
<1>1. reply = distinct /\ ch = <<>> /\ pc = "returned"
  BY DEF Inv, ReplyInv
<1>2. Known = DOMAIN reply
  <2>1. NamesOf(ch) = {}
    BY <1>1 DEF NamesOf
  <2> QED
    BY <1>1, <2>1 DEF Known
<1>3. \A k \in DOMAIN verdict : Emitted(k) <=> verdict[k] \in {"ok", "failed", "unreachable"}
  BY <1>1 DEF Emitted
<1> DEFINE Sample(n) == [endpoint |-> n[3], value |-> reply[n]]
           Truth(k) == [endpoint |-> EndpointOf(k), value |-> IF verdict[k] = "ok" THEN 1 ELSE 0]
<1>4. ASSUME NEW n \in DOMAIN reply, NEW k \in DOMAIN verdict, Tells(n, k)
      PROVE  Sample(n) = Truth(k)
  <2>1. n[3] = EndpointOf(k) /\ n[1] = "up" /\ (n[2] = "" <=> verdict[k] = "ok")
    BY <1>4 DEF Tells
  <2>2. reply[n] = IF n[2] = "" THEN 1 ELSE 0
    BY <1>1, <2>1 DEF UpInv, Valued
  <2>3. reply[n] = IF verdict[k] = "ok" THEN 1 ELSE 0
    BY <2>1, <2>2
  <2> QED
    BY <2>1, <2>3
<1>5. UpSamples(reply) = {Sample(n) : n \in {m \in DOMAIN reply : m[1] = "up"}}
  BY DEF UpSamples
<1>6. TrueSamples = {Truth(k) : k \in {j \in DOMAIN verdict : verdict[j] \in {"ok", "failed", "unreachable"}}}
  BY DEF TrueSamples, EndpointOf
<1> HIDE DEF Sample, Truth
<1>7. ASSUME NEW n \in DOMAIN reply, n[1] = "up"
      PROVE  Sample(n) \in TrueSamples
  <2>1. PICK k \in DOMAIN verdict : Emitted(k) /\ Tells(n, k)
    BY <1>2, <1>7 DEF UpInv
  <2> QED
    BY <1>3, <1>4, <1>6, <2>1
<1>8. ASSUME NEW k \in DOMAIN verdict, verdict[k] \in {"ok", "failed", "unreachable"}
      PROVE  Truth(k) \in UpSamples(reply)
  <2>1. PICK n \in DOMAIN reply : Tells(n, k)
    BY <1>2, <1>3, <1>8 DEF UpInv
  <2>2. n[1] = "up"
    BY <2>1 DEF Tells
  <2> QED
    BY <1>4, <1>5, <2>1, <2>2
<1> QED
  BY <1>5, <1>6, <1>7, <1>8

(***************************************************************************)
(* solace_up says of every data source what happened to it, for any data   *)
(* sources, metrics and errors.                                            *)
(***************************************************************************)
THEOREM UpCorrect == SafetySpec => []UpIsTruthful
<1>1. SafetySpec => []UpInv
  BY UpInitially, UpStep, InvHolds, PTL DEF SafetySpec
<1>2. Inv /\ UpInv => UpIsTruthful
  BY UpSampleSets DEF UpIsTruthful
<1> QED
  BY <1>1, <1>2, InvHolds, PTL

=============================================================================
