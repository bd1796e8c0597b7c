--------------------------- MODULE SempGetterProofs ---------------------------
(***************************************************************************)
(* Proofs about SempGetter for any items, any listing and any page sizes.  *)
(***************************************************************************)
EXTENDS SempGetter, TLAPS, FiniteSetTheorems, WellFoundedInduction

(***************************************************************************)
(* The shapes of the getters, and what the proofs need to know of them:    *)
(* deferred calls alone close the body only where there is one page, only  *)
(* such a getter may panic, one that looks at keys sends every other item,  *)
(* and an unreachable broker is never a success.                            *)
(***************************************************************************)
Shapes == {OnePage, OnePageSelecting, Paged("last", "both"),
           Paged("last", "explicit"), Paged("stale", "explicit"),
           Paged("none", "explicit"),
           [OnePage EXCEPT !.close = "explicit", !.odd = "skipped"],
           [OnePage EXCEPT !.close = "explicit"],
           [OnePage EXCEPT !.odd = "panics"],
           [Paged("last", "read") EXCEPT !.unreachable = 0],
           [Paged("last", "both") EXCEPT !.unreachable = 0],
           [Paged("last", "both") EXCEPT !.totals = TRUE],
           [Paged("stale", "explicit") EXCEPT !.totals = TRUE]}

LEMMA GettersHaveShapes == Getters \subseteq Shapes
BY DEF Getters, Shapes,
       GetAlarmSemp1, GetBridgeRemoteSemp1, GetClientProfileSemp1,
       GetClockDetailSemp1, GetClusterLinksSemp1, GetConfigSyncRouterSemp1,
       GetConfigSyncSemp1, GetDiskSemp1, GetGlobalSystemInfoSemp1,
       GetGlobalStatsSemp1, GetHealthSemp1, GetInterfaceHWSemp1,
       GetInterfaceSemp1, GetMemorySemp1, GetRaidSemp1, GetRedundancySemp1,
       GetSpoolStatsSemp1, GetStorageElementSemp1, GetVersionSemp1,
       GetVpnReplicationSemp1, GetEnvironmentSemp1, GetHardwareSemp1,
       GetReplicationStatsSemp1, GetBridgeClientCertSemp1,
       GetBridgeDetailSemp1, GetBridgeSemp1, GetBridgeStatsSemp1,
       GetConfigSyncVpnSemp1, GetVpnSemp1, GetVpnSpoolSemp1, GetVpnStatsSemp1,
       GetClientMessageSpoolStatsSemp1, GetMqttSessionSemp1,
       GetQueueDetailsSemp1, GetQueueRatesSemp1, GetQueueStatsSemp1,
       GetRdpStatsSemp1, GetRestConsumerStatsSemp1,
       GetTopicEndpointDetailsSemp1, GetTopicEndpointRatesSemp1,
       GetTopicEndpointStatsSemp1, GetClientStatsSemp1, GetRdpInfoSemp1,
       GetClientSemp1, GetClientSlowSubscriberSemp1,
       GetClientConnectionStatsSemp1, GetClientMessageSpoolEgressSemp1,
       GetSpoolSemp1, GetQueueStatsSemp2, queueStats, topicEndpointStats

LEMMA ShapeFacts ==
  ASSUME NEW s \in Getters
  PROVE  /\ s.close \in {"defer", "explicit", "both", "read"}
         /\ s.close = "defer" => ~s.paged
         /\ s.odd = "panics" => s.close = "defer"
         /\ s.key = "last" => s.odd = "sent"
         /\ s.unreachable \in {-1, 0}
<1> DEFINE Sound(r) == /\ r.close \in {"defer", "explicit", "both", "read"}
                       /\ r.close = "defer" => ~r.paged
                       /\ r.odd = "panics" => r.close = "defer"
                       /\ r.key = "last" => r.odd = "sent"
                       /\ r.unreachable \in {-1, 0}
<1>1. Sound(OnePage) /\ Sound(OnePageSelecting)
  BY DEF OnePage, OnePageSelecting
<1>2. Sound(Paged("last", "both")) /\ Sound(Paged("last", "explicit"))
  BY DEF Paged
<1>3. Sound(Paged("stale", "explicit")) /\ Sound(Paged("none", "explicit"))
  BY DEF Paged
<1>4. Sound([OnePage EXCEPT !.close = "explicit", !.odd = "skipped"])
  BY DEF OnePage
<1>5. Sound([OnePage EXCEPT !.close = "explicit"]) /\ Sound([OnePage EXCEPT !.odd = "panics"])
  BY DEF OnePage
<1>6. /\ Sound([Paged("last", "read") EXCEPT !.unreachable = 0])
      /\ Sound([Paged("last", "both") EXCEPT !.unreachable = 0])
  BY DEF Paged
<1>7. /\ Sound([Paged("last", "both") EXCEPT !.totals = TRUE])
      /\ Sound([Paged("stale", "explicit") EXCEPT !.totals = TRUE])
  BY DEF Paged
<1> HIDE DEF Sound
<1>8. Sound(s)
  BY <1>1, <1>2, <1>3, <1>4, <1>5, <1>6, <1>7, GettersHaveShapes DEF Shapes
<1> QED
  BY <1>8 DEF Sound

\* What a step does that sends x.
LEMMA Sending ==
  ASSUME NEW x, sent \in Seq(Items \cup {Totals}), x \in Items \cup {Totals},
         sent' = Append(sent, x)
  PROVE  /\ sent' \in Seq(Items \cup {Totals})
         /\ DOMAIN sent' = DOMAIN sent \cup {Len(sent) + 1}
         /\ \A k \in DOMAIN sent : sent'[k] = sent[k]
         /\ sent'[Len(sent) + 1] = x
         /\ Sent' = Sent \cup {x}
<1>1. /\ sent' \in Seq(Items \cup {Totals})
      /\ DOMAIN sent' = DOMAIN sent \cup {Len(sent) + 1}
      /\ \A k \in DOMAIN sent : sent'[k] = sent[k]
      /\ sent'[Len(sent) + 1] = x
  OBVIOUS
<1> QED
  BY <1>1 DEF Sent

-----------------------------------------------------------------------------
(***************************************************************************)
(* Types.                                                                  *)
(***************************************************************************)
LEMMA PagesType ==
  ASSUME NEW p \in PageLists
  PROVE  p \in Seq(Seq(Items)) /\ p # <<>> /\ 1 \in DOMAIN p
BY PagesAssumption

LEMMA TypeInitially == Init => TypeOK
<1> SUFFICES ASSUME Init PROVE TypeOK
  OBVIOUS
<1>1. pages \in PageLists
  BY DEF Init
<1>2. page \in DOMAIN pages /\ pos \in 1..(Len(pages[page]) + 1)
  BY <1>1, PagesType DEF Init
<1> QED
  BY <1>1, <1>2 DEF Init, TypeOK

LEMMA TypeStep == TypeOK /\ [Next]_vars => TypeOK'
<1> SUFFICES ASSUME TypeOK, [Next]_vars PROVE TypeOK'
  OBVIOUS
<1>1. pages \in Seq(Seq(Items)) /\ page \in DOMAIN pages /\ pos \in 1..(Len(pages[page]) + 1)
      /\ pages[page] \in Seq(Items) /\ sent \in Seq(Items \cup {Totals})
  BY PagesType DEF TypeOK
<1>2. shape.unreachable \in {-1, 0}
  BY ShapeFacts DEF TypeOK
<1>3. CASE Start
  BY <1>3 DEF TypeOK, Start, Return
<1>4. CASE Request
  BY <1>2, <1>4 DEF TypeOK, Request, Return
<1>5. CASE Decode
  BY <1>5 DEF TypeOK, Decode, Return, ClosedByHand
<1>6. CASE Check
  <2>1. sent' = sent \/ sent' = Append(sent, Totals)
    BY <1>6 DEF Check, SendTotals
  <2>2. sent' \in Seq(Items \cup {Totals})
    BY <1>1, <2>1, Sending
  <2> QED
    BY <1>6, <2>2 DEF TypeOK, Check, Return, ClosedByHand
<1>7. CASE Report
  <2>1. pos \in DOMAIN pages[page] /\ Item \in Items
    BY <1>1, <1>7 DEF Report, Item
  <2>2. pos' \in 1..(Len(pages[page]) + 1)
    BY <1>1, <1>7 DEF Report
  <2>3. last \in Items \cup {NoKey} /\ Append(sent, Item) \in Seq(Items \cup {Totals})
    BY <1>1, <2>1 DEF TypeOK
  <2>4. last' = last \/ last' = Item
    BY <1>7 DEF Report
  <2>5. sent' = sent \/ sent' = Append(sent, Item)
    BY <1>7 DEF Report
  <2>6. sent' \in Seq(Items \cup {Totals})
    <3>1. CASE sent' = sent
      BY <1>1, <3>1
    <3>2. CASE sent' = Append(sent, Item)
      BY <2>3, <3>2
    <3> QED
      BY <2>5, <3>1, <3>2
  <2>7. last' \in Items \cup {NoKey}
    BY <2>1, <2>3, <2>4
  <2> QED
    BY <1>7, <2>2, <2>6, <2>7 DEF TypeOK, Report
<1>8. CASE Panic
  BY <1>8 DEF TypeOK, Panic
<1>9. CASE EndPage
  <2>1. CASE page < Len(pages)
    <3>1. page + 1 \in DOMAIN pages
      BY <1>1, <2>1
    <3>2. pages[page + 1] \in Seq(Items)
      BY <1>1, <3>1
    <3> QED
      BY <1>9, <2>1, <3>1, <3>2 DEF TypeOK, EndPage, ClosedByHand
  <2>2. CASE ~(page < Len(pages))
    BY <1>9, <2>2 DEF TypeOK, EndPage, ClosedByHand, Return
  <2> QED
    BY <2>1, <2>2
<1>10. CASE UNCHANGED vars
  BY <1>10 DEF TypeOK, vars
<1> QED
  BY <1>3, <1>4, <1>5, <1>6, <1>7, <1>8, <1>9, <1>10 DEF Next, Step, Ended

\* A getter stays in the listing it was given, asks for pages that exist and
\* sends items and totals only.
THEOREM TypeCorrect == SafetySpec => []TypeOK
<1>1. Init => TypeOK
  BY TypeInitially
<1>2. TypeOK /\ [Next]_vars => TypeOK'
  BY TypeStep
<1> QED
  BY <1>1, <1>2, PTL DEF SafetySpec

-----------------------------------------------------------------------------
(***************************************************************************)
(* Connections.  On the way out of every page the body must go; which of   *)
(* the two closes it depends on the shape, so the invariant ties the open  *)
(* page to what the shape has arranged for it.                             *)
(***************************************************************************)
ConnInv == /\ shape.paged \/ Len(pages) <= 1
           /\ open \subseteq {page}
           /\ pc \in {"start", "request", "returned", "panicked"} => open = {}
           /\ shape.close = "read" => open = {}
           /\ shape.close = "defer" => open \subseteq deferred

LEMMA ConnInitially == Init => ConnInv
<1> SUFFICES ASSUME Init PROVE ConnInv
  OBVIOUS
<1>1. shape.paged \/ Len(pages) = 1
  BY Zenon DEF Init
<1>2. Len(pages) = 1 => Len(pages) <= 1
  OBVIOUS
<1>3. shape.paged \/ Len(pages) <= 1
  BY <1>1, <1>2, Zenon
<1> QED
  BY <1>3 DEF Init, ConnInv

\* A return leaves nothing open.
LEMMA ReturnCloses ==
  ASSUME TypeOK, ConnInv
  PROVE  ClosedByHand(open) \ deferred = {}
<1>1. shape.close \in {"defer", "explicit", "both", "read"}
  BY ShapeFacts DEF TypeOK
<1> QED
  BY <1>1 DEF ConnInv, ClosedByHand

LEMMA ConnStep == TypeOK /\ ConnInv /\ [Next]_vars => ConnInv'
<1> SUFFICES ASSUME TypeOK, ConnInv, [Next]_vars PROVE ConnInv'
  OBVIOUS
<1>1. /\ shape.close \in {"defer", "explicit", "both", "read"}
      /\ shape.close = "defer" => ~shape.paged
      /\ shape.odd = "panics" => shape.close = "defer"
  BY ShapeFacts DEF TypeOK
<1>2. ClosedByHand(open) \ deferred = {}
  BY ReturnCloses
<1>3. CASE Start
  BY <1>3 DEF ConnInv, Start, Return
<1>4. CASE Request
  BY <1>1, <1>4 DEF ConnInv, Request, Return
<1>5. CASE Decode
  BY <1>2, <1>5 DEF ConnInv, Decode, Return
<1>6. CASE Check
  BY <1>2, <1>6 DEF ConnInv, Check, Return
<1>7. CASE Report
  BY <1>7 DEF ConnInv, Report
<1>8. CASE Panic
  <2>1. open \ deferred = {}
    BY <1>1, <1>8 DEF ConnInv, Panic
  <2> QED
    BY <1>8, <2>1 DEF ConnInv, Panic
<1>9. CASE EndPage
  <2>1. CASE page < Len(pages)
    <3>1. page \in Int /\ 1 <= page /\ Len(pages) \in Nat
      <4>1. page \in DOMAIN pages /\ pages \in Seq(Seq(Items))
        BY PagesType DEF TypeOK
      <4> QED
        BY <4>1
    <3>2. shape.close # "defer"
      <4>1. ~(Len(pages) <= 1)
        BY <2>1, <3>1
      <4>2. shape.paged
        BY <4>1, Zenon DEF ConnInv
      <4> QED
        BY <1>1, <4>2
    <3>3. ClosedByHand(open) = {}
      BY <1>1, <3>2 DEF ConnInv, ClosedByHand
    <3> QED
      BY <1>9, <2>1, <3>3 DEF ConnInv, EndPage
  <2>2. CASE ~(page < Len(pages))
    BY <1>2, <1>9, <2>2 DEF ConnInv, EndPage, Return
  <2> QED
    BY <2>1, <2>2
<1>10. CASE UNCHANGED vars
  BY <1>10 DEF ConnInv, vars
<1> QED
  BY <1>3, <1>4, <1>5, <1>6, <1>7, <1>8, <1>9, <1>10 DEF Next, Step, Ended

\* No getter leaves a response body open, on whichever page it ends and even if
\* it panics, and none holds two connections: the next page is asked for only
\* when the body of the last is closed.
THEOREM ConnectionsCorrect == SafetySpec => [](BodiesClosed /\ OneConnection)
<1>1. Init => TypeOK /\ ConnInv
  BY TypeInitially, ConnInitially
<1>2. TypeOK /\ ConnInv /\ [Next]_vars => (TypeOK /\ ConnInv)'
  BY TypeStep, ConnStep
<1>3. ConnInv => BodiesClosed /\ OneConnection
  <2>1. ASSUME ConnInv PROVE Cardinality(open) <= 1
    <3>1. open = {} \/ open = {page}
      BY <2>1 DEF ConnInv
    <3>2. Cardinality({}) = 0 /\ Cardinality({page}) = 1
      BY FS_EmptySet, FS_Singleton
    <3> QED
      BY <3>1, <3>2
  <2> QED
    BY <2>1 DEF ConnInv, BodiesClosed, OneConnection
<1> QED
  BY <1>1, <1>2, <1>3, PTL DEF SafetySpec

\* No getter ever holds two connections, and none while it asks for a page.
THEOREM OneConnectionCorrect == SafetySpec => []OneConnection
BY ConnectionsCorrect, PTL

-----------------------------------------------------------------------------
(***************************************************************************)
(* The return value.  What makes it truthful is that everything before the *)
(* item the getter is at has been dealt with: sent, now or on an earlier   *)
(* page, or passed over for being odd; and the totals before the items.    *)
(***************************************************************************)
DealtWith(item) == item \in Sent \/ (shape.odd = "skipped" /\ item \in Odd)

ReturnInv ==
  /\ Sent \subseteq Wanted
  /\ last = NoKey \/ last \in Sent
  /\ \A p \in 1..(page - 1) : \A k \in DOMAIN pages[p] : DealtWith(pages[p][k])
  /\ \A k \in 1..(pos - 1) : DealtWith(pages[page][k])
  /\ shape.totals /\ (pc = "report" \/ (pc = "returned" /\ code = 1)) => Totals \in Sent
  /\ pc = "returned" => /\ code = 1 <=> failure = "none"
                        /\ code = 1 => page = Len(pages) /\ pos > Len(pages[page])
                        /\ code = -1 => failure = "transport"

LEMMA ReturnInitially == Init => ReturnInv
<1> SUFFICES ASSUME Init PROVE ReturnInv
  OBVIOUS
<1>1. Sent = {}
  BY DEF Init, Sent
<1> QED
  BY <1>1 DEF Init, ReturnInv

\* What ReturnInv says of the items stays true in a step that sends nothing
\* and stays where it is.
LEMMA ReturnFrame ==
  ASSUME ReturnInv, UNCHANGED <<shape, pages, page, pos, last, sent>>,
         pc' = "report" => pc = "report",
         pc' = "returned" /\ code' = 1 => pc = "report" \/ (pc = "returned" /\ code = 1),
         pc' = "returned" => /\ (code = 1 <=> failure = "none")'
                             /\ code' = 1 => page = Len(pages) /\ pos > Len(pages[page])
                             /\ code' = -1 => failure' = "transport"
  PROVE  ReturnInv'
<1>1. Sent' = Sent /\ Wanted' = Wanted
  BY DEF Sent, Wanted, Listed
<1> QED
  BY <1>1 DEF ReturnInv, DealtWith

LEMMA CheckKeepsReturn ==
  ASSUME TypeOK, ReturnInv, Check
  PROVE  ReturnInv'
<1>1. UNCHANGED <<shape, pages, page, pos, last>> /\ Wanted' = Wanted
  BY DEF Check, Wanted, Listed
<1>2. CASE pc' = "report" /\ shape.totals /\ sent' = Append(sent, Totals)
  <2>1. Sent' = Sent \cup {Totals}
    BY <1>2, Sending DEF TypeOK
  <2>2. Totals \in Wanted
    BY <1>2 DEF Wanted
  <2> QED
    BY <1>1, <1>2, <2>1, <2>2 DEF ReturnInv, DealtWith
<1>3. CASE pc' = "report" /\ ~shape.totals /\ sent' = sent
  <2>1. Sent' = Sent
    BY <1>3 DEF Sent
  <2> QED
    BY <1>1, <1>3, <2>1 DEF ReturnInv, DealtWith
<1>4. CASE Return(0, "result") /\ sent' = sent
  BY <1>1, <1>4, ReturnFrame DEF Return
<1> QED
  BY <1>2, <1>3, <1>4 DEF Check, SendTotals

LEMMA ReportKeepsReturn ==
  ASSUME TypeOK, ReturnInv, Report
  PROVE  ReturnInv'
<1>1. /\ pages \in Seq(Seq(Items)) /\ page \in DOMAIN pages
      /\ pages[page] \in Seq(Items) /\ sent \in Seq(Items \cup {Totals})
      /\ pos \in 1..(Len(pages[page]) + 1)
  BY PagesType DEF TypeOK
<1>2. UNCHANGED <<shape, pages, page>> /\ pc = "report" /\ pc' = "report" /\ pos' = pos + 1
  BY DEF Report
<1>3. pos \in DOMAIN pages[page] /\ Item \in Items /\ Item \in Listed
  BY <1>1 DEF Report, Item, Listed
<1>4. Wanted' = Wanted
  BY <1>2 DEF Wanted, Listed
<1>5. /\ Sent \subseteq Sent' /\ Sent' \subseteq Wanted
      /\ last' = NoKey \/ last' \in Sent'
      /\ Item \in Sent' \/ (shape.odd = "skipped" /\ Item \in Odd)
  <2>1. CASE \/ shape.key = "last" /\ Item = last
             \/ shape.odd = "skipped" /\ Item \in Odd
    <3>1. Sent' = Sent /\ last' = last
      BY <2>1 DEF Report, Sent
    <3> QED
      BY <1>3, <2>1, <3>1, NoKeyAssumption DEF ReturnInv
  <2>2. CASE ~ \/ shape.key = "last" /\ Item = last
               \/ shape.odd = "skipped" /\ Item \in Odd
    <3>1. sent' = Append(sent, Item) /\ (last' = Item \/ last' = last)
      BY <2>2 DEF Report
    <3>2. Sent' = Sent \cup {Item}
      BY <1>1, <1>3, <3>1, Sending
    <3>3. Item \in Wanted
      BY <1>3, <2>2 DEF Wanted
    <3> QED
      BY <3>1, <3>2, <3>3 DEF ReturnInv
  <2> QED
    BY <2>1, <2>2
<1>6. \A p \in 1..(page' - 1) : \A k \in DOMAIN pages'[p] : DealtWith(pages[p][k])'
  BY <1>2, <1>5 DEF ReturnInv, DealtWith
<1>7. \A k \in 1..(pos' - 1) : DealtWith(pages[page][k])'
  <2>1. SUFFICES ASSUME NEW k \in 1..pos PROVE DealtWith(pages[page][k])'
    BY <1>1, <1>2
  <2>2. CASE k = pos
    BY <1>2, <1>5, <2>2 DEF DealtWith, Item
  <2>3. CASE k # pos
    <3>1. k \in 1..(pos - 1)
      BY <1>1, <2>3
    <3> QED
      BY <1>2, <1>5, <3>1 DEF ReturnInv, DealtWith
  <2> QED
    BY <2>2, <2>3
<1> QED
  BY <1>2, <1>4, <1>5, <1>6, <1>7 DEF ReturnInv

LEMMA EndPageKeepsReturn ==
  ASSUME TypeOK, ReturnInv, EndPage
  PROVE  ReturnInv'
<1>1. /\ pages \in Seq(Seq(Items)) /\ page \in DOMAIN pages
      /\ pages[page] \in Seq(Items)
      /\ pos \in 1..(Len(pages[page]) + 1)
  BY PagesType DEF TypeOK
<1>2. CASE page < Len(pages)
  <2>1. /\ UNCHANGED <<shape, pages, last, sent>> /\ pc' = "request"
        /\ page' = page + 1 /\ pos' = 1
    BY <1>2 DEF EndPage
  <2>2. Sent' = Sent /\ Wanted' = Wanted
    BY <2>1 DEF Sent, Wanted, Listed
  <2>3. \A p \in 1..(page' - 1) : \A k \in DOMAIN pages'[p] : DealtWith(pages[p][k])'
    <3>1. SUFFICES ASSUME NEW p \in 1..page, NEW k \in DOMAIN pages[p]
                   PROVE  DealtWith(pages[p][k])
      BY <1>1, <2>1, <2>2 DEF DealtWith
    <3>2. CASE p = page
      <4>1. k \in 1..(pos - 1)
        BY <1>1, <3>2 DEF EndPage
      <4> QED
        BY <3>2, <4>1 DEF ReturnInv
    <3>3. CASE p # page
      <4>1. p \in 1..(page - 1)
        BY <1>1, <3>3
      <4> QED
        BY <4>1 DEF ReturnInv
    <3> QED
      BY <3>2, <3>3
  <2>4. \A k \in 1..(pos' - 1) : DealtWith(pages[page][k])'
    BY <2>1
  <2> QED
    BY <2>1, <2>2, <2>3, <2>4 DEF ReturnInv
<1>3. CASE ~(page < Len(pages))
  <2>1. page = Len(pages) /\ pos > Len(pages[page])
    BY <1>1, <1>3 DEF EndPage
  <2> QED
    BY <1>3, <2>1, ReturnFrame DEF EndPage, Return
<1> QED
  BY <1>2, <1>3

LEMMA ReturnStep == TypeOK /\ ReturnInv /\ [Next]_vars => ReturnInv'
<1> SUFFICES ASSUME TypeOK, ReturnInv, [Next]_vars PROVE ReturnInv'
  OBVIOUS
<1>1. shape.unreachable \in {-1, 0}
  BY ShapeFacts DEF TypeOK
<1>2. CASE Start
  BY <1>2, ReturnFrame DEF Start, Return
<1>3. CASE Request
  BY <1>1, <1>3, ReturnFrame DEF Request, Return
<1>4. CASE Decode
  BY <1>4, ReturnFrame DEF Decode, Return
<1>5. CASE Check
  BY <1>5, CheckKeepsReturn
<1>6. CASE Report
  BY <1>6, ReportKeepsReturn
<1>7. CASE Panic
  BY <1>7, ReturnFrame DEF Panic
<1>8. CASE EndPage
  BY <1>8, EndPageKeepsReturn
<1>9. CASE UNCHANGED vars
  BY <1>9, ReturnFrame DEF vars, ReturnInv
<1> QED
  BY <1>2, <1>3, <1>4, <1>5, <1>6, <1>7, <1>8, <1>9 DEF Next, Step, Ended

\* A getter returns 1 exactly if nothing went wrong, and then everything the
\* broker listed, on all pages, has been sent; it returns -1 only if the broker
\* did not answer.  Exporter builds solace_up on this.
THEOREM ReturnCorrect == SafetySpec => []ReturnIsTruthful
<1>1. Init => TypeOK /\ ReturnInv
  BY TypeInitially, ReturnInitially
<1>2. TypeOK /\ ReturnInv /\ [Next]_vars => (TypeOK /\ ReturnInv)'
  BY TypeStep, ReturnStep
<1>3. TypeOK /\ ReturnInv => ReturnIsTruthful
  <2>1. SUFFICES ASSUME TypeOK, ReturnInv, pc = "returned", code = 1
                 PROVE  Wanted \subseteq Sent
    BY DEF ReturnInv, ReturnIsTruthful
  <2>2. /\ pages \in Seq(Seq(Items)) /\ page = Len(pages) /\ page \in DOMAIN pages
        /\ pages[page] \in Seq(Items)
        /\ pos \in 1..(Len(pages[page]) + 1) /\ pos > Len(pages[page])
    BY <2>1, PagesType DEF TypeOK, ReturnInv
  <2>3. \A p \in DOMAIN pages : \A k \in DOMAIN pages[p] : DealtWith(pages[p][k])
    <3>1. SUFFICES ASSUME NEW p \in DOMAIN pages, NEW k \in DOMAIN pages[p]
                   PROVE  DealtWith(pages[p][k])
      OBVIOUS
    <3>2. CASE p = page
      <4>1. k \in 1..(pos - 1)
        BY <2>2, <3>2
      <4> QED
        BY <2>1, <3>2, <4>1 DEF ReturnInv
    <3>3. CASE p # page
      <4>1. p \in 1..(page - 1)
        BY <2>2, <3>3
      <4> QED
        BY <2>1, <4>1 DEF ReturnInv
    <3> QED
      BY <3>2, <3>3
  <2>4. shape.totals => Totals \in Sent
    BY <2>1 DEF ReturnInv
  <2> QED
    BY <2>3, <2>4 DEF Wanted, Listed, DealtWith
<1> QED
  BY <1>1, <1>2, <1>3, PTL DEF SafetySpec

-----------------------------------------------------------------------------
(***************************************************************************)
(* Duplicates.  The key compared with is the last item dealt with, so an   *)
(* item that repeats what was sent is recognised at the only place where   *)
(* the broker may repeat it, also across a request in between.  The totals *)
(* sent in between are not taken for an item.                              *)
(***************************************************************************)
Passed(p, k) == p < page \/ (p = page /\ k < pos)

SentInv ==
  shape.key = "last" =>
    /\ \A j, k \in DOMAIN sent : sent[j] = sent[k] => j = k \/ sent[j] = Totals
    /\ \A x \in Sent \ {Totals} : \E p \in DOMAIN pages : \E k \in DOMAIN pages[p] :
         Passed(p, k) /\ pages[p][k] = x
    /\ pos > 1 => last = pages[page][pos - 1]
    /\ pos = 1 /\ page > 1 /\ pages[page - 1] # <<>>
         => last = pages[page - 1][Len(pages[page - 1])]

LEMMA SentInitially == Init => SentInv
<1> SUFFICES ASSUME Init PROVE SentInv
  OBVIOUS
<1>1. Sent = {} /\ sent = <<>> /\ page = 1 /\ pos = 1
  BY DEF Init, Sent
<1> QED
  BY <1>1 DEF SentInv

LEMMA SentFrame ==
  ASSUME SentInv, UNCHANGED <<shape, pages, page, pos, last, sent>>
  PROVE  SentInv'
BY DEF SentInv, Sent, Passed

\* What the getter is at has been sent only if it is the last item.
LEMMA RepeatedIsLast ==
  ASSUME TypeOK, SentInv, shape.key = "last", pos \in DOMAIN pages[page], Item \in Sent
  PROVE  Item = last
<1>1. /\ pages \in Seq(Seq(Items)) /\ page \in DOMAIN pages /\ pages[page] \in Seq(Items)
      /\ ListedOnce(pages)
  BY PagesType, ListingsAssumption DEF TypeOK
<1>8. Item # Totals
  BY <1>1, TotalsAssumption DEF Item
<1>0. PICK p \in DOMAIN pages : \E k \in DOMAIN pages[p] : Passed(p, k) /\ pages[p][k] = Item
  BY <1>8 DEF SentInv
<1>2. PICK k \in DOMAIN pages[p] : Passed(p, k) /\ pages[p][k] = Item
  BY <1>0
<1>3. \/ p = page /\ k = pos
      \/ page = p + 1 /\ k = Len(pages[p]) /\ pos = 1
      \/ p = page + 1 /\ pos = Len(pages[page]) /\ k = 1
  BY <1>1, <1>2 DEF ListedOnce, Item
<1>4. p \in Nat \ {0} /\ page \in Nat \ {0} /\ k \in Nat /\ pos \in Nat
  BY <1>1, <1>2 DEF TypeOK
<1>5. page = p + 1 /\ k = Len(pages[p]) /\ pos = 1
  BY <1>2, <1>3, <1>4 DEF Passed
<1>6. page > 1 /\ p = page - 1 /\ pages[page - 1] # <<>>
  <2>1. pages[p] # <<>>
    BY <1>2
  <2> QED
    BY <1>4, <1>5, <2>1
<1>7. last = pages[page - 1][Len(pages[page - 1])]
  BY <1>5, <1>6 DEF SentInv
<1> QED
  BY <1>2, <1>5, <1>6, <1>7

LEMMA ReportKeepsSent ==
  ASSUME TypeOK, SentInv, Report
  PROVE  SentInv'
<1>1. SUFFICES ASSUME shape.key = "last" PROVE SentInv'
  BY DEF SentInv, Report
<1>2. /\ pages \in Seq(Seq(Items)) /\ page \in DOMAIN pages
      /\ pages[page] \in Seq(Items) /\ sent \in Seq(Items \cup {Totals})
      /\ pos \in 1..(Len(pages[page]) + 1)
  BY PagesType DEF TypeOK
<1>3. UNCHANGED <<shape, pages, page>> /\ pos' = pos + 1
  BY DEF Report
<1>4. pos \in DOMAIN pages[page] /\ Item \in Items
  BY <1>2 DEF Report, Item
<1>5. shape.odd = "sent"
  BY <1>1, ShapeFacts DEF TypeOK
<1>6. \A p \in DOMAIN pages : \A k \in DOMAIN pages[p] : Passed(p, k) => Passed(p, k)'
  BY <1>2, <1>3 DEF Passed
<1>7. pos < pos' /\ pages'[page'][pos'- 1] = Item /\ pos' > 1
  BY <1>2, <1>3 DEF Item
<1>8. CASE Item = last
  <2>1. UNCHANGED <<last, sent>>
    BY <1>1, <1>8 DEF Report
  <2>2. Sent' = Sent
    BY <2>1 DEF Sent
  <2> QED
    BY <1>3, <1>6, <1>7, <1>8, <2>1, <2>2 DEF SentInv
<1>9. CASE Item # last
  <2>1. last' = Item /\ sent' = Append(sent, Item)
    BY <1>1, <1>5, <1>9 DEF Report
  <2>2. Item \notin Sent
    BY <1>1, <1>4, <1>9, RepeatedIsLast
  <2>3. /\ DOMAIN sent' = DOMAIN sent \cup {Len(sent) + 1}
        /\ \A k \in DOMAIN sent : sent'[k] = sent[k]
        /\ sent'[Len(sent) + 1] = Item
        /\ Sent' = Sent \cup {Item}
    BY <1>2, <1>4, <2>1, Sending
  <2>5. \A j, k \in DOMAIN sent' : sent'[j] = sent'[k] => j = k \/ sent'[j] = Totals
    <3>1. \A k \in DOMAIN sent : sent'[k] # Item
      BY <2>2, <2>3 DEF Sent
    <3>2. \A j, k \in DOMAIN sent : sent[j] = sent[k] => j = k \/ sent[j] = Totals
      BY <1>1 DEF SentInv
    <3> QED
      BY <2>3, <3>1, <3>2
  <2>6. \A x \in Sent' \ {Totals} : \E p \in DOMAIN pages : \E k \in DOMAIN pages[p] :
          Passed(p, k)' /\ pages[p][k] = x
    <3>1. TAKE x \in Sent' \ {Totals}
    <3>2. CASE x \in Sent
      BY <1>1, <1>6, <3>2 DEF SentInv
    <3>3. CASE x = Item
      BY <1>2, <1>3, <1>4, <1>7, <3>3 DEF Item, Passed
    <3> QED
      BY <2>3, <3>2, <3>3
  <2> QED
    BY <1>3, <1>7, <2>1, <2>5, <2>6 DEF SentInv
<1> QED
  BY <1>8, <1>9

LEMMA CheckKeepsSent ==
  ASSUME TypeOK, SentInv, Check
  PROVE  SentInv'
<1>1. UNCHANGED <<shape, pages, page, pos, last>>
  BY DEF Check
<1>2. CASE sent' = sent
  BY <1>1, <1>2, SentFrame
<1>3. CASE sent' = Append(sent, Totals)
  <2>1. /\ DOMAIN sent' = DOMAIN sent \cup {Len(sent) + 1}
        /\ \A k \in DOMAIN sent : sent'[k] = sent[k]
        /\ sent'[Len(sent) + 1] = Totals
        /\ Sent' = Sent \cup {Totals}
    BY <1>3, Sending DEF TypeOK
  <2>2. SUFFICES ASSUME shape.key = "last" PROVE SentInv'
    BY <1>1 DEF SentInv
  <2>3. \A j, k \in DOMAIN sent' : sent'[j] = sent'[k] => j = k \/ sent'[j] = Totals
    BY <2>1, <2>2 DEF SentInv
  <2>4. \A x \in Sent' \ {Totals} : x \in Sent \ {Totals}
    BY <2>1
  <2> QED
    BY <1>1, <2>2, <2>3, <2>4 DEF SentInv, Passed
<1> QED
  BY <1>2, <1>3 DEF Check, SendTotals

LEMMA EndPageKeepsSent ==
  ASSUME TypeOK, SentInv, EndPage
  PROVE  SentInv'
<1>1. SUFFICES ASSUME shape.key = "last" PROVE SentInv'
  BY DEF SentInv, EndPage
<1>2. /\ pages \in Seq(Seq(Items)) /\ page \in DOMAIN pages
      /\ pages[page] \in Seq(Items)
      /\ pos \in 1..(Len(pages[page]) + 1) /\ pos > Len(pages[page])
  BY PagesType DEF TypeOK, EndPage
<1>3. CASE page < Len(pages)
  <2>1. UNCHANGED <<shape, pages, last, sent>> /\ page' = page + 1 /\ pos' = 1
    BY <1>3 DEF EndPage
  <2>2. Sent' = Sent
    BY <2>1 DEF Sent
  <2>3. \A p \in DOMAIN pages : \A k \in DOMAIN pages[p] : Passed(p, k) => Passed(p, k)'
    BY <1>2, <2>1 DEF Passed
  <2>4. pages[page] # <<>> => last = pages[page][Len(pages[page])]
    <3>1. pages[page] # <<>> => pos > 1 /\ pos - 1 = Len(pages[page])
      BY <1>2
    <3> QED
      BY <1>1, <3>1 DEF SentInv
  <2>5. page' - 1 = page
    BY <1>2, <2>1
  <2> QED
    BY <1>1, <2>1, <2>2, <2>3, <2>4, <2>5 DEF SentInv
<1>4. CASE ~(page < Len(pages))
  BY <1>4, SentFrame DEF EndPage, Return
<1> QED
  BY <1>3, <1>4

LEMMA SentStep == TypeOK /\ SentInv /\ [Next]_vars => SentInv'
<1> SUFFICES ASSUME TypeOK, SentInv, [Next]_vars PROVE SentInv'
  OBVIOUS
<1>1. CASE Start
  BY <1>1, SentFrame DEF Start
<1>2. CASE Request
  BY <1>2, SentFrame DEF Request
<1>3. CASE Decode
  BY <1>3, SentFrame DEF Decode
<1>4. CASE Check
  BY <1>4, CheckKeepsSent
<1>5. CASE Report
  BY <1>5, ReportKeepsSent
<1>6. CASE Panic
  BY <1>6, SentFrame DEF Panic
<1>7. CASE EndPage
  BY <1>7, EndPageKeepsSent
<1>8. CASE UNCHANGED vars
  BY <1>8, SentFrame DEF vars
<1> QED
  BY <1>1, <1>2, <1>3, <1>4, <1>5, <1>6, <1>7, <1>8 DEF Next, Step, Ended

\* A getter that compares with the last item sends no item twice, on any
\* listing that repeats items at page boundaries only; what it may send again is
\* the totals, once per page.
THEOREM SentOnceCorrect == SafetySpec => []NoItemSentTwice
<1>1. Init => TypeOK /\ SentInv
  BY TypeInitially, SentInitially
<1>2. TypeOK /\ SentInv /\ [Next]_vars => (TypeOK /\ SentInv)'
  BY TypeStep, SentStep
<1>3. SentInv => NoItemSentTwice
  BY DEF SentInv, NoItemSentTwice
<1> QED
  BY <1>1, <1>2, <1>3, PTL DEF SafetySpec

-----------------------------------------------------------------------------
(***************************************************************************)
(* Going forward: the safety half of EveryGetterEnds.                      *)
(***************************************************************************)
Lefts == Nat \X Nat \X Nat

LEMMA LeftType == TypeOK => Left \in Lefts
<1> SUFFICES ASSUME TypeOK PROVE Left \in Lefts
  OBVIOUS
<1>1. /\ pages \in Seq(Seq(Items)) /\ page \in DOMAIN pages
      /\ pages[page] \in Seq(Items) /\ pos \in 1..(Len(pages[page]) + 1)
  BY PagesType DEF TypeOK
<1>2. Len(pages) - page \in Nat /\ Len(pages[page]) + 1 - pos \in Nat
  BY <1>1
<1>3. StagesLeft[pc] \in Nat
  BY DEF TypeOK, StagesLeft
<1> QED
  BY <1>2, <1>3 DEF Left, Lefts

\* No endless descent: there are only so many steps, however long the listing.
LEMMA LessIsWellFounded ==
  \A S \in SUBSET Lefts : S # {} => \E l \in S : \A m \in S : ~Less(m, l)
<1> SUFFICES ASSUME NEW S \in SUBSET Lefts, S # {}
             PROVE  \E l \in S : \A m \in S : ~Less(m, l)
  OBVIOUS
<1> DEFINE R == OpToRel(<, Nat)
<1>1. IsWellFoundedOn(R, Nat)
  BY NatLessThanWellFounded
<1>2. \A j, k \in Nat : j < k => <<j, k>> \in R
  BY DEF OpToRel
<1> HIDE DEF R
<1>3. ASSUME NEW T \in SUBSET Nat, T # {}
      PROVE  \E k \in T : \A j \in T : ~(j < k)
  BY <1>1, <1>2, <1>3, WFMin
<1>4. \A l \in S : l[1] \in Nat /\ l[2] \in Nat /\ l[3] \in Nat
  BY DEF Lefts
<1>5. PICK a \in {l[1] : l \in S} : \A j \in {l[1] : l \in S} : ~(j < a)
  <2>1. {l[1] : l \in S} \in SUBSET Nat /\ {l[1] : l \in S} # {}
    BY <1>4
  <2> QED
    BY <1>3, <2>1
<1> DEFINE A == {l \in S : l[1] = a}
<1>6. PICK b \in {l[2] : l \in A} : \A j \in {l[2] : l \in A} : ~(j < b)
  <2>1. {l[2] : l \in A} \in SUBSET Nat /\ {l[2] : l \in A} # {}
    BY <1>4, <1>5
  <2> QED
    BY <1>3, <2>1
<1> DEFINE B == {l \in A : l[2] = b}
<1>7. PICK c \in {l[3] : l \in B} : \A j \in {l[3] : l \in B} : ~(j < c)
  <2>1. {l[3] : l \in B} \in SUBSET Nat /\ {l[3] : l \in B} # {}
    BY <1>4, <1>6
  <2> QED
    BY <1>3, <2>1
<1>8. PICK l \in B : l[3] = c
  BY <1>7
<1>9. \A m \in S : ~Less(m, l)
  BY <1>5, <1>6, <1>7, <1>8 DEF Less
<1> QED
  BY <1>8, <1>9

LEMMA ForwardStep ==
  ASSUME TypeOK, Step
  PROVE  Less(Left', Left)
<1>1. /\ pages \in Seq(Seq(Items)) /\ page \in 1..Len(pages) /\ Len(pages) \in Nat
      /\ pos \in 1..(Len(pages[page]) + 1) /\ Len(pages[page]) \in Nat
  BY PagesType DEF TypeOK
<1>2. /\ Left[1] = Len(pages) - page /\ Left[2] = StagesLeft[pc]
      /\ Left[3] = Len(pages[page]) + 1 - pos
      /\ Left'[1] = Len(pages') - page' /\ Left'[2] = StagesLeft[pc']
      /\ Left'[3] = Len(pages'[page']) + 1 - pos'
  BY DEF Left
<1>3. /\ StagesLeft["start"] = 5 /\ StagesLeft["request"] = 4 /\ StagesLeft["decode"] = 3
      /\ StagesLeft["check"] = 2 /\ StagesLeft["report"] = 1
      /\ StagesLeft["returned"] = 0 /\ StagesLeft["panicked"] = 0
  BY DEF StagesLeft
\* The next stage of the same page.
<1>4. ASSUME UNCHANGED <<pages, page>>, StagesLeft[pc'] < StagesLeft[pc]
      PROVE  Less(Left', Left)
  BY <1>1, <1>2, <1>4 DEF Less
<1>5. CASE Start
  BY <1>3, <1>4, <1>5 DEF Start, Return
<1>6. CASE Request
  BY <1>3, <1>4, <1>6 DEF Request, Return
<1>7. CASE Decode
  BY <1>3, <1>4, <1>7 DEF Decode, Return
<1>8. CASE Check
  BY <1>3, <1>4, <1>8 DEF Check, Return
<1>9. CASE Report
  <2>1. UNCHANGED <<pages, page, pc>> /\ pos' = pos + 1
    BY <1>9 DEF Report
  <2>2. Left'[1] = Left[1] /\ Left'[2] = Left[2]
    BY <1>2, <2>1
  <2>3. Left'[3] = Len(pages[page]) + 1 - (pos + 1)
    BY <1>2, <2>1
  <2>4. Left'[3] < Left[3]
    <3>1. pos \in Int /\ Len(pages[page]) \in Int
      BY <1>1
    <3>2. Len(pages[page]) + 1 - (pos + 1) < Len(pages[page]) + 1 - pos
      <4>1. \A l, p \in Int : l + 1 - (p + 1) < l + 1 - p
        OBVIOUS
      <4> QED
        BY <3>1, <4>1
    <3>3. Left[3] = Len(pages[page]) + 1 - pos
      BY <1>2
    <3> QED
      BY <2>3, <3>2, <3>3
  <2> QED
    BY <2>2, <2>4 DEF Less
<1>10. CASE Panic
  BY <1>3, <1>4, <1>10 DEF Panic
<1>11. CASE EndPage
  <2>1. CASE page < Len(pages)
    BY <1>1, <1>2, <1>11, <2>1 DEF EndPage, Less
  <2>2. CASE ~(page < Len(pages))
    BY <1>3, <1>4, <1>11, <2>2 DEF EndPage, Return
  <2> QED
    BY <2>1, <2>2
<1> QED
  BY <1>5, <1>6, <1>7, <1>8, <1>9, <1>10, <1>11 DEF Step

\* Every step of every getter takes it forward, in an order without endless
\* descent: however long the listing, however large or empty its pages, and
\* whatever fails, a getter takes finitely many steps.  (That it takes them is
\* fairness, which EveryGetterEnds adds.)
THEOREM ForwardCorrect ==
  /\ SafetySpec => [](Left \in Lefts) /\ GoesForward
  /\ \A S \in SUBSET Lefts : S # {} => \E l \in S : \A m \in S : ~Less(m, l)
<1>1. Init => TypeOK
  BY TypeInitially
<1>2. TypeOK /\ [Next]_vars => TypeOK'
  BY TypeStep
<1>3. TypeOK => Left \in Lefts
  BY LeftType
<1>4. TypeOK /\ [Next]_vars => [Less(Left', Left)]_vars
  BY ForwardStep DEF Next, Ended
<1>5. SafetySpec => [](Left \in Lefts) /\ GoesForward
  BY <1>1, <1>2, <1>3, <1>4, PTL DEF SafetySpec, GoesForward
<1> QED
  BY <1>5, LessIsWellFounded

=============================================================================
