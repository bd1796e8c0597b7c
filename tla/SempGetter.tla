------------------------------ MODULE SempGetter ------------------------------
(***************************************************************************)
(* How one data source is read from the broker: the functions Get...Semp1  *)
(* and GetQueueStatsSemp2 (internal/semp/get*.go) on top of postHTTP and   *)
(* getHTTPbytes (internal/semp/http.go).  They are one algorithm in a few  *)
(* shapes: ask for a page, decode it, check the broker's verdict, send the *)
(* series of every item listed, go on with the page's cookie, and return 1,*)
(* 0 or -1.  What the shapes differ in is a record; each getter is mapped  *)
(* to the shape of its code.  Which series an item turns into is left out, *)
(* but not that two getters also send totals, anew with every page.        *)
(***************************************************************************)
EXTENDS Integers, Sequences, FiniteSets

CONSTANTS Items,       \* what a reply lists: VPNs, queues, clients, ...
          Odd,         \* items that lack what the getter needs of them
          PageLists    \* the replies of the broker, page by page

NoKey == "no item yet"   \* the initial "" of lastQueueName and its like

\* The series without an item that a reply has of all of them together: how many
\* bridges there are, how many of them are up, ...
Totals == "totals"

ASSUME OddAssumption == Odd \subseteq Items
ASSUME NoKeyAssumption == NoKey \notin Items
ASSUME TotalsAssumption == Totals \notin Items
ASSUME PagesAssumption == /\ PageLists \subseteq Seq(Seq(Items))
                          /\ <<>> \notin PageLists

\* A broker lists an item once, but may repeat the last one of a page at the
\* start of the next.
ListedOnce(list) ==
  \A p, q \in DOMAIN list : \A j \in DOMAIN list[p], k \in DOMAIN list[q] :
    list[p][j] = list[q][k] => \/ p = q /\ j = k
                               \/ q = p + 1 /\ j = Len(list[p]) /\ k = 1
                               \/ p = q + 1 /\ k = Len(list[q]) /\ j = 1

ASSUME ListingsAssumption == \A list \in PageLists : ListedOnce(list)

(***************************************************************************)
(* The shapes.                                                             *)
(*   paged        follows the cookie (or next page URI) of a reply         *)
(*   key          an item equal to the last one is skipped ("last"); the   *)
(*                last one is never updated ("stale"); no check ("none")   *)
(*   close        how the response body is closed: deferred ("defer"), by  *)
(*                a call on every path ("explicit"), both, or inside       *)
(*                getHTTPbytes, which reads it whole ("read")              *)
(*   odd          what becomes of an odd item: it is sent as any other     *)
(*                ("sent"), passed over ("skipped"), or makes the getter   *)
(*                panic ("panics")                                         *)
(*   totals       sends the totals of every page before the page's items     *)
(*   unreachable  the return value when no usable response arrives         *)
(***************************************************************************)
OnePage == [paged |-> FALSE, key |-> "none", close |-> "defer", odd |-> "sent",
            totals |-> FALSE, unreachable |-> -1]

\* Only some of what the reply lists is of interest.
OnePageSelecting == [OnePage EXCEPT !.odd = "skipped"]

Paged(key, close) == [paged |-> TRUE, key |-> key, close |-> close, odd |-> "sent",
                      totals |-> FALSE, unreachable |-> -1]

GetAlarmSemp1 == OnePage
GetBridgeRemoteSemp1 == OnePage
GetClientProfileSemp1 == OnePage
GetClockDetailSemp1 == OnePage
GetClusterLinksSemp1 == OnePage
GetConfigSyncRouterSemp1 == OnePage
GetConfigSyncSemp1 == OnePage
GetDiskSemp1 == OnePage
GetGlobalSystemInfoSemp1 == OnePage
GetGlobalStatsSemp1 == OnePage
GetHealthSemp1 == OnePage
GetInterfaceHWSemp1 == OnePage
GetInterfaceSemp1 == OnePage
GetMemorySemp1 == OnePage
GetRaidSemp1 == OnePage
GetRedundancySemp1 == OnePage
GetSpoolStatsSemp1 == OnePage
GetStorageElementSemp1 == OnePage
GetVersionSemp1 == OnePage
GetVpnReplicationSemp1 == OnePage

GetEnvironmentSemp1 == OnePageSelecting
GetHardwareSemp1 == OnePageSelecting
GetReplicationStatsSemp1 == OnePageSelecting

GetBridgeClientCertSemp1 == Paged("last", "both")
GetBridgeDetailSemp1 == Paged("last", "both")
GetBridgeStatsSemp1 == Paged("last", "both")
GetConfigSyncVpnSemp1 == Paged("last", "both")
GetVpnSemp1 == Paged("last", "both")
GetVpnSpoolSemp1 == Paged("last", "both")
GetVpnStatsSemp1 == Paged("last", "both")

GetClientMessageSpoolStatsSemp1 == Paged("last", "explicit")
GetMqttSessionSemp1 == Paged("last", "explicit")
GetQueueDetailsSemp1 == Paged("last", "explicit")
GetQueueRatesSemp1 == Paged("last", "explicit")
GetQueueStatsSemp1 == Paged("last", "explicit")
GetRdpStatsSemp1 == Paged("last", "explicit")
GetRestConsumerStatsSemp1 == Paged("last", "explicit")
GetTopicEndpointDetailsSemp1 == Paged("last", "explicit")
GetTopicEndpointRatesSemp1 == Paged("last", "explicit")
GetTopicEndpointStatsSemp1 == Paged("last", "explicit")

GetClientStatsSemp1 == Paged("stale", "explicit")

GetClientSemp1 == Paged("none", "explicit")
GetClientSlowSubscriberSemp1 == Paged("none", "explicit")

\* The totals are sent outside the loop over the items, so no key is compared.
GetBridgeSemp1 == [Paged("last", "both") EXCEPT !.totals = TRUE]
GetRdpInfoSemp1 == [Paged("stale", "explicit") EXCEPT !.totals = TRUE]

\* Closes on every path by hand, and passes over clients without a VPN.
GetClientConnectionStatsSemp1 == [OnePage EXCEPT !.close = "explicit", !.odd = "skipped"]

GetClientMessageSpoolEgressSemp1 == [OnePage EXCEPT !.close = "explicit"]

\* Cuts the last character off the message quota, which must not be empty.
GetSpoolSemp1 == [OnePage EXCEPT !.odd = "panics"]

\* SEMP v2: every failure is 0, an unreachable broker too.
GetQueueStatsSemp2 == [Paged("last", "read") EXCEPT !.unreachable = 0]

\* The ownership report (tools/endpointOwnershipStatistics.go) reads its listings
\* the same way, with an HTTP client of its own.  It sends nothing but collects
\* the items, and prints them (1) or, if anything fails, nothing (0).
queueStats == [Paged("last", "both") EXCEPT !.unreachable = 0]
topicEndpointStats == [Paged("last", "both") EXCEPT !.unreachable = 0]

Getters == {GetAlarmSemp1, GetBridgeRemoteSemp1, GetClientProfileSemp1,
            GetClockDetailSemp1, GetClusterLinksSemp1,
            GetConfigSyncRouterSemp1, GetConfigSyncSemp1, GetDiskSemp1,
            GetGlobalSystemInfoSemp1, GetGlobalStatsSemp1, GetHealthSemp1,
            GetInterfaceHWSemp1, GetInterfaceSemp1, GetMemorySemp1,
            GetRaidSemp1, GetRedundancySemp1, GetSpoolStatsSemp1,
            GetStorageElementSemp1, GetVersionSemp1,
            GetVpnReplicationSemp1, GetEnvironmentSemp1, GetHardwareSemp1,
            GetReplicationStatsSemp1, GetBridgeClientCertSemp1,
            GetBridgeDetailSemp1, GetBridgeSemp1, GetBridgeStatsSemp1,
            GetConfigSyncVpnSemp1, GetVpnSemp1, GetVpnSpoolSemp1,
            GetVpnStatsSemp1, GetClientMessageSpoolStatsSemp1,
            GetMqttSessionSemp1, GetQueueDetailsSemp1, GetQueueRatesSemp1,
            GetQueueStatsSemp1, GetRdpStatsSemp1,
            GetRestConsumerStatsSemp1, GetTopicEndpointDetailsSemp1,
            GetTopicEndpointRatesSemp1, GetTopicEndpointStatsSemp1,
            GetClientStatsSemp1, GetRdpInfoSemp1, GetClientSemp1,
            GetClientSlowSubscriberSemp1, GetClientConnectionStatsSemp1,
            GetClientMessageSpoolEgressSemp1, GetSpoolSemp1,
            GetQueueStatsSemp2, queueStats, topicEndpointStats}

VARIABLES
  shape,     \* the getter that runs
  pages,     \* what the broker will answer
  pc,        \* where the getter is
  page,      \* the page asked for
  pos,       \* the item of the page it is at
  last,      \* lastQueueName, lastVpnName, ...
  open,      \* pages whose response body is open
  deferred,  \* pages whose body a deferred call will close
  sent,      \* history: what is sent on ch, in order
  failure,   \* history: what went wrong
  code       \* the return value

vars == <<shape, pages, pc, page, pos, last, open, deferred, sent, failure, code>>

Item == pages[page][pos]

\* Return c: the deferred calls run.
Return(c, failed) ==
  /\ pc' = "returned"
  /\ code' = c
  /\ failure' = failed
  /\ deferred' = {}

\* What a usable reply has sent before the loop over its items.
SendTotals == sent' = IF shape.totals THEN Append(sent, Totals) ELSE sent

\* The body of the page is closed by hand, if this shape does that.
ClosedByHand(bodies) ==
  IF shape.close \in {"explicit", "both"} THEN bodies \ {page} ELSE bodies

-----------------------------------------------------------------------------
(***************************************************************************)
(* Faulty variants of the actions below, one per property.                 *)
(***************************************************************************)
\* TypeOK: the page counter is advanced at the request and at the cookie.
Request_CountsTwice ==
  /\ pc = "request"
  /\ \/ /\ open' = IF shape.close = "read" THEN open ELSE open \cup {page}
        /\ deferred' = IF shape.close \in {"defer", "both"}
                       THEN deferred \cup {page} ELSE deferred
        /\ pc' = "decode"
        /\ page' = page + 1
        /\ UNCHANGED <<failure, code>>
     \/ /\ Return(shape.unreachable, "transport")
        /\ open' = open \ deferred
        /\ UNCHANGED page
  /\ UNCHANGED <<shape, pages, pos, last, sent>>

\* BodiesClosed: no close when the broker reports an error.
Check_LeavesOpen ==
  /\ pc = "check"
  /\ \/ pc' = "report" /\ SendTotals /\ UNCHANGED <<open, deferred, failure, code>>
     \/ /\ Return(0, "result")
        /\ open' = open \ deferred
        /\ UNCHANGED sent
  /\ UNCHANGED <<shape, pages, page, pos, last>>

\* OneConnection: the deferred close is relied on inside the page loop.
EndPage_OnlyDeferred ==
  /\ pc = "report"
  /\ pos > Len(pages[page])
  /\ IF page < Len(pages)
     THEN /\ page' = page + 1
          /\ pos' = 1
          /\ pc' = "request"
          /\ UNCHANGED <<open, deferred, failure, code>>
     ELSE /\ Return(1, "none")
          /\ open' = ClosedByHand(open) \ deferred
          /\ UNCHANGED <<page, pos>>
  /\ UNCHANGED <<shape, pages, last, sent>>

\* ReturnIsTruthful: a duplicate ends the page instead of being passed over.
Report_Breaks ==
  /\ pc = "report"
  /\ pos <= Len(pages[page])
  /\ ~(shape.odd = "panics" /\ Item \in Odd)
  /\ IF \/ shape.key = "last" /\ Item = last
        \/ shape.odd = "skipped" /\ Item \in Odd
     THEN pos' = Len(pages[page]) + 1 /\ UNCHANGED <<last, sent>>
     ELSE /\ last' = IF shape.key = "last" THEN Item ELSE last
          /\ sent' = Append(sent, Item)
          /\ pos' = pos + 1
  /\ UNCHANGED <<shape, pages, pc, page, open, deferred, failure, code>>

\* NoItemSentTwice: the last key is forgotten at the start of a page.
Check_ForgetsLast ==
  /\ pc = "check"
  /\ \/ /\ pc' = "report" /\ last' = NoKey
        /\ SendTotals
        /\ UNCHANGED <<open, deferred, failure, code>>
     \/ /\ Return(0, "result")
        /\ open' = ClosedByHand(open) \ deferred
        /\ UNCHANGED <<last, sent>>
  /\ UNCHANGED <<shape, pages, page, pos>>

\* EveryGetterEnds: an empty page is asked for again.
EndPage_RetriesEmpty ==
  /\ pc = "report"
  /\ pos > Len(pages[page])
  /\ IF page < Len(pages) \/ (shape.paged /\ pages[page] = <<>>)
     THEN /\ page' = IF pages[page] = <<>> THEN page ELSE page + 1
          /\ pos' = 1
          /\ pc' = "request"
          /\ open' = ClosedByHand(open)
          /\ UNCHANGED <<deferred, failure, code>>
     ELSE /\ Return(1, "none")
          /\ open' = ClosedByHand(open) \ deferred
          /\ UNCHANGED <<page, pos>>
  /\ UNCHANGED <<shape, pages, last, sent>>

-----------------------------------------------------------------------------
Init == /\ shape \in Getters
        /\ pages \in {p \in PageLists : shape.paged \/ Len(p) = 1}
        /\ pc = "start"
        /\ page = 1
        /\ pos = 1
        /\ last = NoKey
        /\ open = {}
        /\ deferred = {}
        /\ sent = <<>>
        /\ failure = "none"
        /\ code = 0

\* Build the request.  For SEMP v2 a metric filter that names an unknown
\* metric is an error.
Start ==
  /\ pc = "start"
  /\ \/ pc' = "request" /\ UNCHANGED <<deferred, failure, code>>
     \/ shape.close = "read" /\ Return(0, "filter")
  /\ UNCHANGED <<shape, pages, page, pos, last, open, sent>>

\* postHTTP and getHTTPbytes: an HTTP response with an open body, or an error
\* (no connection, a timeout, an HTTP status they reject) and no body.
Request ==
  /\ pc = "request"
  /\ \/ /\ open' = IF shape.close = "read" THEN open ELSE open \cup {page}
        /\ deferred' = IF shape.close \in {"defer", "both"}
                       THEN deferred \cup {page} ELSE deferred
        /\ pc' = "decode"
        /\ UNCHANGED <<failure, code>>
     \/ /\ Return(shape.unreachable, "transport")
        /\ open' = open \ deferred
  /\ UNCHANGED <<shape, pages, page, pos, last, sent>>

\* Decode the reply.
Decode ==
  /\ pc = "decode"
  /\ \/ pc' = "check" /\ UNCHANGED <<open, deferred, failure, code>>
     \/ /\ Return(0, "decode")
        /\ open' = ClosedByHand(open) \ deferred
  /\ UNCHANGED <<shape, pages, page, pos, last, sent>>

\* ExecuteResult.OK(), or responseCode 200 with SEMP v2; then the totals of the
\* page, whatever the earlier pages sent.
Check ==
  /\ pc = "check"
  /\ \/ pc' = "report" /\ SendTotals /\ UNCHANGED <<open, deferred, failure, code>>
     \/ /\ Return(0, "result")
        /\ open' = ClosedByHand(open) \ deferred
        /\ UNCHANGED sent
  /\ UNCHANGED <<shape, pages, page, pos, last>>

\* One turn of the loop over the items of a page.
Report ==
  /\ pc = "report"
  /\ pos <= Len(pages[page])
  /\ ~(shape.odd = "panics" /\ Item \in Odd)
  /\ IF \/ shape.key = "last" /\ Item = last
        \/ shape.odd = "skipped" /\ Item \in Odd
     THEN UNCHANGED <<last, sent>>
     ELSE /\ last' = IF shape.key = "last" THEN Item ELSE last
          /\ sent' = Append(sent, Item)
  /\ pos' = pos + 1
  /\ UNCHANGED <<shape, pages, pc, page, open, deferred, failure, code>>

\* The panic unwinds the getter; there is no return value.  (The series of the
\* item sent before it are left out.)
Panic ==
  /\ pc = "report"
  /\ pos <= Len(pages[page])
  /\ shape.odd = "panics" /\ Item \in Odd
  /\ pc' = "panicked"
  /\ failure' = "panic"
  /\ open' = open \ deferred
  /\ deferred' = {}
  /\ UNCHANGED <<shape, pages, page, pos, last, sent, code>>

\* The end of a page: the next one if the reply had a cookie, else return 1.
EndPage ==
  /\ pc = "report"
  /\ pos > Len(pages[page])
  /\ IF page < Len(pages)
     THEN /\ page' = page + 1
          /\ pos' = 1
          /\ pc' = "request"
          /\ open' = ClosedByHand(open)
          /\ UNCHANGED <<deferred, failure, code>>
     ELSE /\ Return(1, "none")
          /\ open' = ClosedByHand(open) \ deferred
          /\ UNCHANGED <<page, pos>>
  /\ UNCHANGED <<shape, pages, last, sent>>

Ended == pc \in {"returned", "panicked"} /\ UNCHANGED vars

Step == Start \/ Request \/ Decode \/ Check \/ Report \/ Panic \/ EndPage

Next == Step \/ Ended

SafetySpec == Init /\ [][Next]_vars

\* The HTTP client's timeout ends every request, and what is sent on ch is
\* received (EveryScrapeEnds of Exporter).
Spec == SafetySpec /\ WF_vars(Step)

-----------------------------------------------------------------------------
(***************************************************************************)
(* Properties.                                                             *)
(***************************************************************************)
TypeOK == /\ shape \in Getters
          /\ pages \in PageLists
          /\ pc \in {"start", "request", "decode", "check", "report",
                    "returned", "panicked"}
          /\ page \in DOMAIN pages
          /\ pos \in 1..(Len(pages[page]) + 1)
          /\ last \in Items \cup {NoKey}
          /\ sent \in Seq(Items \cup {Totals})
          /\ open \subseteq DOMAIN pages
          /\ deferred \subseteq DOMAIN pages
          /\ failure \in {"none", "filter", "transport", "decode", "result", "panic"}
          /\ code \in {-1, 0, 1}

\* However a getter ends, on whichever page and even by a panic, no response
\* body stays open: an open body pins a connection to the broker.
BodiesClosed == pc \in {"returned", "panicked"} => open = {}

\* A getter holds one connection at a time: a page's body is closed before the
\* next page is asked for, deferred calls or not.
OneConnection == Cardinality(open) <= 1 /\ (pc = "request" => open = {})

\* What a getter has to send: the listed items, but odd ones if it selects, and
\* the totals if it reports them.
Listed == UNION {{pages[p][k] : k \in DOMAIN pages[p]} : p \in DOMAIN pages}
Wanted == (IF shape.odd = "skipped" THEN Listed \ Odd ELSE Listed)
          \cup (IF shape.totals THEN {Totals} ELSE {})
Sent == {sent[k] : k \in DOMAIN sent}

\* Exactly what Exporter builds solace_up on: a getter returns 1 if and only if
\* nothing went wrong on any page, and then every item of every page has been
\* sent, and the totals too, page boundaries and duplicates notwithstanding; it
\* returns -1 only if the broker did not answer, and what is sent is always
\* something the reply has.
ReturnIsTruthful ==
  /\ Sent \subseteq Wanted
  /\ pc = "returned" => /\ code = 1 <=> failure = "none"
                        /\ code = 1 => Sent = Wanted
                        /\ code = -1 => failure = "transport"

\* A getter that compares with the last item sends no item twice, although the
\* broker repeats the last item of a page at the start of the next.  The totals
\* are no item: GetBridgeSemp1 sends the same series anew with every page, and it
\* is up to the reader of ch to let the last one stand.
NoItemSentTwice ==
  shape.key = "last" =>
    \A j, k \in DOMAIN sent : sent[j] = sent[k] => j = k \/ sent[j] = Totals

\* What is left of a run: the pages after this one, what is to be done about
\* this one, and its items.
StagesLeft == [start |-> 5, request |-> 4, decode |-> 3, check |-> 2, report |-> 1,
               returned |-> 0, panicked |-> 0]
Left == <<Len(pages) - page, StagesLeft[pc], Len(pages[page]) + 1 - pos>>

\* Less is left, in the order of importance.
Less(l, m) == \/ l[1] < m[1]
              \/ l[1] = m[1] /\ l[2] < m[2]
              \/ l[1] = m[1] /\ l[2] = m[2] /\ l[3] < m[3]

\* A getter goes forward only: no page is asked for again, whatever the broker
\* answers, and no item is looked at again, so there is no retry to run for ever.
GoesForward == [][Less(Left', Left)]_vars

\* Every getter ends, also when pages are empty.
EveryGetterEnds == <>(pc \in {"returned", "panicked"})

=============================================================================
