------------------------------ MODULE MCStartup ------------------------------
(***************************************************************************)
(* TLC instances of Startup.                                               *)
(***************************************************************************)
EXTENDS Startup

Name(target, number) == [target |-> target, number |-> number]
Value(parts, filters) == [parts |-> parts, filters |-> filters, metrics |-> {"rx"}]
Entry(target, number, value) == [name |-> Name(target, number), value |-> value]

SomeValues ==
  {Value(parts, filters) : parts \in 1..4, filters \in {"internal", "bridge", "a"}}

Option(env, ini) == [env |-> env, ini |-> ini]

\* One target twice; a value with a third part, one with four; a malformed one;
\* no entry at all; two sections; and the names of the exporter's own paths.
QueueRates == <<Entry("QueueRates", 0, Value(2, "internal")),
                Entry("QueueRates", 1, Value(2, "bridge"))>>
Mixed == <<Entry("QueueStatsV2", None, Value(3, "a")), Entry("Vpn", None, Value(4, "a"))>>
Malformed == <<Entry("Vpn", None, Value(2, "a")), Entry("Health", None, Value(1, "a"))>>

SectionLists ==
  {<<>>, "rates" :> QueueRates, "mixed" :> Mixed, "bad" :> Malformed, "none" :> <<>>,
   "rates" :> QueueRates @@ "mixed" :> Mixed, "metrics" :> Mixed @@ "rates" :> QueueRates,
   "solace" :> Mixed, "" :> Mixed}

\* The options alone, and TLS alone.
SomeSettings ==
  [prefetchInterval : {Option(None, None), Option(0, 60), Option(60, Bad), Option(Bad, 60)},
   parallelSempConnections : {Option(None, None), Option(None, 0), Option(3, 0), Option(Bad, 1)},
   complete : BOOLEAN, secrets : BOOLEAN, enableTLS : {FALSE}, certType : {None},
   certificate : {FALSE}, keystore : {FALSE}, sections : SectionLists]
  \cup
  [prefetchInterval : {Option(None, None)}, parallelSempConnections : {Option(None, None)},
   complete : {TRUE}, secrets : {FALSE}, enableTLS : BOOLEAN,
   certType : {None, "PEM", "PKCS12", "other"}, certificate : BOOLEAN, keystore : BOOLEAN,
   sections : {"mixed" :> Mixed}]

\* The sections' entries as parameters, a numbered one, malformed ones, none.
SomeForms ==
  {Name("QueueRates", None) :> <<Value(2, "internal"), Value(2, "bridge")>>,
   Name("QueueStatsV2", None) :> <<Value(3, "a")>> @@ Name("Vpn", None) :> <<Value(4, "a")>>,
   Name("QueueRates", 1) :> <<Value(2, "bridge")>>,
   Name("Vpn", None) :> <<Value(1, "a")>>,
   <<>>, Broken}
=============================================================================
