-------------------------- MODULE RequestConfigProofs --------------------------
(***************************************************************************)
(* Proofs about RequestConfig for any requests, configurations, overrides, *)
(* versions, kinds, backends and contents of the path.                     *)
(***************************************************************************)
EXTENDS RequestConfig, TLAPS

LEMMA SecretsType ==
  /\ Len(Secrets) = 6
  /\ \A i \in 1..6 : Secrets[i] \in SecretFields
  /\ \A f \in SecretFields : \E i \in 1..6 : f = Secrets[i]
BY DEF Secrets, SecretFields

LEMMA FieldsType ==
  /\ SecretFields \subseteq Fields
  /\ Credentials \subseteq SecretFields
  /\ {"timeout", "isHWBroker", "scrapeURI", "oAuth"} \subseteq Fields
  /\ {"username", "password", "oAuthClientSecret"} \subseteq SecretFields
<1>1. Secrets[1] = "username" /\ Secrets[2] = "password" /\ Secrets[5] = "oAuthClientSecret"
  BY DEF Secrets
<1>2. \A i \in 1..6 : Secrets[i] \in SecretFields
  BY SecretsType
<1>3. {"username", "password", "oAuthClientSecret"} \subseteq SecretFields
  BY <1>1, <1>2
<1> QED
  BY <1>3 DEF Fields, Credentials

LEMMA Apart ==
  ASSUME NEW f \in SecretFields
  PROVE  f \notin {"timeout", "isHWBroker", "scrapeURI", "oAuth"}
<1>1. PICK i \in 1..6 : f = Secrets[i]
  BY SecretsType
<1> QED
  BY <1>1 DEF Secrets

-----------------------------------------------------------------------------
(***************************************************************************)
(* The invariant: how far the start and each request have come.            *)
(***************************************************************************)
Objects == {"base"} \cup Requests
Conf == [Fields -> Value]

\* The secrets that have been resolved hold no reference.
BaseInv ==
  /\ \A f \in Fields : heap["base"][f] \notin Requests
  /\ phase \in {"resolving", "serving"} =>
       \A i \in 1..6 : i < next => heap["base"][Secrets[i]] # Ref
  /\ phase = "parsing" => next = 1
  /\ phase = "serving" => next = 7 /\ authType = AuthTypeOf(heap["base"]) /\ authType # None

\* A request's copy differs from the configuration in what it has overridden.
RequestInv(r) ==
  pc[r] # "idle" =>
    /\ phase = "serving" /\ ptr[r] = r /\ given[r] \in Overrides
    /\ heap[r].timeout \in Expected(r, "timeout")
    /\ heap[r].isHWBroker \in Expected(r, "isHWBroker")
    /\ pc[r] = "username" => heap[r].username = heap["base"].username
    /\ pc[r] \in {"username", "password"} => heap[r].password = heap["base"].password
    /\ pc[r] \in {"username", "password", "scrapeURI"} =>
         heap[r].scrapeURI = heap["base"].scrapeURI
    /\ pc[r] \in {"password", "scrapeURI", "scraping"} =>
         heap[r].username \in Expected(r, "username")
    /\ pc[r] \in {"scrapeURI", "scraping"} => heap[r].password \in Expected(r, "password")
    /\ pc[r] = "scraping" => heap[r].scrapeURI \in Expected(r, "scrapeURI")

Inv == TypeOK /\ BaseInv /\ \A r \in Requests : RequestInv(r)

LEMMA OverrideType ==
  ASSUME NEW o \in Overrides
  PROVE  /\ o.username \in {"own", Ref, None} /\ o.password \in {"own", Ref, None}
         /\ o.timeout \in {"own", "bad", None} /\ o.isHWBroker \in {"own", "bad", None}
         /\ o.scrapeURI \in {"own", None}
BY OverridesAssumption

LEMMA AuthTypeType ==
  ASSUME NEW c PROVE AuthTypeOf(c) \in {"basic", "oauth", None}
BY DEF AuthTypeOf

LEMMA Initially == Init => Inv
<1> SUFFICES ASSUME Init PROVE Inv
  OBVIOUS
<1>1. PICK c \in Configurations : heap = [o \in Objects |-> IF o = "base" THEN c ELSE None]
  BY DEF Init, Objects
<1>2. c \in [Fields -> {Ref, Configured, Empty}]
  BY ConfigurationsAssumption
<1>3. heap["base"] = c /\ \A r \in Requests : heap[r] = None
  BY <1>1, DistinctAssumption DEF Objects
<1>4. c \in Conf
  BY <1>2 DEF Conf, Value
<1>5. heap \in [Objects -> Conf \cup {None}]
  BY <1>1, <1>4
<1>6. TypeOK
  BY <1>3, <1>4, <1>5, SecretsType DEF Init, TypeOK, Objects, Conf
<1>7. BaseInv
  BY <1>2, <1>3, DistinctAssumption DEF Init, BaseInv
<1> QED
  BY <1>6, <1>7 DEF Init, Inv, RequestInv

ResolverType ==
  /\ cache \in [SecretFields -> Versions \cup {Empty, None}]
  /\ flight \in [SecretFields -> {Stage("none"), Stage("asking")} \cup Result]
  /\ got \in [Callers -> {Stage("none"), Stage("missed"), Stage("waiting")} \cup Result]

VaultType == /\ ResolverType
             /\ IF kind = "dynamic" THEN current = None ELSE current \in Versions
             /\ leased \subseteq Versions

LEMMA VaultTyped == TypeOK => VaultType
BY DEF TypeOK, VaultType, ResolverType

LEMMA VaultFrame == VaultType /\ UNCHANGED <<kind, vault>> => VaultType'
BY DEF VaultType, ResolverType, vault, resolver

\* What a resolve's steps leave of the resolver.
LEMMA ResolvesType ==
  ASSUME ResolverType, NEW c \in Callers, NEW f \in SecretFields,
         NEW v \in Versions \cup {Empty}, Resolves(c, f, v)
  PROVE  ResolverType'
BY DEF Resolves, ResolverType, resolver

LEMMA ResolveFailsType ==
  ASSUME ResolverType, NEW c \in Callers, ResolveFails(c)
  PROVE  ResolverType'
BY DEF ResolveFails, ResolverType

\* ... and of what a call has for its callers.
LEMMA AskedType ==
  ASSUME TypeOK, NEW c \in Callers, Asked(c) # None
  PROVE  Asked(c) \in SecretFields
<1>1. CASE c = "base"
  <2>1. phase = "resolving" /\ next <= Len(Secrets) /\ Asked(c) = Secrets[next]
    BY <1>1 DEF Asked
  <2>2. next \in 1..6
    BY <2>1, SecretsType DEF TypeOK
  <2> QED
    BY <2>1, <2>2, SecretsType
<1>2. CASE c # "base"
  BY <1>2, FieldsType DEF Asked
<1> QED
  BY <1>1, <1>2

LEMMA WaitingType ==
  ASSUME ResolverType, NEW c \in Callers, Asked(c) \in SecretFields, Miss(c) \/ Join(c)
  PROVE  /\ ResolverType' /\ cache' = cache
         /\ \A d \in Callers \ {c} : got'[d] = got[d]
         /\ got'[c] \in {Stage("missed"), Stage("waiting")}
<1>1. CASE Miss(c)
  BY <1>1 DEF Miss, ResolverType
<1>2. CASE Join(c)
  <2> DEFINE f == Asked(c)
             new == IF cache[f] = None THEN Stage("asking")
                    ELSE [kind |-> "cached", value |-> cache[f]]
  <2>1. /\ got' = [got EXCEPT ![c] = Stage("waiting")] /\ cache' = cache
        /\ flight' = flight \/ flight' = [flight EXCEPT ![f] = new]
    BY <1>2 DEF Join
  <2>2. new \in {Stage("asking")} \cup Result
    BY DEF Result, ResolverType
  <2> QED
    BY <2>1, <2>2 DEF ResolverType
<1> QED
  BY <1>1, <1>2

LEMMA ReadType ==
  ASSUME VaultType, NEW f \in SecretFields, Read(f)
  PROVE  VaultType'
<1>1. PICK v \in Readable(f) :
        /\ flight' = [flight EXCEPT ![f] = [kind |-> "read", value |-> v]]
        /\ leased' = IF kind = "dynamic" THEN leased \cup ({v} \cap Versions) ELSE leased
  BY DEF Read
<1>2. UNCHANGED <<kind, cache, got, current>>
  BY DEF Read, process
<1>3. v \in Versions \cup {Empty}
  BY DEF Readable, Unused, VaultType
<1>4. [kind |-> "read", value |-> v] \in Result
  BY <1>3 DEF Result
<1> QED
  BY <1>1, <1>2, <1>4 DEF VaultType, ResolverType

-----------------------------------------------------------------------------
(***************************************************************************)
(* The start.  No request is under way.                                    *)
(***************************************************************************)
LEMMA LookStep ==
  ASSUME Inv, Parse \/ Serve
  PROVE  TypeOK' /\ BaseInv'
<1>1. /\ UNCHANGED <<heap, ptr, given, pc, cache, flight, got, current, leased>>
      /\ UNCHANGED <<kind, backend, next>>
      /\ \/ phase' = "exited" /\ authType' = authType
         \/ /\ phase = "parsing" /\ phase' = "resolving"
            /\ authType' = AuthTypeOf(heap["base"])
         \/ /\ phase = "resolving" /\ phase' = "serving" /\ next > 6
            /\ authType' = AuthTypeOf(heap["base"]) /\ authType' # None
  BY SecretsType DEF Parse, Serve, Exit, vault, resolver
<1>2. authType' \in {"basic", "oauth", None}
  BY <1>1, AuthTypeType DEF Inv, TypeOK
<1>3. phase' \in {"parsing", "resolving", "serving", "exited"}
  BY <1>1
<1>4. TypeOK'
  BY <1>1, <1>2, <1>3 DEF Inv, TypeOK
<1>5. CASE phase' = "exited"
  BY <1>1, <1>4, <1>5 DEF Inv, BaseInv
<1>6. CASE phase = "parsing" /\ phase' = "resolving"
  BY <1>1, <1>4, <1>6 DEF Inv, BaseInv
<1>7. CASE phase = "resolving" /\ phase' = "serving"
  <2>1. next = 7
    BY <1>1, <1>7, SecretsType DEF Inv, TypeOK
  <2> QED
    BY <1>1, <1>4, <1>7, <2>1 DEF Inv, BaseInv
<1> QED
  BY <1>1, <1>5, <1>6, <1>7

LEMMA SecretStep ==
  ASSUME Inv, ResolveSecret
  PROVE  TypeOK' /\ BaseInv'
<1> DEFINE f == Secrets[next]
<1>1. next \in 1..6 /\ f \in SecretFields /\ f \in Fields /\ phase = "resolving"
  BY SecretsType, FieldsType DEF ResolveSecret, Inv, TypeOK
<1>2. /\ UNCHANGED <<ptr, given, pc, kind, backend, authType, current, leased>>
      /\ \/ /\ heap["base"][f] # Ref /\ next' = next + 1
            /\ UNCHANGED <<phase, heap, resolver>>
         \/ /\ \E v \in Versions \cup {Empty} :
                  Resolves("base", f, v) /\ heap' = [heap EXCEPT !["base"][f] = v]
            /\ next' = next + 1 /\ UNCHANGED phase
         \/ phase' = "exited" /\ ResolveFails("base") /\ UNCHANGED <<heap, next>>
         \/ /\ heap["base"][f] = Ref /\ (Miss("base") \/ Join("base"))
            /\ UNCHANGED <<process, heap>>
  BY <1>1 DEF ResolveSecret, Exit, process
<1>6. TypeOK /\ ResolverType /\ "base" \in Callers
  BY VaultTyped DEF Inv, VaultType, Callers
<1>7. heap["base"][f] = Ref => Asked("base") = f
  BY <1>1, SecretsType DEF Asked
<1> HIDE DEF f
<1>3. CASE heap["base"][f] # Ref /\ next' = next + 1 /\ UNCHANGED <<phase, heap, resolver>>
  <2>1. next' \in 1..(Len(Secrets) + 1)
    BY <1>1, <1>3, SecretsType
  <2>2. TypeOK'
    BY <1>2, <1>3, <2>1 DEF Inv, TypeOK, resolver
  <2>3. \A i \in 1..6 : i < next' => heap["base"][Secrets[i]] # Ref
    <3> SUFFICES ASSUME NEW i \in 1..6, i < next' PROVE heap["base"][Secrets[i]] # Ref
      OBVIOUS
    <3>1. i < next \/ i = next
      BY <1>1, <1>3
    <3> QED
      BY <1>1, <1>3, <3>1 DEF Inv, BaseInv, f
  <2> QED
    BY <1>1, <1>3, <2>2, <2>3 DEF Inv, BaseInv
<1>4. ASSUME NEW v \in Versions \cup {Empty},
             Resolves("base", f, v), heap' = [heap EXCEPT !["base"][f] = v],
             next' = next + 1, UNCHANGED phase
      PROVE  TypeOK' /\ BaseInv'
  <2>1. next' \in 1..(Len(Secrets) + 1)
    BY <1>1, <1>4, SecretsType
  <2>2. heap \in [Objects -> Conf \cup {None}] /\ heap["base"] \in Conf
    BY DEF Inv, TypeOK, Objects, Conf
  <2>3. v \in Value /\ v # Ref /\ v \notin Requests
    BY DistinctAssumption DEF Value
  <2>4. heap'["base"] = [heap["base"] EXCEPT ![f] = v]
    BY <1>4, <2>2 DEF Objects
  <2>5. heap'["base"] \in Conf
    BY <2>2, <2>3, <2>4 DEF Conf
  <2>6. heap' \in [Objects -> Conf \cup {None}]
    BY <1>4, <2>2, <2>5, <2>4
  <2>7. \A r \in Requests : heap'[r] = heap[r]
    BY <1>4, <2>2, DistinctAssumption DEF Objects
  <2>8. TypeOK'
    <3>1. ResolverType'
      BY <1>1, <1>4, <1>6, ResolvesType
    <3>2. \A r \in Requests : IF pc'[r] = "idle" THEN heap'[r] = None
                                                 ELSE heap'[r] \in [Fields -> Value]
      BY <1>2, <2>7 DEF Inv, TypeOK
    <3>3. heap' \in [{"base"} \cup Requests -> [Fields -> Value] \cup {None}]
          /\ heap'["base"] \in [Fields -> Value]
      BY <2>5, <2>6 DEF Objects, Conf
    <3> QED
      BY <1>2, <1>4, <2>1, <3>1, <3>2, <3>3 DEF Inv, TypeOK, ResolverType
  <2>9. \A g \in Fields : heap'["base"][g] = IF g = f THEN v ELSE heap["base"][g]
    BY <2>2, <2>4 DEF Conf
  <2>10. \A g \in Fields : heap'["base"][g] \notin Requests
    BY <2>3, <2>9 DEF Inv, BaseInv
  <2>11. \A i \in 1..6 : i < next' => heap'["base"][Secrets[i]] # Ref
    <3> SUFFICES ASSUME NEW i \in 1..6, i < next' PROVE heap'["base"][Secrets[i]] # Ref
      OBVIOUS
    <3>1. i < next \/ i = next
      BY <1>1, <1>4
    <3>2. Secrets[i] \in Fields
      BY SecretsType, FieldsType
    <3>3. CASE i < next
      BY <1>1, <2>3, <2>9, <3>2, <3>3 DEF Inv, BaseInv
    <3>4. CASE i = next
      BY <2>3, <2>9, <3>2, <3>4 DEF f
    <3> QED
      BY <3>1, <3>3, <3>4
  <2> QED
    BY <1>1, <1>4, <2>8, <2>10, <2>11 DEF BaseInv
<1>5. CASE phase' = "exited" /\ ResolveFails("base") /\ UNCHANGED <<heap, next>>
  <2>1. ResolverType'
    BY <1>5, <1>6, ResolveFailsType
  <2> QED
    BY <1>2, <1>5, <2>1 DEF Inv, TypeOK, BaseInv, ResolverType
<1>8. CASE heap["base"][f] = Ref /\ (Miss("base") \/ Join("base")) /\ UNCHANGED <<process, heap>>
  <2>1. Asked("base") \in SecretFields
    BY <1>1, <1>7, <1>8
  <2>2. ResolverType'
    BY <1>6, <1>8, <2>1, WaitingType
  <2> QED
    BY <1>2, <1>8, <2>2 DEF Inv, TypeOK, BaseInv, ResolverType, process
<1> QED
  BY <1>2, <1>3, <1>4, <1>5, <1>8

LEMMA StartStep == ASSUME Inv, Parse \/ ResolveSecret \/ Serve PROVE Inv'
<1>1. \A r \in Requests : pc'[r] = "idle"
  BY DEF Inv, RequestInv, Parse, ResolveSecret, Serve
<1> QED
  BY <1>1, LookStep, SecretStep DEF Inv, RequestInv

-----------------------------------------------------------------------------
(***************************************************************************)
(* The requests.                                                           *)
(***************************************************************************)
\* A step of r that leaves the configuration and the others alone.
LEMMA RequestStep ==
  ASSUME Inv, NEW r \in Requests, UNCHANGED process, VaultType', phase = "serving",
         NEW h \in Conf \cup {None}, heap' = [heap EXCEPT ![r] = h],
         NEW p \in {"idle", "username", "password", "scrapeURI", "scraping", "failed"},
         pc' = [pc EXCEPT ![r] = p],
         NEW o \in Overrides \cup {None}, given' = [given EXCEPT ![r] = o],
         NEW q \in Requests \cup {None}, ptr' = [ptr EXCEPT ![r] = q],
         IF p = "idle" THEN h = None ELSE h \in Conf,
         RequestInv(r)'
  PROVE  Inv'
<1>1. /\ heap \in [Objects -> Conf \cup {None}] /\ heap["base"] \in Conf
      /\ r # "base" /\ r \in Objects
  BY DistinctAssumption DEF Inv, TypeOK, Objects, Conf
<1>2. heap' \in [Objects -> Conf \cup {None}] /\ heap'["base"] = heap["base"] /\ heap'[r] = h
  BY <1>1 DEF Objects
<1>3. \A d \in Requests \ {r} : /\ heap'[d] = heap[d] /\ pc'[d] = pc[d]
                                /\ given'[d] = given[d] /\ ptr'[d] = ptr[d]
  BY <1>1 DEF Inv, TypeOK, Objects
<1>4. pc'[r] = p
  BY DEF Inv, TypeOK
<1>5. \A d \in Requests : IF pc'[d] = "idle" THEN heap'[d] = None ELSE heap'[d] \in Conf
  BY <1>2, <1>3, <1>4 DEF Inv, TypeOK, Conf
<1>6. TypeOK'
  BY <1>1, <1>2, <1>5 DEF Inv, TypeOK, VaultType, ResolverType, process, Objects, Conf
<1>7. BaseInv'
  BY <1>2 DEF Inv, BaseInv, process
<1>8. ASSUME NEW d \in Requests \ {r} PROVE RequestInv(d)'
  <2>1. \A f : Expected(d, f)' = Expected(d, f)
    BY <1>2, <1>3 DEF Expected
  <2> QED
    BY <1>2, <1>3, <2>1 DEF Inv, RequestInv, process
<1> QED
  BY <1>6, <1>7, <1>8 DEF Inv

LEMMA SettingsType ==
  ASSUME NEW b \in Conf, NEW t \in Value, NEW w \in Value
  PROVE  \E h \in Conf : /\ h = [b EXCEPT !.timeout = t, !.isHWBroker = w]
                         /\ h.timeout = t /\ h.isHWBroker = w
                         /\ h.username = b.username /\ h.password = b.password
                         /\ h.scrapeURI = b.scrapeURI
<1> DEFINE h == [b EXCEPT !.timeout = t, !.isHWBroker = w]
<1>1. /\ h \in Conf /\ h.timeout = t /\ h.isHWBroker = w
      /\ h.username = b.username /\ h.password = b.password
      /\ h.scrapeURI = b.scrapeURI
  BY FieldsType DEF Conf, Credentials
<1> QED
  BY <1>1

LEMMA ArriveStep == ASSUME Inv, NEW r \in Requests, Arrive(r) PROVE Inv'
<1>1. PICK o \in Overrides :
        /\ given' = [given EXCEPT ![r] = o]
        /\ ptr' = [ptr EXCEPT ![r] = r]
        /\ heap' = [heap EXCEPT ![r] =
                     [heap["base"] EXCEPT
                        !.timeout = IF o.timeout = "own" THEN r ELSE @,
                        !.isHWBroker = IF o.isHWBroker = "own" THEN r ELSE @]]
  BY DEF Arrive, Cloned
<1> DEFINE b == heap["base"]
           t == IF o.timeout = "own" THEN r ELSE b.timeout
           w == IF o.isHWBroker = "own" THEN r ELSE b.isHWBroker
<1>2. b \in Conf /\ r \in Value
  BY DEF Inv, TypeOK, Conf, Value
<1>3. t \in Value /\ w \in Value
  BY <1>2, FieldsType DEF Conf
<1>4. PICK h \in Conf : /\ heap' = [heap EXCEPT ![r] = h]
                        /\ h.timeout = t /\ h.isHWBroker = w
                        /\ h.username = b.username /\ h.password = b.password
                        /\ h.scrapeURI = b.scrapeURI
  <2>1. heap' = [heap EXCEPT ![r] = [b EXCEPT !.timeout = t, !.isHWBroker = w]]
    BY <1>1, <1>2 DEF Conf
  <2> HIDE DEF b, t, w
  <2>2. \E h \in Conf : /\ h = [b EXCEPT !.timeout = t, !.isHWBroker = w]
                       /\ h.timeout = t /\ h.isHWBroker = w
                       /\ h.username = b.username /\ h.password = b.password
                       /\ h.scrapeURI = b.scrapeURI
    BY <1>2, <1>3, SettingsType
  <2> QED
    BY <2>1, <2>2
<1>5. /\ pc' = [pc EXCEPT ![r] = "username"] /\ phase = "serving" /\ UNCHANGED process
      /\ UNCHANGED vault
  BY DEF Arrive
<1>6. VaultType'
  BY <1>5, VaultTyped, VaultFrame DEF Inv, process
<1>7. RequestInv(r)'
  <2>1. /\ pc'[r] = "username" /\ given'[r] = o /\ ptr'[r] = r
        /\ heap'[r] = h /\ heap'["base"] = b
    BY <1>1, <1>4, <1>5, DistinctAssumption DEF Inv, TypeOK
  <2>2. o.timeout \in {"own", "bad", None} /\ o.isHWBroker \in {"own", "bad", None}
    BY OverrideType
  <2>3. h.timeout \in Expected(r, "timeout")'
    BY <1>4, <2>1, <2>2, DistinctAssumption DEF Expected
  <2>4. h.isHWBroker \in Expected(r, "isHWBroker")'
    BY <1>4, <2>1, <2>2, DistinctAssumption DEF Expected
  <2> QED
    BY <1>4, <1>5, <2>1, <2>3, <2>4 DEF RequestInv, process
<1> QED
  BY <1>1, <1>4, <1>5, <1>6, <1>7, RequestStep

\* The request's object after Put.
LEMMA PutType ==
  ASSUME Inv, NEW r \in Requests, pc[r] # "idle", NEW f \in Fields, NEW v \in Value, Put(r, f, v)
  PROVE  \E h \in Conf : /\ heap' = [heap EXCEPT ![r] = h]
                         /\ h[f] = v /\ \A g \in Fields \ {f} : h[g] = heap[r][g]
<1>1. ptr[r] = r /\ heap[r] \in Conf /\ r \in Objects
  BY DEF Inv, RequestInv, TypeOK, Conf, Objects
<1>2. heap \in [Objects -> Conf \cup {None}]
  BY DEF Inv, TypeOK, Conf, Objects
<1> DEFINE h == [heap[r] EXCEPT ![f] = v]
<1>3. h \in Conf /\ h[f] = v /\ \A g \in Fields \ {f} : h[g] = heap[r][g]
  BY <1>1 DEF Conf
<1>4. heap' = [heap EXCEPT ![r] = h]
  BY <1>1, <1>2 DEF Put
<1> QED
  BY <1>3, <1>4

\* What Override leaves: the object, and the credential as expected.
LEMMA OverrideStep ==
  ASSUME Inv, NEW r \in Requests, pc[r] # "idle", NEW f \in Credentials,
         heap[r][f] = heap["base"][f], Override(r, f), UNCHANGED <<kind, current, leased>>
  PROVE  /\ VaultType'
         /\ \E h \in Conf : /\ heap' = [heap EXCEPT ![r] = h]
                            /\ h[f] \in Expected(r, f)
                            /\ \A g \in Fields \ {f} : h[g] = heap[r][g]
<1>1. f \in SecretFields /\ f \in Fields
  BY FieldsType
<1>2. given[r] \in Overrides /\ given[r][f] \in {"own", Ref, None} /\ None # "own" /\ None # Ref
      /\ Ref # "own"
  BY OverrideType, DistinctAssumption DEF Inv, RequestInv, Credentials
<1>3. heap \in [Objects -> Conf \cup {None}] /\ heap[r] \in Conf
  BY DEF Inv, TypeOK, Conf, Objects
<1>8. UNCHANGED resolver => VaultType'
  BY VaultTyped, VaultFrame DEF Inv, vault
<1>4. CASE given[r][f] = None
  <2>1. heap' = [heap EXCEPT ![r] = heap[r]] /\ UNCHANGED resolver
    BY <1>2, <1>3, <1>4 DEF Override
  <2>2. heap[r][f] \in Expected(r, f)
    BY <1>2, <1>4 DEF Expected
  <2> QED
    BY <1>3, <1>8, <2>1, <2>2
<1>5. CASE given[r][f] = "own"
  <2>1. Put(r, f, r) /\ UNCHANGED resolver
    BY <1>2, <1>5 DEF Override
  <2>2. r \in Value /\ r \in Expected(r, f)
    BY <1>5 DEF Value, Expected
  <2>3. VaultType'
    BY <1>8, <2>1
  <2> QED
    BY <1>1, <2>1, <2>2, <2>3, PutType
<1>6. CASE given[r][f] = Ref /\ given[r].plain
  <2>1. Put(r, f, Ref) /\ UNCHANGED resolver
    BY <1>2, <1>6 DEF Override
  <2>2. Ref \in Value /\ Ref \in Expected(r, f)
    BY <1>2, <1>6 DEF Value, Expected
  <2>3. VaultType'
    BY <1>8, <2>1
  <2> QED
    BY <1>1, <2>1, <2>2, <2>3, PutType
<1>7. CASE given[r][f] = Ref /\ ~given[r].plain
  <2>1. PICK v \in Versions \cup {Empty} : Resolves(r, f, v) /\ Put(r, f, v)
    BY <1>2, <1>7 DEF Override
  <2>2. v \in Value /\ v \in Expected(r, f)
    BY <1>2, <1>7 DEF Value, Expected
  <2>3. VaultType'
    BY <1>1, <2>1, VaultTyped, ResolvesType DEF VaultType, Inv, Callers
  <2> QED
    BY <1>1, <2>1, <2>2, <2>3, PutType
<1> QED
  BY <1>2, <1>4, <1>5, <1>6, <1>7

\* A request that is refused stays as it is.
LEMMA RefuseStep ==
  ASSUME Inv, NEW r \in Requests, pc[r] # "idle", NEW f, Refuse(r, f),
         UNCHANGED <<process, ptr, given, current, leased>>
  PROVE  Inv'
<1>1. /\ heap' = heap /\ pc' = [pc EXCEPT ![r] = "failed"] /\ ResolveFails(r)
      /\ UNCHANGED <<process, ptr, given>>
  BY DEF Refuse
<1>2. /\ phase = "serving" /\ ptr[r] = r /\ given[r] \in Overrides /\ heap[r] \in Conf
      /\ heap \in [Objects -> Conf \cup {None}]
  BY DEF Inv, RequestInv, TypeOK, Conf, Objects
<1>3. /\ heap' = [heap EXCEPT ![r] = heap[r]] /\ given' = [given EXCEPT ![r] = given[r]]
      /\ ptr' = [ptr EXCEPT ![r] = r]
  BY <1>1, <1>2 DEF Inv, TypeOK
<1>4. VaultType'
  BY <1>1, VaultTyped, ResolveFailsType DEF VaultType, Inv, Callers, process
<1>5. RequestInv(r)'
  <2>1. \A g : Expected(r, g)' = Expected(r, g)
    BY <1>1 DEF Expected
  <2>2. pc'[r] = "failed"
    BY <1>1 DEF Inv, TypeOK
  <2> QED
    BY <1>1, <1>2, <2>1, <2>2 DEF Inv, RequestInv, process
<1> QED
  BY <1>1, <1>2, <1>3, <1>4, <1>5, RequestStep

LEMMA UsernameStep == ASSUME Inv, NEW r \in Requests, Username(r) PROVE Inv'
<1>1. CASE Override(r, "username") /\ pc' = [pc EXCEPT ![r] = "password"]
  <2>1. /\ pc[r] = "username" /\ UNCHANGED <<process, ptr, given, current, leased>>
        /\ UNCHANGED kind /\ phase = "serving" /\ ptr[r] = r /\ given[r] \in Overrides
        /\ heap[r].username = heap["base"].username
    BY DEF Username, Inv, RequestInv, process
  <2>2. PICK h \in Conf : /\ heap' = [heap EXCEPT ![r] = h]
                          /\ h.username \in Expected(r, "username")
                          /\ \A g \in Fields \ {"username"} : h[g] = heap[r][g]
    BY <1>1, <2>1, OverrideStep DEF Credentials
  <2>3. VaultType'
    BY <1>1, <2>1, OverrideStep DEF Credentials
  <2>4. given' = [given EXCEPT ![r] = given[r]] /\ ptr' = [ptr EXCEPT ![r] = r]
    BY <2>1 DEF Inv, TypeOK
  <2>5. heap'[r] = h /\ heap'["base"] = heap["base"] /\ pc'[r] = "password"
    BY <1>1, <2>2, DistinctAssumption DEF Inv, TypeOK
  <2>6. \A g : Expected(r, g)' = Expected(r, g)
    BY <2>1, <2>5 DEF Expected
  <2>7. /\ h.timeout = heap[r].timeout /\ h.isHWBroker = heap[r].isHWBroker
        /\ h.password = heap[r].password /\ h.scrapeURI = heap[r].scrapeURI
    BY <2>2, FieldsType
  <2>8. RequestInv(r)'
    BY <2>1, <2>2, <2>5, <2>6, <2>7 DEF Inv, RequestInv, process
  <2> QED
    BY <1>1, <2>1, <2>2, <2>3, <2>4, <2>8, RequestStep
<1>2. CASE Refuse(r, "username")
  BY <1>2, RefuseStep DEF Username
<1> QED
  BY <1>1, <1>2 DEF Username

LEMMA PasswordStep == ASSUME Inv, NEW r \in Requests, Password(r) PROVE Inv'
<1>1. CASE Override(r, "password") /\ pc' = [pc EXCEPT ![r] = "scrapeURI"]
  <2>1. /\ pc[r] = "password" /\ UNCHANGED <<process, ptr, given, current, leased>>
        /\ UNCHANGED kind /\ phase = "serving" /\ ptr[r] = r /\ given[r] \in Overrides
        /\ heap[r].password = heap["base"].password
    BY DEF Password, Inv, RequestInv, process
  <2>2. PICK h \in Conf : /\ heap' = [heap EXCEPT ![r] = h]
                          /\ h.password \in Expected(r, "password")
                          /\ \A g \in Fields \ {"password"} : h[g] = heap[r][g]
    BY <1>1, <2>1, OverrideStep DEF Credentials
  <2>3. VaultType'
    BY <1>1, <2>1, OverrideStep DEF Credentials
  <2>4. given' = [given EXCEPT ![r] = given[r]] /\ ptr' = [ptr EXCEPT ![r] = r]
    BY <2>1 DEF Inv, TypeOK
  <2>5. heap'[r] = h /\ heap'["base"] = heap["base"] /\ pc'[r] = "scrapeURI"
    BY <1>1, <2>2, DistinctAssumption DEF Inv, TypeOK
  <2>6. \A g : Expected(r, g)' = Expected(r, g)
    BY <2>1, <2>5 DEF Expected
  <2>7. /\ h.timeout = heap[r].timeout /\ h.isHWBroker = heap[r].isHWBroker
        /\ h.username = heap[r].username /\ h.scrapeURI = heap[r].scrapeURI
    BY <2>2, FieldsType
  <2>8. RequestInv(r)'
    BY <2>1, <2>2, <2>5, <2>6, <2>7 DEF Inv, RequestInv, process
  <2> QED
    BY <1>1, <2>1, <2>2, <2>3, <2>4, <2>8, RequestStep
<1>2. CASE Refuse(r, "password")
  BY <1>2, RefuseStep DEF Password
<1> QED
  BY <1>1, <1>2 DEF Password

LEMMA HandleStep == ASSUME Inv, NEW r \in Requests, Handle(r) PROVE Inv'
<1>1. /\ pc[r] = "scrapeURI" /\ UNCHANGED <<process, ptr, given, vault>>
      /\ phase = "serving" /\ ptr[r] = r /\ given[r] \in Overrides
      /\ heap[r].scrapeURI = heap["base"].scrapeURI /\ heap[r] \in Conf
  BY DEF Handle, Inv, RequestInv, TypeOK, Conf
<1>2. PICK p \in {"scraping", "failed"} : pc' = [pc EXCEPT ![r] = p]
  BY DEF Handle
<1>3. PICK h \in Conf : /\ heap' = [heap EXCEPT ![r] = h]
                        /\ h.scrapeURI \in Expected(r, "scrapeURI")
                        /\ \A g \in Fields \ {"scrapeURI"} : h[g] = heap[r][g]
  <2>1. CASE given[r].scrapeURI = "own"
    <3>1. Put(r, "scrapeURI", r) /\ r \in Value /\ r \in Expected(r, "scrapeURI")
      BY <2>1 DEF Handle, Value, Expected
    <3> QED
      BY <1>1, <3>1, PutType, FieldsType
  <2>2. CASE given[r].scrapeURI # "own"
    <3>1. heap' = [heap EXCEPT ![r] = heap[r]]
      BY <2>2 DEF Handle, Inv, TypeOK
    <3>2. given[r].scrapeURI = None /\ None # Ref
      BY <1>1, <2>2, OverrideType, DistinctAssumption
    <3>3. heap[r].scrapeURI \in Expected(r, "scrapeURI")
      BY <1>1, <2>2, <3>2 DEF Expected
    <3> QED
      BY <1>1, <3>1, <3>3
  <2> QED
    BY <2>1, <2>2
<1>4. VaultType'
  BY <1>1, VaultTyped, VaultFrame DEF Inv, process
<1>5. given' = [given EXCEPT ![r] = given[r]] /\ ptr' = [ptr EXCEPT ![r] = r]
  BY <1>1 DEF Inv, TypeOK
<1>6. heap'[r] = h /\ heap'["base"] = heap["base"] /\ pc'[r] = p
  BY <1>2, <1>3, DistinctAssumption DEF Inv, TypeOK
<1>7. \A g : Expected(r, g)' = Expected(r, g)
  BY <1>1, <1>6 DEF Expected
<1>8. /\ h.timeout = heap[r].timeout /\ h.isHWBroker = heap[r].isHWBroker
      /\ h.username = heap[r].username /\ h.password = heap[r].password
  BY <1>3, FieldsType
<1>9. RequestInv(r)'
  BY <1>1, <1>2, <1>3, <1>6, <1>7, <1>8 DEF Inv, RequestInv, process
<1> QED
  BY <1>1, <1>2, <1>3, <1>4, <1>5, <1>9, RequestStep

LEMMA EndStep == ASSUME Inv, NEW r \in Requests, End(r) PROVE Inv'
<1>1. /\ pc[r] # "idle" /\ phase = "serving" /\ UNCHANGED process /\ UNCHANGED vault
      /\ heap' = [heap EXCEPT ![r] = None] /\ pc' = [pc EXCEPT ![r] = "idle"]
      /\ given' = [given EXCEPT ![r] = None] /\ ptr' = [ptr EXCEPT ![r] = None]
  BY DEF End, Inv, RequestInv
<1>2. VaultType' /\ pc'[r] = "idle"
  BY <1>1, VaultTyped, VaultFrame DEF Inv, TypeOK, process
<1>3. RequestInv(r)'
  BY <1>2 DEF RequestInv
<1> QED
  BY <1>1, <1>2, <1>3, RequestStep

\* A step of the resolver or of Vault.
LEMMA VaultStep ==
  ASSUME Inv, UNCHANGED <<process, heap, ptr, given, pc>>, VaultType'
  PROVE  Inv'
<1>1. TypeOK' /\ BaseInv'
  BY DEF Inv, TypeOK, BaseInv, VaultType, ResolverType, process
<1>2. \A r \in Requests : RequestInv(r)'
  BY DEF Inv, RequestInv, Expected, process
<1> QED
  BY <1>1, <1>2 DEF Inv

LEMMA ResolvingStep == ASSUME Inv, NEW r \in Requests, Resolving(r) PROVE Inv'
<1>1. /\ UNCHANGED <<process, heap, ptr, given, pc, current, leased>>
      /\ Miss(r) \/ Join(r)
  BY DEF Resolving
<1>2. Asked(r) \in SecretFields /\ r \in Callers
  BY AskedType DEF Resolving, Inv, Callers
<1>3. VaultType'
  BY <1>1, <1>2, VaultTyped, WaitingType DEF Inv, VaultType, process
<1> QED
  BY <1>1, <1>3, VaultStep

LEMMA InvStep == Inv /\ [Next]_vars => Inv'
<1> SUFFICES ASSUME Inv, [Next]_vars PROVE Inv'
  OBVIOUS
<1>1. VaultType
  BY VaultTyped DEF Inv
<1>2. CASE Rotate
  <2>1. VaultType'
    BY <1>1, <1>2 DEF Rotate, Unused, VaultType, ResolverType, resolver, process
  <2> QED
    BY <1>2, <2>1, VaultStep DEF Rotate
<1>3. CASE Revoke
  <2>1. VaultType'
    BY <1>1, <1>3 DEF Revoke, VaultType, ResolverType, resolver, process
  <2> QED
    BY <1>3, <2>1, VaultStep DEF Revoke
<1>4. ASSUME NEW f \in SecretFields, Read(f) \/ Deliver(f) \/ Forget(f) PROVE Inv'
  <2>1. UNCHANGED <<process, heap, ptr, given, pc>>
    BY <1>4 DEF Read, Deliver, Forget
  <2>2. CASE Read(f)
    BY <1>1, <2>1, <2>2, ReadType, VaultStep
  <2>3. CASE Deliver(f)
    <3>1. VaultType'
      BY <1>1, <2>3 DEF Deliver, VaultType, ResolverType, process
    <3> QED
      BY <2>1, <3>1, VaultStep
  <2>4. CASE Forget(f)
    <3>1. VaultType'
      BY <1>1, <2>4 DEF Forget, VaultType, ResolverType, process
    <3> QED
      BY <2>1, <3>1, VaultStep
  <2> QED
    BY <1>4, <2>2, <2>3, <2>4
<1>5. CASE UNCHANGED vars
  BY <1>1, <1>5, VaultFrame, VaultStep DEF vars, process
<1> QED
  BY <1>2, <1>3, <1>4, <1>5, StartStep, ArriveStep, ResolvingStep, UsernameStep,
     PasswordStep, HandleStep, EndStep DEF Next, Step

LEMMA Invariance == SafetySpec => []Inv
BY Initially, InvStep, PTL DEF SafetySpec

-----------------------------------------------------------------------------
\* The state is well typed.
THEOREM TypeCorrect == SafetySpec => []TypeOK
<1>1. Inv => TypeOK
  BY DEF Inv
<1> QED
  BY <1>1, Invariance, PTL

\* An exporter that serves has resolved all of its configuration, and has what
\* its kind of authentication needs.
THEOREM ServesCorrect == SafetySpec => []ServesComplete
<1>1. Inv => ServesComplete
  <2> SUFFICES ASSUME Inv, phase = "serving"
               PROVE  LET conf == heap["base"] IN
                      /\ \A i \in DOMAIN Secrets : conf[Secrets[i]] # Ref
                      /\ authType = "basic" => conf.username # Empty /\ conf.password # Empty
                      /\ authType = "oauth" => conf.oAuth # Empty /\ conf.oAuthClientSecret # Empty
                      /\ authType # None
    BY DEF ServesComplete
  <2>1. next = 7 /\ authType = AuthTypeOf(heap["base"]) /\ authType # None
    BY DEF Inv, BaseInv
  <2>2. \A i \in DOMAIN Secrets : i \in 1..6
    BY DEF Secrets
  <2>3. \A i \in DOMAIN Secrets : heap["base"][Secrets[i]] # Ref
    BY <2>1, <2>2 DEF Inv, BaseInv
  <2> QED
    BY <2>1, <2>3 DEF AuthTypeOf
<1> QED
  BY <1>1, Invariance, PTL

\* Every scrape works with its own request's values and the configured ones.
THEOREM OwnCorrect == SafetySpec => []OwnConfiguration
<1>1. Inv => OwnConfiguration
  BY DEF Inv, BaseInv, RequestInv, OwnConfiguration, Credentials
<1> QED
  BY <1>1, Invariance, PTL

\* No reference reaches a broker unless the request asked for that.
THEOREM NoReferenceCorrect == SafetySpec => []NoReferenceSent
<1>1. Inv => NoReferenceSent
  <2> SUFFICES ASSUME Inv, NEW r \in Requests, pc[r] = "scraping", NEW f \in Credentials,
                      heap[ptr[r]][f] = Ref
               PROVE  given[r].plain /\ given[r][f] = Ref
    BY DEF NoReferenceSent
  <2>1. ptr[r] = r /\ heap[r][f] \in Expected(r, f) /\ phase = "serving"
    BY DEF Inv, RequestInv, Credentials
  <2>2. PICK i \in 1..6 : f = Secrets[i]
    BY FieldsType, SecretsType
  <2>3. heap["base"][f] # Ref
    BY <2>1, <2>2 DEF Inv, BaseInv
  <2>4. Ref # r /\ Ref \notin Versions \cup {Empty}
    BY DistinctAssumption
  <2> QED
    BY <2>1, <2>3, <2>4 DEF Expected
<1> QED
  BY <1>1, Invariance, PTL

-----------------------------------------------------------------------------
(***************************************************************************)
(* What becomes of an old version of a static secret.  Only who resolves a *)
(* reference has anything to do with the resolver, and only its step ends  *)
(* that; so what a caller stores late belongs to the field it asked for.   *)
(***************************************************************************)
GotInv == \A c \in Callers : got[c] # Stage("none") => Asked(c) # None

LEMMA GotInitially == Init => GotInv
BY DEF Init, GotInv

\* A step of r leaves the others alone.
LEMMA OthersStep ==
  ASSUME Inv, NEW r \in Requests, Step(r)
  PROVE  /\ UNCHANGED <<kind, phase, next>> /\ heap'["base"] = heap["base"]
         /\ \A d \in Requests \ {r} : /\ heap'[d] = heap[d] /\ pc'[d] = pc[d]
                                       /\ given'[d] = given[d] /\ ptr'[d] = ptr[d]
<1>1. pc[r] # "idle" => ptr[r] = r
  BY DEF Inv, RequestInv
<1>2. \A v, d : d \in Objects \ {r} => [heap EXCEPT ![r] = v][d] = heap[d]
  BY DEF Inv, TypeOK, Objects
<1>3. \A f, v : \A d \in Objects \ {r} : [heap EXCEPT ![r][f] = v][d] = heap[d]
  BY DEF Inv, TypeOK, Objects
<1>4. \A d \in Objects \ {r} : heap'[d] = heap[d]
  <2>1. CASE Arrive(r) \/ End(r)
    <3>1. \E v : heap' = [heap EXCEPT ![r] = v]
      BY <2>1 DEF Arrive, Cloned, End
    <3>2. PICK v : heap' = [heap EXCEPT ![r] = v]
      BY <3>1
    <3> QED
      BY <3>2, <1>2
  <2>2. CASE Username(r) \/ Password(r) \/ Handle(r)
    <3>1. pc[r] # "idle"
      BY <2>2 DEF Username, Password, Handle
    <3>2. UNCHANGED heap \/ \E f, v : Put(r, f, v)
      BY <2>2 DEF Username, Password, Handle, Override, Refuse
    <3>3. CASE \E f, v : Put(r, f, v)
      <4>1. PICK f, v : heap' = [heap EXCEPT ![r][f] = v]
        BY <1>1, <3>1, <3>3 DEF Put
      <4> QED
        BY <4>1, <1>3
    <3> QED
      BY <3>2, <3>3
  <2>3. CASE Resolving(r)
    BY <2>3 DEF Resolving
  <2> QED
    BY <2>1, <2>2, <2>3 DEF Step
<1>5. \A d \in Requests \ {r} : pc'[d] = pc[d] /\ given'[d] = given[d] /\ ptr'[d] = ptr[d]
  BY DEF Step, Arrive, Resolving, Username, Password, Refuse, Handle, End, Inv, TypeOK
<1>6. UNCHANGED process
  BY DEF Step, Arrive, Resolving, Username, Password, Handle, End
<1>7. "base" \in Objects \ {r} /\ Requests \ {r} \subseteq Objects \ {r}
  BY DistinctAssumption DEF Objects
<1> QED
  BY <1>4, <1>5, <1>6, <1>7 DEF process

\* What a step of the caller c may do to the resolver.
Moves(c) == \/ UNCHANGED resolver /\ got[c] = Stage("none")
            \/ (Miss(c) \/ Join(c)) /\ Asked(c) # None /\ Asked(c)' = Asked(c)
            \/ \E f \in SecretFields, v \in Versions \cup {Empty} :
                 Asked(c) = f /\ Resolves(c, f, v)
            \/ ResolveFails(c)

LEMMA RequestMoves ==
  ASSUME Inv, GotInv, NEW r \in Requests, Step(r)
  PROVE  Moves(r) /\ current' = current /\ \A d \in Callers \ {r} : Asked(d)' = Asked(d)
<1>1. \A d \in Callers \ {r} : Asked(d)' = Asked(d)
  BY OthersStep DEF Asked, Callers
<1>2. r \in Callers /\ r # "base"
  BY DistinctAssumption DEF Callers
<1>3. Asked(r) = None => got[r] = Stage("none")
  BY <1>2 DEF GotInv
<1>4. CASE Arrive(r) \/ Handle(r) \/ End(r)
  <2>1. pc[r] \notin Credentials /\ UNCHANGED vault
    BY <1>4 DEF Arrive, Handle, End, Credentials
  <2> QED
    BY <1>1, <1>2, <1>3, <2>1 DEF Asked, Moves, vault
<1>5. CASE Resolving(r)
  <2>1. Asked(r)' = Asked(r)
    BY <1>2, <1>5 DEF Resolving, Asked
  <2> QED
    BY <1>1, <1>5, <2>1 DEF Resolving, Moves
<1>6. ASSUME NEW f \in Credentials, pc[r] = f, Override(r, f) PROVE Moves(r)
  <2>1. CASE given[r][f] = Ref /\ ~given[r].plain
    <3>1. PICK v \in Versions \cup {Empty} : Resolves(r, f, v)
      BY <1>6, <2>1, DistinctAssumption DEF Override
    <3>2. Asked(r) = f /\ f \in SecretFields
      BY <1>2, <1>6, <2>1, FieldsType DEF Asked
    <3> QED
      BY <3>1, <3>2 DEF Moves
  <2>2. CASE ~(given[r][f] = Ref /\ ~given[r].plain)
    BY <1>2, <1>3, <1>6, <2>2 DEF Override, Asked, Moves
  <2> QED
    BY <2>1, <2>2
<1>7. CASE Username(r) \/ Password(r)
  <2>1. UNCHANGED current
    BY <1>7 DEF Username, Password
  <2>2. \/ ResolveFails(r)
        \/ pc[r] = "username" /\ Override(r, "username")
        \/ pc[r] = "password" /\ Override(r, "password")
    BY <1>7 DEF Username, Password, Refuse
  <2> QED
    BY <1>1, <1>6, <2>1, <2>2 DEF Moves, Credentials
<1> QED
  BY <1>4, <1>5, <1>7 DEF Step

LEMMA StartMoves ==
  ASSUME Inv, GotInv, Parse \/ ResolveSecret \/ Serve
  PROVE  /\ Moves("base") /\ current' = current
         /\ \A d \in Callers \ {"base"} : Asked(d)' = Asked(d)
<1>1. UNCHANGED <<pc, given, current>>
  BY DEF Parse, ResolveSecret, Serve, vault
<1>2. \A d \in Callers \ {"base"} : Asked(d)' = Asked(d)
  BY <1>1 DEF Asked
<1>3. Asked("base") = None => got["base"] = Stage("none")
  BY DEF GotInv, Callers
<1>4. CASE Parse \/ Serve
  <2>1. Asked("base") = None /\ UNCHANGED resolver
    <3>1. CASE Parse
      BY <3>1 DEF Parse, Asked, vault
    <3>2. CASE Serve
      BY <3>2 DEF Serve, Asked, vault, Inv, TypeOK, Secrets
    <3> QED
      BY <1>4, <3>1, <3>2
  <2> QED
    BY <1>1, <1>2, <1>3, <2>1 DEF Moves
<1>5. CASE ResolveSecret
  <2> DEFINE f == Secrets[next]
  <2>1. next \in 1..6 /\ f \in SecretFields /\ phase = "resolving" /\ next <= Len(Secrets)
    BY <1>5, SecretsType DEF ResolveSecret, Inv, TypeOK
  <2>2. Asked("base") = IF heap["base"][f] = Ref THEN f ELSE None
    BY <2>1 DEF Asked
  <2>3. f # None
    BY <2>1, DistinctAssumption
  <2>4. \/ heap["base"][f] # Ref /\ UNCHANGED resolver
        \/ heap["base"][f] = Ref /\ \E v \in Versions \cup {Empty} : Resolves("base", f, v)
        \/ ResolveFails("base")
        \/ heap["base"][f] = Ref /\ (Miss("base") \/ Join("base")) /\ UNCHANGED <<process, heap>>
    BY <1>5 DEF ResolveSecret
  <2>5. UNCHANGED <<process, heap>> => Asked("base")' = Asked("base")
    BY DEF Asked, process
  <2> HIDE DEF f
  <2> QED
    BY <1>1, <1>2, <1>3, <2>1, <2>2, <2>3, <2>4, <2>5 DEF Moves
<1> QED
  BY <1>4, <1>5

\* A caller brings nothing old into the resolver that it has not had from there.
LEMMA MovesStep ==
  ASSUME Inv, GotInv, NEW c \in Callers, Moves(c), current' = current,
         \A d \in Callers \ {c} : Asked(d)' = Asked(d)
  PROVE  GotInv' /\ OldInResolver' \subseteq OldInResolver
<1>1. ResolverType /\ None \notin Versions
  BY VaultTyped, DistinctAssumption DEF Inv, VaultType
\* It is enough to look at what c changes.
<1>2. ASSUME \A d \in Callers \ {c} : got'[d] = got[d],
             \A f \in SecretFields : cache'[f] \in Old => f \in OldInResolver,
             \A f \in SecretFields : OldIn(flight'[f]) => f \in OldInResolver,
             got'[c] = Stage("none") \/ (got'[c] \notin Result /\ Asked(c)' # None)
      PROVE  GotInv' /\ OldInResolver' \subseteq OldInResolver
  <2>1. Old' = Old /\ (\A x : OldIn(x)' = OldIn(x)) /\ Stage("none") \notin Result
    BY DEF Old, OldIn, Result, Stage
  <2>2. GotInv'
    BY <1>2 DEF GotInv
  <2>3. ~OldIn(got'[c])
    BY <1>2, <2>1 DEF OldIn
  <2>4. OldInResolver' \subseteq OldInResolver
    <3> SUFFICES ASSUME NEW f \in OldInResolver' PROVE f \in OldInResolver
      OBVIOUS
    <3>1. f \in SecretFields
      BY DEF OldInResolver
    <3>2. \/ cache'[f] \in Old
          \/ OldIn(flight'[f])
          \/ \E d \in Callers : Asked(d)' = f /\ OldIn(got'[d])
      BY <2>1 DEF OldInResolver, OldIn, Old
    <3>3. CASE \E d \in Callers : Asked(d)' = f /\ OldIn(got'[d])
      <4>1. PICK d \in Callers : Asked(d)' = f /\ OldIn(got'[d])
        BY <3>3
      <4>2. d # c
        BY <2>3, <4>1
      <4>3. Asked(d) = f /\ OldIn(got[d])
        BY <1>2, <4>1, <4>2
      <4> QED
        BY <3>1, <4>3 DEF OldInResolver
    <3> QED
      BY <1>2, <3>1, <3>2, <3>3
  <2> QED
    BY <2>2, <2>4
<1>3. \A f \in SecretFields : cache[f] \in Old \/ OldIn(flight[f]) => f \in OldInResolver
  BY DEF OldInResolver
<1>4. CASE UNCHANGED resolver /\ got[c] = Stage("none")
  BY <1>2, <1>3, <1>4 DEF resolver
<1>5. CASE (Miss(c) \/ Join(c)) /\ Asked(c) # None /\ Asked(c)' = Asked(c)
  <2> DEFINE g == Asked(c)
  <2>1. g \in SecretFields
    BY <1>5, AskedType DEF Inv
  <2>2. /\ cache' = cache /\ \A d \in Callers \ {c} : got'[d] = got[d]
        /\ got'[c] \in {Stage("missed"), Stage("waiting")}
    BY <1>1, <1>5, <2>1, WaitingType
  <2>3. got'[c] \notin Result
    BY <2>2 DEF Stage, Result
  <2>4. ASSUME NEW f \in SecretFields, OldIn(flight'[f]) PROVE f \in OldInResolver
    <3>1. CASE flight'[f] = flight[f]
      BY <1>3, <2>4, <3>1
    <3>2. CASE flight'[f] # flight[f]
      <4>1. /\ f = g
            /\ flight'[f] = IF cache[g] = None THEN Stage("asking")
                            ELSE [kind |-> "cached", value |-> cache[g]]
        <5>1. Join(c)
          BY <1>5, <3>2 DEF Miss
        <5> QED
          BY <1>1, <2>1, <3>2, <5>1 DEF Join, ResolverType
      <4>2. flight'[f].value = cache[f] /\ flight'[f].value \in Old
        BY <2>4, <4>1 DEF OldIn, Result, Stage
      <4> QED
        BY <1>3, <4>2
    <3> QED
      BY <3>1, <3>2
  <2> QED
    BY <1>2, <1>3, <1>5, <2>2, <2>3, <2>4
<1>6. CASE \E f \in SecretFields, v \in Versions \cup {Empty} : Asked(c) = f /\ Resolves(c, f, v)
  <2>1. PICK f \in SecretFields, v \in Versions \cup {Empty} : Asked(c) = f /\ Resolves(c, f, v)
    BY <1>6
  <2>2. CASE got[c] = Stage("none") /\ UNCHANGED resolver
    BY <1>4, <2>2
  <2>3. CASE /\ got[c] \in Result /\ v = got[c].value /\ UNCHANGED flight
             /\ cache' = IF got[c].kind = "read" THEN [cache EXCEPT ![f] = v] ELSE cache
             /\ got' = [got EXCEPT ![c] = Stage("none")]
    <3>1. v \in Old => f \in OldInResolver
      BY <2>1, <2>3 DEF OldInResolver, OldIn
    <3>2. \A g \in SecretFields : cache'[g] = cache[g] \/ (g = f /\ cache'[g] = v)
      BY <1>1, <2>3 DEF ResolverType
    <3>3. /\ \A d \in Callers \ {c} : got'[d] = got[d]
          /\ got'[c] = Stage("none")
      BY <1>1, <2>3 DEF ResolverType
    <3> QED
      BY <1>2, <1>3, <2>3, <3>1, <3>2, <3>3
  <2> QED
    BY <2>1, <2>2, <2>3 DEF Resolves
<1>7. CASE ResolveFails(c)
  <2>1. /\ UNCHANGED <<cache, flight>> /\ \A d \in Callers \ {c} : got'[d] = got[d]
        /\ got'[c] = Stage("none")
    BY <1>1, <1>7 DEF ResolveFails, ResolverType
  <2> QED
    BY <1>2, <1>3, <2>1
<1> QED
  BY <1>4, <1>5, <1>6, <1>7 DEF Moves

\* Neither does a shared call.
LEMMA CallStep ==
  ASSUME Inv, GotInv, NEW f \in SecretFields, Read(f) \/ Deliver(f) \/ Forget(f)
  PROVE  /\ GotInv' /\ current' = current
         /\ kind = "static" => OldInResolver' \subseteq OldInResolver
<1>1. ResolverType /\ None \notin Versions /\ Empty \notin Versions
  BY VaultTyped, DistinctAssumption DEF Inv, VaultType
<1>2. current' = current /\ \A c \in Callers : Asked(c)' = Asked(c)
  BY DEF Read, Deliver, Forget, Asked, process
<1>3. Old' = Old /\ (\A x : OldIn(x)' = OldIn(x)) /\ None \notin Old /\ Empty \notin Old
  BY <1>1, <1>2 DEF Old, OldIn
<1>4. CASE Read(f)
  <2>1. UNCHANGED <<cache, got>>
    BY <1>4 DEF Read
  <2>2. PICK v \in Readable(f) : flight' = [flight EXCEPT ![f] = [kind |-> "read", value |-> v]]
    BY <1>4 DEF Read
  <2>3. kind = "static" => v \notin Old
    BY <1>3 DEF Readable, Old
  <2>4. kind = "static" => \A g \in SecretFields : OldIn(flight'[g]) => OldIn(flight[g])
    BY <1>1, <2>2, <2>3 DEF OldIn, ResolverType
  <2> QED
    BY <1>2, <1>3, <2>1, <2>4 DEF GotInv, OldInResolver
<1>5. CASE Deliver(f)
  <2>1. /\ flight[f] \in Result /\ UNCHANGED cache
        /\ flight' = [flight EXCEPT ![f] = Stage("none")]
        /\ \A c \in Callers : got'[c] = IF got[c] = Stage("waiting") /\ Asked(c) = f
                                        THEN flight[f] ELSE got[c]
    BY <1>5 DEF Deliver
  <2>2. Stage("waiting") # Stage("none") /\ Stage("none") \notin Result
    BY DEF Stage, Result
  <2>3. GotInv'
    BY <1>2, <2>1, <2>2 DEF GotInv
  <2>4. \A g \in SecretFields : OldIn(flight'[g]) => OldIn(flight[g])
    BY <1>1, <2>1, <2>2 DEF OldIn, ResolverType
  <2>5. ASSUME NEW g \in OldInResolver' PROVE g \in OldInResolver
    <3>1. g \in SecretFields
      BY <2>5 DEF OldInResolver
    <3>2. \/ cache'[g] \in Old
          \/ OldIn(flight'[g])
          \/ \E c \in Callers : Asked(c)' = g /\ OldIn(got'[c])
      BY <1>3, <2>5 DEF OldInResolver, OldIn, Old
    <3>3. CASE \E c \in Callers : Asked(c)' = g /\ OldIn(got'[c])
      <4>1. PICK c \in Callers : Asked(c) = g /\ OldIn(got'[c])
        BY <1>2, <3>3
      <4>2. CASE got'[c] = got[c]
        BY <3>1, <4>1, <4>2 DEF OldInResolver
      <4>3. CASE got'[c] = flight[f] /\ Asked(c) = f
        BY <4>1, <4>3 DEF OldInResolver
      <4> QED
        BY <2>1, <4>2, <4>3
    <3>4. CASE cache'[g] \in Old \/ OldIn(flight'[g])
      BY <2>1, <2>4, <3>1, <3>4 DEF OldInResolver
    <3> QED
      BY <3>2, <3>3, <3>4
  <2> QED
    BY <1>2, <2>3, <2>5
<1>6. CASE Forget(f)
  <2>1. UNCHANGED <<flight, got>> /\ cache' = [cache EXCEPT ![f] = None]
    BY <1>6 DEF Forget
  <2>2. \A g \in SecretFields : cache'[g] \in Old => cache[g] \in Old
    BY <1>1, <1>3, <2>1 DEF ResolverType
  <2> QED
    BY <1>2, <1>3, <2>1, <2>2 DEF GotInv, OldInResolver
<1> QED
  BY <1>4, <1>5, <1>6

LEMMA ResolverStep ==
  ASSUME Inv, GotInv, [Next]_vars
  PROVE  /\ GotInv'
         /\ kind = "static" /\ ~Rotate =>
              current' = current /\ OldInResolver' \subseteq OldInResolver
<1>1. ASSUME UNCHANGED <<process, heap, given, pc, resolver>>, Rotate \/ current' = current
      PROVE  /\ GotInv'
             /\ ~Rotate => current' = current /\ OldInResolver' \subseteq OldInResolver
  <2>1. \A c \in Callers : Asked(c)' = Asked(c)
    BY <1>1 DEF Asked, process
  <2>2. GotInv'
    BY <1>1, <2>1 DEF GotInv, resolver
  <2>3. current' = current => OldInResolver' \subseteq OldInResolver
    BY <1>1, <2>1 DEF OldInResolver, OldIn, Old, resolver
  <2> QED
    BY <1>1, <2>2, <2>3
<1>2. CASE Rotate \/ Revoke \/ UNCHANGED vars
  BY <1>1, <1>2 DEF Rotate, Revoke, vars, vault
<1>3. CASE Parse \/ ResolveSecret \/ Serve
  <2>1. "base" \in Callers
    BY DEF Callers
  <2> QED
    BY <1>3, <2>1, StartMoves, MovesStep
<1>4. ASSUME NEW r \in Requests, Step(r)
      PROVE  GotInv' /\ current' = current /\ OldInResolver' \subseteq OldInResolver
  <2>1. r \in Callers
    BY DEF Callers
  <2> QED
    BY <1>4, <2>1, RequestMoves, MovesStep
<1> QED
  BY <1>2, <1>3, <1>4, CallStep DEF Next

\* A step of r gives the others nothing.
LEMMA InUseByRequest ==
  ASSUME Inv, NEW r \in Requests, current' = current,
         \A d \in Requests \ {r} : /\ heap'[d] = heap[d] /\ pc'[d] = pc[d]
                                   /\ given'[d] = given[d] /\ ptr'[d] = ptr[d],
         \A f \in Looked(r)' : given'[r][f] = Ref /\ heap'[ptr'[r]][f] \in Old
                                 => <<r, f>> \in OldInUse \/ f \in OldInResolver
  PROVE  \A u \in OldInUse' \ OldInUse : u[2] \in OldInResolver
<1> SUFFICES ASSUME NEW d \in Requests, NEW f \in Credentials, <<d, f>> \in OldInUse',
                    <<d, f>> \notin OldInUse
             PROVE  f \in OldInResolver
  BY DEF OldInUse
<1>1. f \in Looked(d)' /\ given'[d][f] = Ref /\ heap'[ptr'[d]][f] \in Old
  BY DEF OldInUse, Old
<1>2. d = r
  <2> SUFFICES ASSUME d # r PROVE FALSE
    OBVIOUS
  <2>1. /\ heap'[d] = heap[d] /\ pc'[d] = pc[d] /\ given'[d] = given[d] /\ ptr'[d] = ptr[d]
    OBVIOUS
  <2>2. f \in Looked(d) /\ pc[d] # "idle"
    BY <1>1, <2>1 DEF Looked
  <2>3. ptr[d] = d
    BY <2>2 DEF Inv, RequestInv
  <2> QED
    BY <1>1, <2>1, <2>2, <2>3 DEF OldInUse
<1> QED
  BY <1>1, <1>2

\* A credential that a request has just taken.
LEMMA OverrideAnew ==
  ASSUME Inv, NEW r \in Requests, NEW f \in Credentials, pc[r] = f,
         Override(r, f), given[r][f] = Ref, heap'[r][f] \in Old
  PROVE  f \in OldInResolver
<1>1. f \in SecretFields /\ f \in Fields
  BY FieldsType
<1>2. Ref # None /\ Ref # "own" /\ Ref \notin Versions /\ Ref \in Value
  BY DistinctAssumption DEF Value
<1>5. pc[r] # "idle"
  BY DEF Credentials
<1>3. CASE given[r].plain
  <2>1. Put(r, f, Ref)
    BY <1>2, <1>3 DEF Override
  <2>2. heap'[r][f] = Ref
    <3>1. PICK h \in Conf : heap' = [heap EXCEPT ![r] = h] /\ h[f] = Ref
      BY <1>1, <1>2, <1>5, <2>1, PutType
    <3> QED
      BY <3>1 DEF Inv, TypeOK
  <2> QED
    BY <1>2, <2>2 DEF Old
<1>4. CASE ~given[r].plain
  <2>1. PICK v \in Versions \cup {Empty} : Resolves(r, f, v) /\ Put(r, f, v)
    BY <1>2, <1>4 DEF Override
  <2>2. heap'[r][f] = v
    <3>1. PICK h \in Conf : heap' = [heap EXCEPT ![r] = h] /\ h[f] = v
      BY <1>1, <1>5, <2>1, PutType DEF Value
    <3> QED
      BY <3>1 DEF Inv, TypeOK
  <2>3. Asked(r) = f /\ r \in Callers
    BY <1>4, DistinctAssumption DEF Asked, Callers
  <2> QED
    BY <1>1, <2>1, <2>2, <2>3 DEF Resolves, OldInResolver, OldIn
<1> QED
  BY <1>3, <1>4

LEMMA InUseStep ==
  ASSUME Inv, GotInv, [Next]_vars, kind = "static", ~Rotate
  PROVE  \A u \in OldInUse' \ OldInUse : u[2] \in OldInResolver
<1>1. current' = current
  BY ResolverStep
<1>2. CASE UNCHANGED <<heap, ptr, given, pc>>
  BY <1>1, <1>2 DEF OldInUse, Old, Looked
<1>3. CASE Parse \/ ResolveSecret \/ Serve
  <2>1. \A r \in Requests : pc'[r] = "idle"
    BY <1>3 DEF Inv, RequestInv, Parse, ResolveSecret, Serve
  <2> QED
    BY <2>1 DEF OldInUse, Looked
<1>4. ASSUME NEW r \in Requests, Step(r)
      PROVE  \A u \in OldInUse' \ OldInUse : u[2] \in OldInResolver
  <2>1. \A d \in Requests \ {r} : /\ heap'[d] = heap[d] /\ pc'[d] = pc[d]
                                  /\ given'[d] = given[d] /\ ptr'[d] = ptr[d]
    BY <1>4, OthersStep
  <2>2. pc[r] # "idle" => ptr[r] = r /\ heap[r] \in Conf
    BY DEF Inv, RequestInv, TypeOK, Conf
  <2>3. CASE Looked(r)' = {}
    BY <1>1, <2>1, <2>3, InUseByRequest
  <2>4. CASE pc[r] = "username" /\ pc'[r] = "password"
    <3>1. Override(r, "username") /\ UNCHANGED <<ptr, given>> /\ pc[r] # "idle"
      BY <1>4, <2>4 DEF Step, Arrive, Resolving, Username, Password, Refuse, Handle, End, Inv, TypeOK
    <3>2. Looked(r)' = {"username"}
      BY <2>4 DEF Looked
    <3>3. given'[r].username = Ref /\ heap'[ptr'[r]].username \in Old => "username" \in OldInResolver
      BY <2>2, <2>4, <3>1, OverrideAnew DEF Credentials
    <3> QED
      BY <1>1, <2>1, <3>2, <3>3, InUseByRequest
  <2>5. CASE pc[r] = "password" /\ pc'[r] = "scrapeURI"
    <3>1. /\ Override(r, "password") /\ UNCHANGED <<ptr, given>> /\ pc[r] # "idle"
          /\ UNCHANGED <<kind, current, leased>>
      BY <1>4, <2>5 DEF process, Step, Arrive, Resolving, Username, Password, Refuse, Handle, End, Inv, TypeOK
    <3>2. Looked(r)' = Credentials /\ Looked(r) = {"username"}
      BY <2>5 DEF Looked
    <3>3. given'[r].password = Ref /\ heap'[ptr'[r]].password \in Old => "password" \in OldInResolver
      BY <2>2, <2>5, <3>1, OverrideAnew DEF Credentials
    <3>4. PICK h \in Conf : /\ heap' = [heap EXCEPT ![r] = h]
                            /\ \A g \in Fields \ {"password"} : h[g] = heap[r][g]
      <4>1. heap[r].password = heap["base"].password
        BY <2>5 DEF Inv, RequestInv
      <4> QED
        BY <3>1, <4>1, OverrideStep DEF Credentials
    <3>5. heap'[r].username = heap[r].username
      BY <3>4, FieldsType DEF Inv, TypeOK, Credentials
    <3>6. given'[r].username = Ref /\ heap'[ptr'[r]].username \in Old
            => <<r, "username">> \in OldInUse
      BY <2>2, <3>1, <3>2, <3>5 DEF OldInUse, Credentials
    <3> QED
      BY <1>1, <2>1, <3>2, <3>3, <3>6, InUseByRequest DEF Credentials
  <2>6. CASE pc[r] = "scrapeURI" /\ pc'[r] = "scraping"
    <3>1. Handle(r) /\ UNCHANGED <<ptr, given>> /\ pc[r] # "idle"
      BY <1>4, <2>6 DEF Step, Arrive, Resolving, Username, Password, Refuse, Handle, End, Inv, TypeOK
    <3>2. Looked(r)' = Credentials /\ Looked(r) = Credentials
      BY <2>6 DEF Looked
    <3>3. heap'[r].username = heap[r].username /\ heap'[r].password = heap[r].password
      <4>1. CASE Put(r, "scrapeURI", r)
        <5>1. PICK h \in Conf : /\ heap' = [heap EXCEPT ![r] = h]
                                /\ \A g \in Fields \ {"scrapeURI"} : h[g] = heap[r][g]
          BY <3>1, <4>1, PutType, FieldsType DEF Value
        <5> QED
          BY <5>1, FieldsType DEF Inv, TypeOK, Credentials
      <4> QED
        BY <3>1, <4>1 DEF Handle
    <3>4. \A f \in Credentials : heap'[r][f] = heap[r][f]
      BY <3>3 DEF Credentials
    <3>5. \A f \in Credentials : given'[r][f] = Ref /\ heap'[ptr'[r]][f] \in Old
            => <<r, f>> \in OldInUse
      BY <2>2, <3>1, <3>2, <3>4 DEF OldInUse
    <3> QED
      BY <1>1, <2>1, <3>2, <3>5, InUseByRequest
  <2>7. CASE Resolving(r)
    BY <1>2, <2>7 DEF Resolving
  <2>8. \/ Resolving(r)
        \/ pc'[r] \notin {"password", "scrapeURI", "scraping"}
        \/ pc[r] = "username" /\ pc'[r] = "password"
        \/ pc[r] = "password" /\ pc'[r] = "scrapeURI"
        \/ pc[r] = "scrapeURI" /\ pc'[r] = "scraping"
    BY <1>4 DEF Step, Arrive, Resolving, Username, Password, Refuse, Handle, End, Inv, TypeOK
  <2>9. pc'[r] \notin {"password", "scrapeURI", "scraping"} => Looked(r)' = {}
    BY DEF Looked
  <2> QED
    BY <2>3, <2>4, <2>5, <2>6, <2>7, <2>8, <2>9
<1>5. CASE \/ Revoke \/ UNCHANGED vars
           \/ \E f \in SecretFields : Read(f) \/ Deliver(f) \/ Forget(f)
  BY <1>2, <1>5 DEF Revoke, Read, Deliver, Forget, vars
<1> QED
  BY <1>3, <1>4, <1>5 DEF Next

\* Once a rotated secret is left alone, an old version of a field comes only from
\* where one already is: the resolver, which may yet store what it has read, and
\* the requests; when the requests have let go of it, every pair of credentials is
\* the present one.
THEOREM HealingCorrect == SafetySpec => []Healed /\ OldDriesUp
<1>1. Healed
  <2> SUFFICES ASSUME kind = "static", OldInUse = {}, NEW r \in Requests, Resolved(r)
               PROVE  Pair(r) = <<current, current>>
    BY DEF Healed
  <2>1. \A f \in Credentials : f \in Looked(r) /\ given[r][f] = Ref /\ heap[ptr[r]][f] \in Versions
    BY DEF Resolved, Looked
  <2>2. \A f \in Credentials : <<r, f>> \notin OldInUse
    OBVIOUS
  <2>3. \A f \in Credentials : heap[ptr[r]][f] = current
    BY <2>1, <2>2 DEF OldInUse, Old
  <2> QED
    BY <2>3 DEF Pair, Credentials
<1>2. Init => GotInv
  BY GotInitially
<1>3. Inv /\ GotInv /\ [Next]_vars => GotInv'
  BY ResolverStep
<1>4. Inv /\ GotInv /\ [Next]_vars =>
        [kind = "static" /\ ~Rotate =>
           /\ OldInResolver' \subseteq OldInResolver
           /\ \A u \in OldInUse' \ OldInUse : u[2] \in OldInResolver]_vars
  BY ResolverStep, InUseStep
<1> QED
  BY <1>1, <1>2, <1>3, <1>4, Invariance, PTL DEF SafetySpec, OldDriesUp
=============================================================================
