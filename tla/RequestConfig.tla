----------------------------- MODULE RequestConfig -----------------------------
(***************************************************************************)
(* Where a scrape gets its credentials from: the configuration that is     *)
(* resolved once when the exporter starts (ParseConfig, ResolveSecrets,    *)
(* DetermineAuthType in internal/exporter/config.struct.go), and the copy  *)
(* of it on which every request puts what it overrides                     *)
(* (resolveRequestConfig and doHandle in main.go).  A reference is         *)
(* resolved through the secret resolver, here with one cached value and    *)
(* one shared call per field of one path.  Its steps are those of          *)
(* SecretResolver, which adds how long they take; here it matters which    *)
(* version of a secret they carry, and when each caller stores it.         *)
(*                                                                         *)
(* A secret is known by its version.  The path holds either a static       *)
(* secret, which is rotated now and then, or a dynamic one: each read of   *)
(* it makes Vault issue a new version, with a lease.                       *)
(***************************************************************************)
EXTENDS Sequences, Naturals

CONSTANTS Requests,
          Configurations, \* what ParseConfig may find
          Overrides,      \* what a request may carry
          Versions,       \* of the secret
          Kinds,          \* of the path: "static", "dynamic" (a secrets engine's)
          Filled,         \* the fields that the path may have a value for
          Blank,          \* ... that it may have "" for
          Backends,       \* SECRET_BACKEND: "none", "hashicorp"
          Ref,            \* "vault:<path>#<field>"
          Configured,     \* any other text in the configuration
          Empty,          \* ""
          None

\* The credentials in the order in which ResolveSecrets resolves them.
Secrets == <<"username", "password", "exporterAuthUsername", "exporterAuthPassword",
             "oAuthClientSecret", "pkcs12Pass">>
SecretFields == {Secrets[i] : i \in DOMAIN Secrets}
Credentials == {"username", "password"}

\* "oAuth" stands for the client's ID, the token URL and the scope together.
Fields == SecretFields \cup {"oAuth", "scrapeURI", "timeout", "isHWBroker"}

\* A request's own values are known by the request.
Value == Versions \cup Requests \cup {Ref, Configured, Empty}

\* Who resolves: ResolveSecrets at the start ("base"), and the requests.
Callers == {"base"} \cup Requests

\* What a shared call has for its callers, from the cache or from the backend;
\* and how far a resolve, or a call, without a result is.
Result == [kind: {"cached", "read"}, value: Versions \cup {Empty}]
Stage(k) == [kind |-> k]

ASSUME ConfigurationsAssumption == Configurations \subseteq [Fields -> {Ref, Configured, Empty}]

\* "own", "bad" (of a timeout: not positive, or no duration) or None; of a
\* credential also Ref.  plain: secretBackend=none.  authorized: the exporter's
\* own credentials are right.
ASSUME OverridesAssumption ==
  Overrides \subseteq [username: {"own", Ref, None}, password: {"own", Ref, None},
                       timeout: {"own", "bad", None}, isHWBroker: {"own", "bad", None},
                       scrapeURI: {"own", None}, plain: BOOLEAN, authorized: BOOLEAN]
ASSUME KindsAssumption == Kinds \subseteq {"static", "dynamic"}
ASSUME DistinctAssumption ==
  /\ Ref \notin Versions \cup Requests \cup {Configured, Empty, None, "own", "bad"}
  /\ Requests \cap (Versions \cup {Configured, Empty, "base"}) = {}
  /\ None \notin Versions \cup Requests \cup SecretFields \cup {Empty, "base", "own"}
  /\ {Configured, Empty} \cap Versions = {}

VARIABLES
  kind,     \* of the path
  backend,  \* the backend the resolver has
  phase,    \* of the process: "parsing", "resolving", "serving", "exited"
  next,     \* the secret ResolveSecrets resolves next
  authType, \* conf.authType
  heap,     \* the Config objects: "base" and the requests' copies
  ptr,      \* the object a request works on (reqConf)
  given,    \* what the request carries
  pc,       \* where it is
  cache,    \* the resolver's cache, per field
  flight,   \* the shared call of a field: "none", "asking" the backend, or its result
  got,      \* per caller: "none", "missed" the cache, "waiting", or its result
  current,  \* version of the static secret
  leased    \* versions of the dynamic one that are valid

process == <<kind, backend, phase, next, authType>>
resolver == <<cache, flight, got>>
vault == <<resolver, current, leased>>
vars == <<process, heap, ptr, given, pc, vault>>

\* ServesComplete, faulty: OAuth counts as configured once its secret is.
AuthTypeOf_AnyOAuth(conf) ==
  CASE conf.oAuthClientSecret # Empty -> "oauth"
    [] conf.username # Empty /\ conf.password # Empty -> "basic"
    [] OTHER -> None

\* DetermineAuthType: the type, or None if it returns an error.
AuthTypeOf(conf) ==
  LET any == conf.oAuth # Empty \/ conf.oAuthClientSecret # Empty
      all == conf.oAuth # Empty /\ conf.oAuthClientSecret # Empty
  IN CASE all -> "oauth"
       [] ~any /\ conf.username # Empty /\ conf.password # Empty -> "basic"
       [] OTHER -> None

\* WrapWithAuth asks for credentials.  (The scheme is "basic".)
Protected == heap["base"].exporterAuthUsername # Empty /\ heap["base"].exporterAuthPassword # Empty

Values(calls) == {calls[i].value : i \in {j \in DOMAIN calls : calls[j] \in Result}}

InUse == {current} \cup leased \cup {cache[f] : f \in SecretFields}
         \cup Values(flight) \cup Values(got)
         \cup UNION {{heap[o][f] : f \in Fields} : o \in {p \in DOMAIN heap : heap[p] # None}}

Unused == Versions \ InUse

\* What a read of the path returns for a field.
Readable(f) ==
  (IF f \notin Filled THEN {} ELSE IF kind = "dynamic" THEN Unused ELSE {current})
  \cup (IF f \in Blank THEN {Empty} ELSE {})

-----------------------------------------------------------------------------
Init == /\ kind \in Kinds
        /\ backend \in Backends
        /\ phase = "parsing"
        /\ next = 1
        /\ authType = None
        /\ \E c \in Configurations :
             heap = [o \in {"base"} \cup Requests |-> IF o = "base" THEN c ELSE None]
        /\ ptr = [r \in Requests |-> None]
        /\ given = [r \in Requests |-> None]
        /\ pc = [r \in Requests |-> "idle"]
        /\ cache = [f \in SecretFields |-> None]
        /\ flight = [f \in SecretFields |-> Stage("none")]
        /\ got = [c \in Callers |-> Stage("none")]
        /\ current \in (IF kind = "dynamic" THEN {None} ELSE Versions)
        /\ leased = {}

\* The field c resolves a reference to, or None.
Asked(c) ==
  IF c = "base"
  THEN IF /\ phase = "resolving" /\ next <= Len(Secrets)
          /\ heap["base"][Secrets[next]] = Ref
       THEN Secrets[next] ELSE None
  ELSE IF pc[c] \in Credentials /\ given[c][pc[c]] = Ref /\ ~given[c].plain
       THEN pc[c] ELSE None

\* Resolve looks into the cache, in vain.
Miss(c) ==
  /\ got[c] = Stage("none") /\ cache[Asked(c)] = None /\ backend = "hashicorp"
  /\ got' = [got EXCEPT ![c] = Stage("missed")]
  /\ UNCHANGED <<cache, flight>>

\* DoChan: c joins the call that is running, or starts one, which looks into the
\* cache once more.
Join(c) ==
  LET f == Asked(c) IN
  /\ got[c] = Stage("missed")
  /\ got' = [got EXCEPT ![c] = Stage("waiting")]
  /\ IF flight[f] # Stage("none") THEN UNCHANGED flight
     ELSE flight' = [flight EXCEPT ![f] =
                       IF cache[f] = None THEN Stage("asking")
                       ELSE [kind |-> "cached", value |-> cache[f]]]
  /\ UNCHANGED cache

\* The call reads the secret.  (One that fails is one all callers leave.)
Read(f) ==
  /\ flight[f] = Stage("asking")
  /\ \E v \in Readable(f) :
       /\ flight' = [flight EXCEPT ![f] = [kind |-> "read", value |-> v]]
       /\ leased' = IF kind = "dynamic" THEN leased \cup ({v} \cap Versions) ELSE leased
  /\ UNCHANGED <<process, heap, ptr, given, pc, cache, got, current>>

\* The call is over: every caller that waits has its result, and the next one
\* starts a new call.
Deliver(f) ==
  /\ flight[f] \in Result
  /\ got' = [c \in Callers |-> IF got[c] = Stage("waiting") /\ Asked(c) = f
                               THEN flight[f] ELSE got[c]]
  /\ flight' = [flight EXCEPT ![f] = Stage("none")]
  /\ UNCHANGED <<process, heap, ptr, given, pc, cache, current, leased>>

\* Resolve of a reference to field f gives c the value v: a hit, or the result of
\* the call, which c stores by itself, however late it comes to it.
Resolves(c, f, v) ==
  \/ got[c] = Stage("none") /\ v = cache[f] /\ UNCHANGED resolver
  \/ /\ got[c] \in Result /\ v = got[c].value
     /\ cache' = IF got[c].kind = "read" THEN [cache EXCEPT ![f] = v] ELSE cache
     /\ got' = [got EXCEPT ![c] = Stage("none")]
     /\ UNCHANGED flight

\* ... or an error: no backend, a failed call, or c's own deadline.
ResolveFails(c) ==
  /\ backend = "none" \/ got[c].kind \notin {"none", "missed"}
  /\ got' = [got EXCEPT ![c] = Stage("none")]
  /\ UNCHANGED <<cache, flight>>

Exit == phase' = "exited" /\ UNCHANGED <<kind, backend, next, authType>>

\* ParseConfig ends with the first look at what is configured.
Parse == /\ phase = "parsing"
         /\ IF AuthTypeOf(heap["base"]) = None
            THEN Exit
            ELSE /\ phase' = "resolving" /\ authType' = AuthTypeOf(heap["base"])
                 /\ UNCHANGED <<kind, backend, next>>
         /\ UNCHANGED <<heap, ptr, given, pc, vault>>

\* ResolveSecrets, one secret after the other.
ResolveSecret ==
  /\ phase = "resolving" /\ next <= Len(Secrets)
  /\ LET f == Secrets[next] IN
     \/ /\ heap["base"][f] # Ref
        /\ next' = next + 1
        /\ UNCHANGED <<kind, backend, phase, authType, heap, resolver>>
     \/ /\ heap["base"][f] = Ref
        /\ \E v \in Versions \cup {Empty} :
             Resolves("base", f, v) /\ heap' = [heap EXCEPT !["base"][f] = v]
        /\ next' = next + 1
        /\ UNCHANGED <<kind, backend, phase, authType>>
     \/ /\ heap["base"][f] = Ref
        /\ ResolveFails("base")
        /\ Exit /\ UNCHANGED heap
     \/ /\ heap["base"][f] = Ref
        /\ Miss("base") \/ Join("base")
        /\ UNCHANGED <<process, heap>>
  /\ UNCHANGED <<ptr, given, pc, current, leased>>

\* ... and the second look, at the resolved values.
Serve == /\ phase = "resolving" /\ next > Len(Secrets)
         /\ IF AuthTypeOf(heap["base"]) = None
            THEN Exit
            ELSE /\ phase' = "serving" /\ authType' = AuthTypeOf(heap["base"])
                 /\ UNCHANGED <<kind, backend, next>>
         /\ UNCHANGED <<heap, ptr, given, pc, vault>>

\* OwnConfiguration, faulty: the configuration itself.
Cloned_Shared(r) == "base"

-----------------------------------------------------------------------------
\* Clone: an object of its own.
Cloned(r) == r

\* A request arrives; timeout and broker type are taken over if valid.
Arrive(r) ==
  /\ phase = "serving" /\ pc[r] = "idle"
  /\ \E o \in Overrides :
       /\ given' = [given EXCEPT ![r] = o]
       /\ ptr' = [ptr EXCEPT ![r] = Cloned(r)]
       /\ heap' = [heap EXCEPT ![Cloned(r)] =
                    [heap["base"] EXCEPT
                       !.timeout = IF o.timeout = "own" THEN r ELSE @,
                       !.isHWBroker = IF o.isHWBroker = "own" THEN r ELSE @]]
  /\ pc' = [pc EXCEPT ![r] = "username"]
  /\ UNCHANGED <<process, vault>>

Put(r, f, v) == heap' = [heap EXCEPT ![ptr[r]][f] = v]

\* A credential of the request: not given, taken as it is, or resolved.
Override(r, f) ==
  \/ given[r][f] = None /\ UNCHANGED <<heap, resolver>>
  \/ given[r][f] = "own" /\ Put(r, f, r) /\ UNCHANGED resolver
  \/ given[r][f] = Ref /\ given[r].plain /\ Put(r, f, Ref) /\ UNCHANGED resolver
  \/ /\ given[r][f] = Ref /\ ~given[r].plain
     /\ \E v \in Versions \cup {Empty} : Resolves(r, f, v) /\ Put(r, f, v)

\* NoReferenceSent, faulty: a reference that cannot be resolved is used as it is.
Refuse_Literally(r, f) == /\ given[r][f] = Ref /\ ~given[r].plain
                          /\ ResolveFails(r)
                          /\ pc' = [pc EXCEPT ![r] = "scrapeURI"]
                          /\ Put(r, f, Ref)

\* A reference that cannot be resolved: 500.
Refuse(r, f) == /\ given[r][f] = Ref /\ ~given[r].plain
                /\ ResolveFails(r)
                /\ pc' = [pc EXCEPT ![r] = "failed"]
                /\ UNCHANGED heap

\* The way to a resolve's result.
Resolving(r) == /\ Asked(r) # None
                /\ Miss(r) \/ Join(r)
                /\ UNCHANGED <<process, heap, ptr, given, pc, current, leased>>

Username(r) == /\ pc[r] = "username"
               /\ \/ Override(r, "username") /\ pc' = [pc EXCEPT ![r] = "password"]
                  \/ Refuse(r, "username")
               /\ UNCHANGED <<process, ptr, given, current, leased>>

Password(r) == /\ pc[r] = "password"
               /\ \/ Override(r, "password") /\ pc' = [pc EXCEPT ![r] = "scrapeURI"]
                  \/ Refuse(r, "password")
               /\ UNCHANGED <<process, ptr, given, current, leased>>

\* The scrape URI; then the exporter is asked, if the request may.
Handle(r) ==
  /\ pc[r] = "scrapeURI"
  /\ IF given[r].scrapeURI = "own" THEN Put(r, "scrapeURI", r) ELSE UNCHANGED heap
  /\ pc' = [pc EXCEPT ![r] = IF Protected /\ ~given[r].authorized THEN "failed" ELSE "scraping"]
  /\ UNCHANGED <<process, ptr, given, vault>>

End(r) == /\ pc[r] \in {"scraping", "failed"}
          /\ pc' = [pc EXCEPT ![r] = "idle"]
          /\ given' = [given EXCEPT ![r] = None]
          /\ ptr' = [ptr EXCEPT ![r] = None]
          /\ heap' = [heap EXCEPT ![r] = None]
          /\ UNCHANGED <<process, vault>>

-----------------------------------------------------------------------------
\* The static secret is rotated.
Rotate == /\ kind = "static"
          /\ current' \in Unused
          /\ UNCHANGED <<process, heap, ptr, given, pc, resolver, leased>>

\* RotationHeals, faulty: a cached value has no TTL.
Forget_Never(f) == FALSE /\ UNCHANGED vars

\* The TTL of a cached value ends (of a leased one: half its lease).
Forget(f) == /\ cache[f] # None
             /\ cache' = [cache EXCEPT ![f] = None]
             /\ UNCHANGED <<process, heap, ptr, given, pc, flight, got, current, leased>>

\* A lease ends.  It is much longer than a read may take, and the cache forgets
\* the value at half of it, so the resolver does not have it any more.
Revoke == /\ \E v \in leased \ ({cache[f] : f \in SecretFields} \cup Values(flight) \cup Values(got)) :
               leased' = leased \ {v}
          /\ UNCHANGED <<process, heap, ptr, given, pc, resolver, current>>

Step(r) == Arrive(r) \/ Resolving(r) \/ Username(r) \/ Password(r) \/ Handle(r) \/ End(r)

Next == \/ Parse \/ ResolveSecret \/ Serve \/ Rotate \/ Revoke
        \/ \E r \in Requests : Step(r)
        \/ \E f \in SecretFields : Read(f) \/ Deliver(f) \/ Forget(f)

SafetySpec == Init /\ [][Next]_vars

\* Reads and scrapes end (SecretResolver, SempGetter), and TTLs do.
Fairness ==
  /\ \A r \in Requests :
       WF_vars(Resolving(r) \/ Username(r) \/ Password(r) \/ Handle(r) \/ End(r))
  /\ \A f \in SecretFields : WF_vars(Read(f) \/ Deliver(f)) /\ WF_vars(Forget(f))

Spec == SafetySpec /\ Fairness

-----------------------------------------------------------------------------
(***************************************************************************)
(* Properties.                                                             *)
(***************************************************************************)
TypeOK ==
  /\ kind \in Kinds
  /\ backend \in Backends
  /\ phase \in {"parsing", "resolving", "serving", "exited"}
  /\ next \in 1..(Len(Secrets) + 1)
  /\ authType \in {"basic", "oauth", None}
  /\ heap \in [{"base"} \cup Requests -> [Fields -> Value] \cup {None}]
  /\ heap["base"] \in [Fields -> Value]
  /\ \A r \in Requests : IF pc[r] = "idle" THEN heap[r] = None ELSE heap[r] \in [Fields -> Value]
  /\ ptr \in [Requests -> {"base", None} \cup Requests]
  /\ given \in [Requests -> Overrides \cup {None}]
  /\ pc \in [Requests -> {"idle", "username", "password", "scrapeURI", "scraping", "failed"}]
  /\ cache \in [SecretFields -> Versions \cup {Empty, None}]
  /\ flight \in [SecretFields -> {Stage("none"), Stage("asking")} \cup Result]
  /\ got \in [Callers -> {Stage("none"), Stage("missed"), Stage("waiting")} \cup Result]
  /\ IF kind = "dynamic" THEN current = None ELSE current \in Versions
  /\ leased \subseteq Versions

\* An exporter that serves has no reference left in its configuration, and what
\* its kind of authentication needs is there, after resolution: a reference that
\* resolved to nothing is not taken for a credential.
ServesComplete ==
  phase = "serving" =>
    LET conf == heap["base"] IN
    /\ \A i \in DOMAIN Secrets : conf[Secrets[i]] # Ref
    /\ authType = "basic" => conf.username # Empty /\ conf.password # Empty
    /\ authType = "oauth" => conf.oAuth # Empty /\ conf.oAuthClientSecret # Empty
    /\ authType # None

\* A scrape works with its own request's values where the request gave (valid)
\* ones, and with the configured ones elsewhere; no request ever sees a value of
\* another, and the configuration itself, which prefetch workers read all the
\* while, stays as it was resolved.
Expected(r, f) ==
  IF given[r][f] = "own" THEN {r}
  ELSE IF given[r][f] = Ref THEN Versions \cup {Empty} \cup (IF given[r].plain THEN {Ref} ELSE {})
  ELSE {heap["base"][f]}

OwnConfiguration ==
  /\ \A r \in Requests : pc[r] = "scraping" =>
       \A f \in Credentials \cup {"timeout", "isHWBroker", "scrapeURI"} :
         heap[ptr[r]][f] \in Expected(r, f)
  /\ \A f \in Fields : heap["base"][f] \notin Requests

\* A reference is sent to a broker as a credential only if the request said that
\* it is none (secretBackend=none).
NoReferenceSent ==
  \A r \in Requests : pc[r] = "scraping" =>
    \A f \in Credentials :
      heap[ptr[r]][f] = Ref => given[r].plain /\ given[r][f] = Ref

\* The two credentials of a scrape that gave references to both.
Pair(r) == <<heap[ptr[r]].username, heap[ptr[r]].password>>
Resolved(r) == pc[r] = "scraping" /\ \A f \in Credentials :
                 given[r][f] = Ref /\ heap[ptr[r]][f] \in Versions

\* The two are cached apart, so a rotation may leave an old username with a new
\* password, but not for good: once the secret is left alone, scrapes come to
\* use it.
RotationHeals ==
  <>[][~Rotate]_vars => <>[](\A r \in Requests : kind = "static" /\ Resolved(r) => Pair(r) = <<current, current>>)

\* Why it heals.  Left alone, the resolver comes to hold an old version of a field
\* only if it held one of that field already: in the cache, in the shared call, or
\* with a caller that has yet to store it, which it may do over a newer one.  A
\* request gets one only from there, and what is then neither in the resolver nor
\* with a request is nowhere.
Old == Versions \ {current}
OldIn(call) == call \in Result /\ call.value \in Old
OldInResolver == {f \in SecretFields :
                    \/ cache[f] \in Old
                    \/ OldIn(flight[f])
                    \/ \E c \in Callers : Asked(c) = f /\ OldIn(got[c])}

Looked(r) == CASE pc[r] = "password" -> {"username"}
               [] pc[r] \in {"scrapeURI", "scraping"} -> Credentials
               [] OTHER -> {}
OldInUse == {u \in Requests \X Credentials :
               /\ u[2] \in Looked(u[1]) /\ given[u[1]][u[2]] = Ref
               /\ heap[ptr[u[1]]][u[2]] \in Old}

OldDriesUp ==
  [][kind = "static" /\ ~Rotate =>
       /\ OldInResolver' \subseteq OldInResolver
       /\ \A u \in OldInUse' \ OldInUse : u[2] \in OldInResolver]_vars

Healed ==
  kind = "static" /\ OldInUse = {} =>
    \A r \in Requests : Resolved(r) => Pair(r) = <<current, current>>

\* "For dynamic database-style credentials ... just use the same
\* vault:<path>#<field> syntax" (docs/CONFIG.md): the two belong together.
CredentialsMatch ==
  \A r \in Requests : kind = "dynamic" /\ Resolved(r) => Pair(r)[1] = Pair(r)[2]

\* "the resolver caches values at half the lease duration and refreshes
\* automatically" (docs/CONFIG.md): a scrape starts with valid credentials.
CredentialsValid ==
  [][\A r \in Requests :
       LET username == heap'[ptr'[r]].username IN
       kind = "dynamic" /\ pc[r] = "idle" /\ pc'[r] # "idle" /\ username \in Versions
         => username \in leased]_vars

\* Without a backend "all values [are] treated as plain text" (docs/CONFIG.md).
PlainWithoutBackend ==
  backend = "none" /\ phase = "exited" => AuthTypeOf(heap["base"]) = None
=============================================================================
