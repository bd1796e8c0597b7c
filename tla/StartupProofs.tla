---------------------------- MODULE StartupProofs ----------------------------
(***************************************************************************)
(* What an exporter that serves has made of its configuration, for every   *)
(* configuration and every request: the stages of main as an inductive     *)
(* invariant, and what joining and ordering sequences keep.                *)
(***************************************************************************)
EXTENDS Startup, TLAPS, FiniteSetTheorems, SequenceTheorems, WellFoundedInduction

(***************************************************************************)
(* What joining sequences yields.  The library's induction theorems take   *)
(* an operator as a parameter, so induction goes by the least              *)
(* counterexample: a set of numbers, which is first order.                 *)
(***************************************************************************)
LEMMA LeastElement ==
  ASSUME NEW T \in SUBSET Nat, T # {}
  PROVE  \E n \in T : \A m \in T : n <= m
<1> DEFINE R == OpToRel(<, Nat)
<1>1. IsWellFoundedOn(R, Nat)
  BY NatLessThanWellFounded
<1>2. \A m, n \in Nat : m < n => <<m, n>> \in R
  BY DEF OpToRel
<1> HIDE DEF R
<1>3. PICK n \in T : \A m \in T : ~ (<<m, n>> \in R)
  BY <1>1, WFMin
<1>4. ASSUME NEW m \in T PROVE n <= m
  <2>1. m \in Nat /\ n \in Nat /\ ~(m < n)
    BY <1>2, <1>3
  <2> QED
    BY <2>1
<1> QED
  BY <1>4

\* The recursion by which FlattenSeq is defined, up to the n-th sequence.
Joins(g, ss, n) == g = [k \in 1..n |-> IF k = 1 THEN ss[k] ELSE g[k - 1] \o ss[k]]

LEMMA JoinExists ==
  ASSUME NEW ss, NEW n \in Nat
  PROVE  \E g : Joins(g, ss, n)
<1> DEFINE T == {m \in Nat : ~ \E g : Joins(g, ss, m)}
<1> SUFFICES ASSUME T # {} PROVE FALSE
  OBVIOUS
<1>1. PICK m \in T : \A j \in T : m <= j
  BY LeastElement
<1>2. CASE m = 0
  <2>1. Joins([k \in 1..0 |-> ss[k]], ss, 0)
    BY DEF Joins
  <2> QED
    BY <1>1, <1>2, <2>1
<1>3. CASE m # 0
  <2>1. m - 1 \in Nat /\ m - 1 \notin T
    BY <1>1, <1>3
  <2>2. PICK g : Joins(g, ss, m - 1)
    BY <2>1
  <2> DEFINE h == [k \in 1..m |-> IF k < m THEN g[k]
                                  ELSE IF k = 1 THEN ss[k] ELSE g[k - 1] \o ss[k]]
  <2>3. ASSUME NEW k \in 1..m
        PROVE  h[k] = IF k = 1 THEN ss[k] ELSE h[k - 1] \o ss[k]
    <3>1. CASE k = m
      BY <1>1, <1>3, <3>1
    <3>2. CASE k < m
      <4>1. k \in 1..(m - 1) /\ (k # 1 => k - 1 \in 1..(m - 1) /\ k - 1 < m)
        BY <3>2
      <4>2. g[k] = IF k = 1 THEN ss[k] ELSE g[k - 1] \o ss[k]
        BY <2>2, <4>1 DEF Joins
      <4>3. h[k] = g[k] /\ (k # 1 => h[k - 1] = g[k - 1])
        BY <3>2, <4>1
      <4> HIDE DEF h
      <4> QED
        BY <4>2, <4>3
    <3> QED
      BY <3>1, <3>2
  <2>4. h = [k \in 1..m |-> IF k = 1 THEN ss[k] ELSE h[k - 1] \o ss[k]]
    <3>1. h = [k \in 1..m |-> h[k]]
      OBVIOUS
    <3> HIDE DEF h
    <3> QED
      BY <2>3, <3>1
  <2>5. Joins(h, ss, m)
    <3> HIDE DEF h
    <3> QED
      BY <2>4 DEF Joins
  <2> QED
    BY <1>1, <2>5
<1> QED
  BY <1>2, <1>3

LEMMA ConcatElements ==
  ASSUME NEW S, NEW s \in Seq(S), NEW t \in Seq(S)
  PROVE  ToSet(s \o t) = ToSet(s) \cup ToSet(t)
<1>1. /\ DOMAIN s = 1..Len(s) /\ DOMAIN t = 1..Len(t)
      /\ DOMAIN (s \o t) = 1..(Len(s) + Len(t))
      /\ Len(s) \in Nat /\ Len(t) \in Nat
  OBVIOUS
<1>2. \A k \in 1..Len(s) : (s \o t)[k] = s[k] /\ k \in DOMAIN (s \o t)
  BY <1>1
<1>3. \A k \in 1..Len(t) : (s \o t)[Len(s) + k] = t[k] /\ Len(s) + k \in DOMAIN (s \o t)
  BY <1>1
<1>4. ASSUME NEW k \in DOMAIN (s \o t)
      PROVE  (s \o t)[k] \in ToSet(s) \cup ToSet(t)
  <2>1. CASE k <= Len(s)
    BY <1>1, <1>2, <2>1 DEF ToSet
  <2>2. CASE k > Len(s)
    <3>1. k - Len(s) \in 1..Len(t) /\ Len(s) + (k - Len(s)) = k
      BY <1>1, <2>2
    <3>2. (s \o t)[k] = t[k - Len(s)]
      BY <1>3, <3>1
    <3> QED
      BY <1>1, <3>1, <3>2 DEF ToSet
  <2> QED
    BY <1>1, <2>1, <2>2
<1>5. ToSet(s) \cup ToSet(t) \subseteq ToSet(s \o t)
  <2>1. ToSet(s) \subseteq ToSet(s \o t)
    BY <1>1, <1>2 DEF ToSet
  <2>2. ToSet(t) \subseteq ToSet(s \o t)
    BY <1>1, <1>3 DEF ToSet
  <2> QED
    BY <2>1, <2>2
<1> QED
  BY <1>4, <1>5 DEF ToSet

\* Joining sequences loses none of their elements and adds none.
LEMMA FlattenElements ==
  ASSUME NEW S, NEW ss \in Seq(Seq(S))
  PROVE  /\ FlattenSeq(ss) \in Seq(S)
         /\ ToSet(FlattenSeq(ss)) = UNION {ToSet(ss[k]) : k \in DOMAIN ss}
<1>1. CASE Len(ss) = 0
  <2>1. ss = <<>> /\ FlattenSeq(ss) = ss /\ DOMAIN ss = {}
    BY <1>1 DEF FlattenSeq
  <2>2. ToSet(FlattenSeq(ss)) = {} /\ UNION {ToSet(ss[k]) : k \in DOMAIN ss} = {}
    BY <2>1 DEF ToSet
  <2>3. FlattenSeq(ss) = <<>> /\ <<>> \in Seq(S)
    BY <2>1
  <2>4. FlattenSeq(ss) \in Seq(S)
    BY ONLY <2>3
  <2> QED
    BY <2>2, <2>4
<1>2. CASE Len(ss) # 0
  <2> DEFINE g == CHOOSE f : f = [k \in 1..Len(ss) |-> IF k = 1 THEN ss[k]
                                                       ELSE f[k - 1] \o ss[k]]
  <2>1. FlattenSeq(ss) = g[Len(ss)]
    BY <1>2 DEF FlattenSeq
  <2>2. \E f : f = [k \in 1..Len(ss) |-> IF k = 1 THEN ss[k] ELSE f[k - 1] \o ss[k]]
    <3>1. Len(ss) \in Nat
      OBVIOUS
    <3> QED
      BY <3>1, JoinExists DEF Joins
  <2>3. g = [k \in 1..Len(ss) |-> IF k = 1 THEN ss[k] ELSE g[k - 1] \o ss[k]]
    BY <2>2
  <2> HIDE DEF g
  <2> DEFINE All(n) == UNION {ToSet(ss[k]) : k \in 1..n}
             Right(n) == g[n] \in Seq(S) /\ ToSet(g[n]) = All(n)
             T == {n \in Nat : n \in 1..Len(ss) /\ ~Right(n)}
  <2>4. T = {}
    <3> SUFFICES ASSUME T # {} PROVE FALSE
      OBVIOUS
    <3>1. PICK n \in T : \A j \in T : n <= j
      <4> HIDE DEF All
      <4> QED
        BY LeastElement
    <3>2. n \in Nat /\ n \in 1..Len(ss) /\ ~Right(n)
      BY <3>1
    <3>3. ss[n] \in Seq(S)
      BY <3>2
    <3>4. CASE n = 1
      <4>1. g[n] = ss[n]
        BY <2>3, <3>2, <3>4
      <4>2. All(n) = ToSet(ss[n])
        BY <3>4
      <4> QED
        BY <3>2, <3>3, <4>1, <4>2
    <3>5. CASE n # 1
      <4>1. g[n] = g[n - 1] \o ss[n]
        BY <2>3, <3>2, <3>5
      <4>2. n - 1 \in Nat /\ n - 1 \in 1..Len(ss) /\ n - 1 \notin T
        <5> HIDE DEF Right
        <5> QED
          BY <3>1, <3>2, <3>5
      <4>3. Right(n - 1)
        <5> HIDE DEF Right
        <5> QED
          BY <4>2
      <4>4. g[n] \in Seq(S)
        BY <3>3, <4>1, <4>3
      <4>5. ToSet(g[n]) = ToSet(g[n - 1]) \cup ToSet(ss[n])
        <5>1. g[n - 1] \in Seq(S)
          BY <4>3
        <5> QED
          BY <3>3, <4>1, <5>1, ConcatElements
      <4>6. All(n) = All(n - 1) \cup ToSet(ss[n])
        <5>1. 1..n = 1..(n - 1) \cup {n}
          BY <3>2, <3>5
        <5> QED
          BY <5>1
      <4> QED
        BY <3>2, <4>3, <4>4, <4>5, <4>6
    <3> QED
      BY <3>4, <3>5
  <2>5. Len(ss) \in Nat /\ Len(ss) \in 1..Len(ss) /\ DOMAIN ss = 1..Len(ss)
    BY <1>2
  <2>6. Right(Len(ss))
    <3> HIDE DEF Right
    <3> QED
      BY <2>4, <2>5
  <2> QED
    BY <2>1, <2>5, <2>6
<1> QED
  BY <1>1, <1>2

\* A sequence of all elements of a finite set, each once.
LEMMA OrderElements ==
  ASSUME NEW S, IsFiniteSet(S), NEW order \in SetToSeqs(S)
  PROVE  /\ order \in Seq(S)
         /\ {order[k] : k \in DOMAIN order} = S
<1> DEFINE D == 1..Cardinality(S)
<1>1. Cardinality(S) \in Nat
  BY FS_CardinalityType
<1>2. order \in [D -> S] /\ \A j, k \in D : j # k => order[j] # order[k]
  BY DEF SetToSeqs
<1>3. order \in Injection(D, S)
  BY <1>2 DEF Injection, IsInjective
<1>4. Cardinality(D) = Cardinality(S)
  BY <1>1, FS_Interval
<1>5. order \in Surjection(D, S)
  <2> HIDE DEF D
  <2> QED
    BY <1>3, <1>4, FS_Injection
<1>6. \A x \in S : \E k \in D : order[k] = x
  BY <1>5 DEF Surjection
<1> QED
  BY <1>1, <1>2, <1>6

(***************************************************************************)
(* The stages of a start: what main knows when it has come this far.       *)
(***************************************************************************)
\* The configuration as ParseConfig hands it on.
Parsed ==
  /\ Accepted(settings)
  /\ endpoints = [a \in DOMAIN settings.sections |-> SectionSources(settings.sections[a])]
  /\ conf = [prefetchInterval |-> Setting(settings.prefetchInterval, 0),
             parallelSempConnections |-> Limit(Setting(settings.parallelSempConnections, 1))]

\* The handler of a section.
SectionHandler(a) ==
  Handler(IF conf.prefetchInterval > 0 THEN "prefetch" ELSE "scrape", endpoints[a])

\* The paths that have a handler are those of the exporter and of the sections
\* declared so far, and none of the sections has taken a path of the exporter.
Registered(paths, own) ==
  /\ DOMAIN handlers = own \cup paths
  /\ own \cap paths = {}
  /\ handlers["metrics"] = Handler("own", <<>>)
  /\ \A a \in paths : handlers[a] = SectionHandler(a)

StageInv ==
  /\ settings \in Settings
  /\ phase \in {"parse", "secrets", "register", "listen", "serving", "ended", "panicked"}
  /\ phase = "parse" => endpoints = <<>> /\ declared = {} /\ handlers = <<>>
  /\ phase = "secrets" => Parsed /\ declared = {} /\ handlers = <<>>
  /\ phase = "register" => /\ Parsed /\ declared \subseteq DOMAIN endpoints
                           /\ Registered(declared, {"metrics"})
  /\ phase \in {"listen", "serving"} =>
       /\ Parsed /\ Registered(DOMAIN endpoints, {"metrics", "solace", ""})
       /\ handlers["solace"] = Handler("modular", <<>>)
       /\ handlers[""] = Handler("page", <<>>)

\* In every later stage, the last ones included.
EndpointsInv == endpoints = <<>> \/ Parsed

LEMMA StagesInitially == Init => StageInv /\ EndpointsInv
BY DEF Init, StageInv, EndpointsInv

\* Ending leaves everything as it is but the stage.
LEMMA EndingStep ==
  ASSUME StageInv, EndpointsInv,
         phase' \in {"ended", "panicked"},
         UNCHANGED <<settings, conf, endpoints, declared, handlers>>
  PROVE  StageInv' /\ EndpointsInv'
BY DEF StageInv, EndpointsInv, Parsed

LEMMA ParseStep == ASSUME StageInv, EndpointsInv, ParseConfig PROVE StageInv' /\ EndpointsInv'
<1>1. /\ phase = "parse" /\ phase' = "secrets" /\ settings \in Settings
      /\ settings' = settings /\ declared' = {} /\ handlers' = <<>>
  BY DEF ParseConfig, StageInv
<1>2. Parsed'
  BY <1>1 DEF ParseConfig, Parsed
<1> QED
  BY <1>1, <1>2 DEF StageInv, EndpointsInv

LEMMA SecretsStep == ASSUME StageInv, EndpointsInv, ResolveSecrets PROVE StageInv' /\ EndpointsInv'
<1>1. CASE Ends(1)
  BY <1>1, EndingStep DEF Ends
<1>2. CASE /\ phase' = "register"
           /\ Register([path \in {"metrics"} |-> Handler("own", <<>>)])
           /\ UNCHANGED <<settings, status, conf, endpoints, declared, answer>>
  <2>1. phase = "secrets" /\ Parsed /\ declared = {} /\ handlers = <<>>
    BY DEF ResolveSecrets, StageInv
  <2>2. DOMAIN handlers = {}
    BY <2>1
  <2>3. DOMAIN handlers' = {"metrics"} /\ handlers'["metrics"] = Handler("own", <<>>)
    BY <1>2, <2>2 DEF Register
  <2>4. Registered(declared, {"metrics"})'
    BY <1>2, <2>1, <2>3 DEF Registered
  <2>5. Parsed'
    BY <1>2, <2>1 DEF Parsed
  <2> QED
    BY <1>2, <2>1, <2>4, <2>5 DEF StageInv, EndpointsInv
<1> QED
  BY <1>1, <1>2 DEF ResolveSecrets

LEMMA DeclareStep ==
  ASSUME StageInv, EndpointsInv, NEW a \in DOMAIN endpoints, Declare(a)
  PROVE  StageInv' /\ EndpointsInv'
<1>1. CASE Panics
  BY <1>1, EndingStep DEF Panics
<1>2. CASE /\ a \notin DOMAIN handlers
           /\ Register([path \in {a} |->
                          Handler(IF conf.prefetchInterval > 0 THEN "prefetch" ELSE "scrape",
                                  endpoints[a])])
           /\ declared' = declared \cup {a}
           /\ UNCHANGED <<settings, phase, status, conf, endpoints, answer>>
  <2>1. phase = "register" /\ Parsed /\ declared \subseteq DOMAIN endpoints
    BY DEF Declare, StageInv
  <2>2. Registered(declared, {"metrics"})
    BY <2>1 DEF StageInv
  <2>3. /\ DOMAIN handlers' = DOMAIN handlers \cup {a}
        /\ handlers'[a] = SectionHandler(a)
        /\ \A b \in DOMAIN handlers : handlers'[b] = handlers[b]
    BY <1>2 DEF Register, SectionHandler
  <2>5. \A b : SectionHandler(b)' = SectionHandler(b)
    BY <1>2 DEF SectionHandler
  <2>6. Registered(declared, {"metrics"})'
    BY <1>2, <2>2, <2>3, <2>5 DEF Registered
  <2>7. Parsed'
    BY <1>2, <2>1 DEF Parsed
  <2> QED
    BY <1>2, <2>1, <2>6, <2>7 DEF StageInv, EndpointsInv
<1> QED
  BY <1>1, <1>2 DEF Declare

LEMMA DeclareRestStep ==
  ASSUME StageInv, EndpointsInv, DeclareRest
  PROVE  StageInv' /\ EndpointsInv'
<1>1. CASE Panics
  BY <1>1, EndingStep DEF Panics
<1>2. CASE /\ {"solace", ""} \cap DOMAIN handlers = {}
           /\ Register([path \in {"solace", ""} |->
                          Handler(IF path = "" THEN "page" ELSE "modular", <<>>)])
           /\ phase' = "listen"
           /\ UNCHANGED <<settings, status, conf, endpoints, declared, answer>>
  <2>1. phase = "register" /\ Parsed /\ declared = DOMAIN endpoints
    BY DEF DeclareRest, StageInv
  <2>2. Registered(DOMAIN endpoints, {"metrics"})
    BY <2>1 DEF StageInv
  <2>3. /\ DOMAIN handlers' = DOMAIN handlers \cup {"solace", ""}
        /\ handlers'["solace"] = Handler("modular", <<>>)
        /\ handlers'[""] = Handler("page", <<>>)
        /\ \A b \in DOMAIN handlers : handlers'[b] = handlers[b]
    BY <1>2 DEF Register
  <2>4. \A b : SectionHandler(b)' = SectionHandler(b)
    BY <1>2 DEF SectionHandler
  <2>5. Registered(DOMAIN endpoints, {"metrics", "solace", ""})'
    BY <1>2, <2>2, <2>3, <2>4 DEF Registered
  <2>6. Parsed'
    BY <1>2, <2>1 DEF Parsed
  <2> QED
    BY <1>2, <2>1, <2>3, <2>5, <2>6 DEF StageInv, EndpointsInv
<1> QED
  BY <1>1, <1>2 DEF DeclareRest

\* Listening, answering and stuttering change neither handlers nor configuration.
LEMMA QuietStep ==
  ASSUME StageInv, EndpointsInv,
         phase' = phase \/ (phase = "listen" /\ phase' = "serving"),
         UNCHANGED <<settings, conf, endpoints, declared, handlers>>
  PROVE  StageInv' /\ EndpointsInv'
<1>1. Parsed' = Parsed
  BY DEF Parsed
<1>2. \A paths, own : Registered(paths, own)' = Registered(paths, own)
  BY DEF Registered, SectionHandler
<1> QED
  BY <1>1, <1>2 DEF StageInv, EndpointsInv

LEMMA StageStep ==
  ASSUME StageInv, EndpointsInv, [Next]_vars
  PROVE  StageInv' /\ EndpointsInv'
<1>1. CASE ParseConfig
  BY <1>1, ParseStep
<1>2. CASE ParseConfigFails
  BY <1>2, EndingStep DEF ParseConfigFails, Ends
<1>3. CASE ResolveSecrets
  BY <1>3, SecretsStep
<1>4. ASSUME NEW a \in DOMAIN endpoints, Declare(a) PROVE StageInv' /\ EndpointsInv'
  BY <1>4, DeclareStep
<1>5. CASE DeclareRest
  BY <1>5, DeclareRestStep
<1>6. CASE Listen
  BY <1>6, EndingStep, QuietStep DEF Listen, Ends
<1>7. ASSUME NEW path \in DOMAIN handlers, NEW form \in Forms, Request(path, form)
      PROVE  StageInv' /\ EndpointsInv'
  BY <1>7, QuietStep DEF Request, DoHandle, Answered
<1>8. CASE Over \/ UNCHANGED vars
  BY <1>8, QuietStep DEF Over, vars
<1> QED
  BY <1>1, <1>2, <1>3, <1>4, <1>5, <1>6, <1>7, <1>8 DEF Next

LEMMA Stages == Spec => [](StageInv /\ EndpointsInv)
BY StagesInitially, StageStep, PTL DEF Spec

\* An option that is accepted is a number.
LEMMA SettingIsNumber ==
  ASSUME NEW option, NEW default \in Int,
         option.env \in Int \cup {None, Bad}, option.ini \in Int \cup {None, Bad},
         Setting(option, default) # Bad
  PROVE  Setting(option, default) \in Int
<1>1. CASE option.env # None
  BY <1>1 DEF Setting
<1>2. CASE option.env = None /\ option.ini # None
  BY <1>2 DEF Setting
<1>3. CASE option.env = None /\ option.ini = None
  BY <1>3 DEF Setting
<1> QED
  BY <1>1, <1>2, <1>3

\* Whatever is configured, an exporter that serves has a handler for each of its
\* sections, and for nothing else but its own three paths, with one data source
\* per entry; it prefetches exactly if an interval is configured, and then
\* every worker can get a permit (declareHandlerFromConfig and main).
THEOREM SectionsCorrect == Spec => []SectionsServed
<1>1. ASSUME StageInv PROVE SectionsServed
  <2> SUFFICES ASSUME phase = "serving"
               PROVE  /\ DOMAIN handlers = DOMAIN settings.sections \cup {"metrics", "solace", ""}
                      /\ \A a \in DOMAIN settings.sections :
                           /\ Len(handlers[a].sources) = Len(settings.sections[a])
                           /\ handlers[a].kind = "prefetch" <=>
                                Setting(settings.prefetchInterval, 0) > 0
                           /\ handlers[a].kind = "prefetch" => conf.parallelSempConnections >= 1
                      /\ handlers["metrics"].kind = "own" /\ handlers["solace"].kind = "modular"
    BY DEF SectionsServed
  <2>1. /\ settings \in Settings /\ Parsed
        /\ Registered(DOMAIN endpoints, {"metrics", "solace", ""})
        /\ handlers["solace"] = Handler("modular", <<>>)
    BY <1>1 DEF StageInv
  <2>2. /\ DOMAIN endpoints = DOMAIN settings.sections
        /\ conf.prefetchInterval = Setting(settings.prefetchInterval, 0)
        /\ conf.parallelSempConnections = Limit(Setting(settings.parallelSempConnections, 1))
    BY <2>1 DEF Parsed
  <2>3. conf.parallelSempConnections >= 1
    <3>1. Setting(settings.parallelSempConnections, 1) \in Int
      <4>1. /\ settings.parallelSempConnections.env \in Int \cup {None, Bad}
            /\ settings.parallelSempConnections.ini \in Int \cup {None, Bad}
            /\ Setting(settings.parallelSempConnections, 1) # Bad
        BY <2>1, SettingsAssumption DEF Parsed, Accepted
      <4> QED
        BY <4>1, SettingIsNumber
    <3> QED
      BY <2>2, <3>1 DEF Limit
  <2>4. ASSUME NEW a \in DOMAIN settings.sections
        PROVE  /\ Len(handlers[a].sources) = Len(settings.sections[a])
               /\ handlers[a].kind = "prefetch" <=> Setting(settings.prefetchInterval, 0) > 0
    <3>1. /\ handlers[a].sources = SectionSources(settings.sections[a])
          /\ handlers[a].kind = IF conf.prefetchInterval > 0 THEN "prefetch" ELSE "scrape"
      <4>1. a \in DOMAIN endpoints /\ endpoints[a] = SectionSources(settings.sections[a])
        BY <2>1, <2>2 DEF Parsed
      <4>2. handlers[a] = SectionHandler(a)
        BY <2>1, <4>1 DEF Registered
      <4> QED
        BY <4>1, <4>2 DEF SectionHandler, Handler
    <3>2. settings.sections[a] \in Seq([name: Names, value: Values])
      BY <2>1, SettingsAssumption
    <3>3. Len(SectionSources(settings.sections[a])) = Len(settings.sections[a])
      BY <3>2 DEF SectionSources
    <3> QED
      BY <2>2, <3>1, <3>3
  <2>5. DOMAIN handlers = DOMAIN settings.sections \cup {"metrics", "solace", ""}
    BY <2>1, <2>2 DEF Registered
  <2>6. handlers["metrics"].kind = "own" /\ handlers["solace"].kind = "modular"
    <3>1. \A kind, sources : Handler(kind, sources).kind = kind
      BY DEF Handler
    <3>2. handlers["metrics"] = Handler("own", <<>>)
      BY <2>1 DEF Registered
    <3> QED
      BY <2>1, <3>1, <3>2
  <2> QED
    BY <2>3, <2>4, <2>5, <2>6
<1> QED
  BY <1>1, Stages, PTL

(***************************************************************************)
(* What is scraped, by what is written: the same whether it is a section   *)
(* or the parameters of a request.                                         *)
(***************************************************************************)
\* What main's two parsers make of an entry's text: a target, the number that
\* follows it, and a value.
Source(text) == DataSource([target |-> text[1], number |-> text[2]], text[3])
Sources == {DataSource(name, value) : name \in Names, value \in Values}

LEMMA ShortSequences ==
  ASSUME NEW S, NEW x \in S
  PROVE  /\ <<x>> \in Seq(S) /\ ToSet(<<x>>) = {x}
         /\ <<>> \in Seq(S) /\ ToSet(<<>>) = {}
<1>1. <<x>> \in Seq(S) /\ DOMAIN <<x>> = {1} /\ <<x>>[1] = x
  OBVIOUS
<1>2. <<>> \in Seq(S) /\ DOMAIN <<>> = {}
  OBVIOUS
<1>3. ToSet(<<x>>) = {x}
  BY <1>1 DEF ToSet
<1>4. ToSet(<<>>) = {}
  BY <1>2 DEF ToSet
<1> QED
  BY <1>1, <1>2, <1>3, <1>4

\* One parameter: a data source for each of its values that is well-formed.
LEMMA ParameterElements ==
  ASSUME NEW name \in Names, NEW values \in Seq(Values)
  PROVE  /\ ParameterSources(name, values) \in Seq(Sources)
         /\ ToSet(ParameterSources(name, values)) =
              {DataSource(name, values[k]) : k \in {k \in DOMAIN values : WellFormed(values[k])}}
<1> DEFINE ss == [k \in DOMAIN values |->
                    IF WellFormed(values[k]) THEN <<DataSource(name, values[k])>> ELSE <<>>]
<1>1. \A k \in DOMAIN values : DataSource(name, values[k]) \in Sources
  BY DEF Sources
<1>2. ASSUME NEW k \in DOMAIN values
      PROVE  /\ ss[k] \in Seq(Sources)
             /\ ToSet(ss[k]) = IF WellFormed(values[k]) THEN {DataSource(name, values[k])} ELSE {}
  <2> DEFINE x == DataSource(name, values[k])
  <2>1. x \in Sources
    BY <1>1
  <2>2. ss[k] = IF WellFormed(values[k]) THEN <<x>> ELSE <<>>
    OBVIOUS
  <2> HIDE DEF x, ss
  <2>3. /\ <<x>> \in Seq(Sources) /\ ToSet(<<x>>) = {x}
        /\ <<>> \in Seq(Sources) /\ ToSet(<<>>) = {}
    BY <2>1, ShortSequences
  <2>4. /\ ss[k] \in Seq(Sources)
        /\ ToSet(ss[k]) = IF WellFormed(values[k]) THEN {x} ELSE {}
    BY <2>2, <2>3
  <2> QED
    BY <2>4 DEF x
<1>3. DOMAIN ss = DOMAIN values /\ DOMAIN values = 1..Len(values) /\ Len(values) \in Nat
  OBVIOUS
<1>4. ss \in Seq(Seq(Sources))
  <2>1. ss \in [1..Len(values) -> Seq(Sources)]
    <3>1. ss = [k \in 1..Len(values) |-> ss[k]]
      BY <1>3
    <3> HIDE DEF ss
    <3> QED
      BY <1>2, <1>3, <3>1
  <2> HIDE DEF ss
  <2> QED
    BY <1>3, <2>1
<1>5. ParameterSources(name, values) = FlattenSeq(ss)
  BY DEF ParameterSources
<1> HIDE DEF ss
<1>6. /\ FlattenSeq(ss) \in Seq(Sources)
      /\ ToSet(FlattenSeq(ss)) = UNION {ToSet(ss[k]) : k \in DOMAIN values}
  BY <1>3, <1>4, FlattenElements
<1>7. UNION {ToSet(ss[k]) : k \in DOMAIN values} =
        {DataSource(name, values[k]) : k \in {k \in DOMAIN values : WellFormed(values[k])}}
  BY <1>2
<1> QED
  BY <1>5, <1>6, <1>7

\* A request, in whatever order its parameters are walked: a data source for
\* each of its texts that is well-formed.
LEMMA FormElements ==
  ASSUME NEW form \in Forms \ {Broken}, NEW sources \in FormSources(form)
  PROVE  ToSet(sources) = {Source(text) : text \in {text \in FormTexts(form) : WellFormed(text[3])}}
<1>1. /\ IsFiniteSet(DOMAIN form)
      /\ \A name \in DOMAIN form : name \in Names /\ form[name] \in Seq(Values)
  BY FormsAssumption
<1>2. PICK order \in SetToSeqs(DOMAIN form) :
        sources = FlattenSeq([k \in DOMAIN order |-> ParameterSources(order[k], form[order[k]])])
  BY DEF FormSources
<1> DEFINE ss == [k \in DOMAIN order |-> ParameterSources(order[k], form[order[k]])]
           Of(name) == ToSet(ParameterSources(name, form[name]))
<1>3. order \in Seq(DOMAIN form) /\ {order[k] : k \in DOMAIN order} = DOMAIN form
  BY <1>1, OrderElements
<1>4. DOMAIN ss = DOMAIN order /\ DOMAIN order = 1..Len(order) /\ Len(order) \in Nat
  BY <1>3
<1>5. ASSUME NEW k \in DOMAIN order
      PROVE  ss[k] \in Seq(Sources) /\ ToSet(ss[k]) = Of(order[k])
  <2>1. order[k] \in DOMAIN form
    BY <1>3
  <2>2. ss[k] = ParameterSources(order[k], form[order[k]])
    OBVIOUS
  <2> HIDE DEF ss
  <2> QED
    BY <1>1, <2>1, <2>2, ParameterElements
<1>6. ss \in Seq(Seq(Sources))
  <2>1. ss = [k \in 1..Len(order) |-> ss[k]]
    BY <1>4
  <2> HIDE DEF ss
  <2>2. ss \in [1..Len(order) -> Seq(Sources)]
    BY <1>4, <1>5, <2>1
  <2> QED
    BY <1>4, <2>2
<1>7. sources = FlattenSeq(ss)
  BY <1>2
<1> HIDE DEF ss
<1>8. ToSet(sources) = UNION {ToSet(ss[k]) : k \in DOMAIN order}
  BY <1>4, <1>6, <1>7, FlattenElements
<1>9. ToSet(sources) = UNION {Of(name) : name \in DOMAIN form}
  <2> HIDE DEF Of
  <2>1. UNION {ToSet(ss[k]) : k \in DOMAIN order} = UNION {Of(order[k]) : k \in DOMAIN order}
    BY <1>5
  <2>2. UNION {Of(order[k]) : k \in DOMAIN order} = UNION {Of(name) : name \in DOMAIN form}
    BY <1>3
  <2> QED
    BY <1>8, <2>1, <2>2
<1>10. ASSUME NEW name \in DOMAIN form
       PROVE  Of(name) = {Source(<<name.target, name.number, form[name][k]>>) :
                            k \in {k \in DOMAIN form[name] : WellFormed(form[name][k])}}
  <2>1. name = [target |-> name.target, number |-> name.number]
    BY <1>1 DEF Names
  <2>2. \A k \in DOMAIN form[name] :
          Source(<<name.target, name.number, form[name][k]>>) = DataSource(name, form[name][k])
    BY <2>1 DEF Source
  <2>3. Of(name) = {DataSource(name, form[name][k]) :
                      k \in {k \in DOMAIN form[name] : WellFormed(form[name][k])}}
    BY <1>1, ParameterElements
  <2> QED
    BY <2>2, <2>3
<1> HIDE DEF Of
<1>11. ASSUME NEW x \in UNION {Of(name) : name \in DOMAIN form}
       PROVE  x \in {Source(text) : text \in {text \in FormTexts(form) : WellFormed(text[3])}}
  <2>1. PICK name \in DOMAIN form : x \in Of(name)
    OBVIOUS
  <2>2. PICK k \in DOMAIN form[name] :
          /\ WellFormed(form[name][k])
          /\ x = Source(<<name.target, name.number, form[name][k]>>)
    BY <1>10, <2>1
  <2> DEFINE text == <<name.target, name.number, form[name][k]>>
  <2>3. text \in FormTexts(form)
    BY DEF FormTexts
  <2>4. text[3] = form[name][k] /\ x = Source(text)
    BY <2>2
  <2> HIDE DEF text
  <2> QED
    BY <2>2, <2>3, <2>4
<1>12. ASSUME NEW text \in FormTexts(form), WellFormed(text[3])
       PROVE  Source(text) \in UNION {Of(name) : name \in DOMAIN form}
  <2>1. PICK name \in DOMAIN form : \E k \in DOMAIN form[name] :
          text = <<name.target, name.number, form[name][k]>>
    BY DEF FormTexts
  <2> PICK k \in DOMAIN form[name] : text = <<name.target, name.number, form[name][k]>>
    BY <2>1
  <2>2. text[3] = form[name][k]
    OBVIOUS
  <2>3. Source(text) \in Of(name)
    BY <1>10, <1>12, <2>2
  <2> QED
    BY <2>3
<1> QED
  BY <1>9, <1>11, <1>12

\* A section, whose number after a target is cut off: a data source for each of
\* its texts.
LEMMA SectionElements ==
  ASSUME NEW section \in Seq([name: Names, value: Values])
  PROVE  ToSet(SectionSources(section)) = {Source(text) : text \in SectionTexts(section)}
<1>1. ASSUME NEW k \in DOMAIN section
      PROVE  SectionSources(section)[k] =
               Source(<<section[k].name.target, None, section[k].value>>)
  <2>1. section[k].name \in Names
    <3>1. section[k] \in [name: Names, value: Values]
      <4>1. \A S : section \in Seq(S) => section[k] \in S
        OBVIOUS
      <4> QED
        BY <4>1
    <3> QED
      BY <3>1
  <2>2. [section[k].name EXCEPT !.number = None] =
          [target |-> section[k].name.target, number |-> None]
    BY <2>1 DEF Names
  <2>3. SectionSources(section)[k] =
          DataSource([section[k].name EXCEPT !.number = None], section[k].value)
    BY DEF SectionSources
  <2> QED
    BY <2>2, <2>3 DEF Source
<1>2. DOMAIN SectionSources(section) = DOMAIN section
  BY DEF SectionSources
<1>3. ToSet(SectionSources(section)) = {SectionSources(section)[k] : k \in DOMAIN section}
  BY <1>2 DEF ToSet
<1> QED
  BY <1>1, <1>3 DEF SectionTexts

\* What the modular endpoint has answered with comes of the request's form.
AnswerInv ==
  answer # None /\ answer.path = "solace" /\ answer.form # Broken
    => answer.form \in Forms /\ answer.sources \in FormSources(answer.form)

LEMMA AnswerInitially == Init => AnswerInv
BY DEF Init, AnswerInv

LEMMA AnswerStep == ASSUME StageInv, AnswerInv, [Next]_vars PROVE AnswerInv'
<1>1. CASE answer' = answer
  BY <1>1 DEF AnswerInv
<1>2. ASSUME NEW path \in DOMAIN handlers, NEW form \in Forms, Request(path, form)
      PROVE  AnswerInv'
  <2>1. PICK kind, sources :
          answer' = [path |-> path, form |-> form, kind |-> kind, sources |-> sources]
    BY <1>2 DEF Request, DoHandle, Answered
  <2>2. answer'.path = path /\ answer'.form = form /\ answer'.sources = sources
    BY <2>1
  <2>3. ASSUME path = "solace", form # Broken
        PROVE  answer'.sources \in FormSources(form)
    <3>1. handlers[path].kind = "modular"
      <4>1. handlers["solace"] = Handler("modular", <<>>)
        BY <1>2 DEF Request, StageInv
      <4> QED
        BY <2>3, <4>1 DEF Handler
    <3>2. PICK chosen \in FormSources(form) : DoHandle(path, form, chosen)
      BY <1>2, <2>3, <3>1 DEF Request
    <3>3. answer'.sources = chosen
      BY <3>2 DEF DoHandle, Answered
    <3> QED
      BY <3>2, <3>3
  <2> QED
    BY <2>2, <2>3 DEF AnswerInv
<1> QED
  BY <1>1, <1>2 DEF Next, ParseConfig, ParseConfigFails, ResolveSecrets, Declare, DeclareRest,
                    Listen, Over, Ends, Panics, vars

\* A request with a section's entries as its parameters is answered with the
\* section's data sources, whatever the entries, and whatever order the
\* parameters are walked in (docs/CONFIG.md, "Legacy Equivalent"; parseDataSources
\* and ParseConfig's reading of a section).
THEOREM AliasCorrect == Spec => []AliasIsItsParameters
<1>1. ASSUME EndpointsInv, AnswerInv, settings \in Settings PROVE AliasIsItsParameters
  <2> SUFFICES ASSUME NEW a \in DOMAIN endpoints,
                      answer # None, answer.path = "solace", answer.form # Broken,
                      FormTexts(answer.form) = SectionTexts(settings.sections[a])
               PROVE  ToSet(answer.sources) = ToSet(endpoints[a])
    BY DEF AliasIsItsParameters
  <2>1. answer.form \in Forms \ {Broken} /\ answer.sources \in FormSources(answer.form)
    BY <1>1 DEF AnswerInv
  <2>2. Parsed
    BY <1>1 DEF EndpointsInv
  <2> DEFINE section == settings.sections[a]
  <2>3. a \in DOMAIN settings.sections /\ endpoints[a] = SectionSources(section)
    BY <2>2 DEF Parsed
  <2>4. section \in Seq([name: Names, value: Values])
    BY <1>1, <2>3, SettingsAssumption
  <2>5. \A k \in DOMAIN section : WellFormed(section[k].value)
    BY <2>2, <2>3 DEF Parsed, Accepted
  <2>6. \A text \in SectionTexts(section) : WellFormed(text[3])
    BY <2>5 DEF SectionTexts
  <2>7. ToSet(answer.sources) =
          {Source(text) : text \in {text \in FormTexts(answer.form) : WellFormed(text[3])}}
    BY <2>1, FormElements
  <2>8. ToSet(endpoints[a]) = {Source(text) : text \in SectionTexts(section)}
    BY <2>3, <2>4, SectionElements
  <2>9. {text \in FormTexts(answer.form) : WellFormed(text[3])} = SectionTexts(section)
    BY <2>6
  <2> QED
    BY <2>7, <2>8, <2>9
<1>2. Spec => []AnswerInv
  BY AnswerInitially, AnswerStep, Stages, PTL DEF Spec
<1> QED
  BY <1>1, <1>2, Stages, PTL DEF StageInv

=============================================================================
