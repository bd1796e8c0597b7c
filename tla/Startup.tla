------------------------------- MODULE Startup -------------------------------
(***************************************************************************)
(* From the start of the process to the answers it gives                   *)
(* (cmd/solace-prometheus-exporter/main.go): the configuration is read     *)
(* from the environment and an ini file, secrets are resolved, a handler   *)
(* is registered for every path, some with a prefetch worker, and the      *)
(* server listens.  A request then reaches the handler of its path and is  *)
(* answered with the data sources of a section, or of its own parameters.  *)
(*                                                                         *)
(* An entry of a section, "QueueRates.1 = *|bridge_*", is [name, value]; a *)
(* request's parameters, "m.QueueRates=*|bridge_*", map names to sequences *)
(* of values.  A name is [target, number], a value [parts, filters,        *)
(* metrics]: how many parts it has, the first two, and the third.  An      *)
(* option of the environment and the file is [env, ini].                   *)
(***************************************************************************)
EXTENDS Integers, Sequences, SequencesExt

CONSTANTS
  Settings,   \* what may be configured; see SettingsAssumption
  Values,     \* the values of entries and parameters
  Forms,      \* parameters of a request: [names -> Seq(values)], or Broken
  None,       \* not set, no number, not there yet
  Bad,        \* the text of an option that is no number, no duration
  Broken      \* parameters that cannot be decoded

Names == [target: STRING, number: Nat \cup {None}]

ASSUME SettingsAssumption ==
  \A s \in Settings :
    /\ s.prefetchInterval.env \in Int \cup {None, Bad}
    /\ s.prefetchInterval.ini \in Int \cup {None, Bad}
    /\ s.parallelSempConnections.env \in Int \cup {None, Bad}
    /\ s.parallelSempConnections.ini \in Int \cup {None, Bad}
    /\ s.complete \in BOOLEAN    \* scrapeUri and the credentials are there
    /\ s.secrets \in BOOLEAN     \* some credentials are kept in a backend
    /\ s.enableTLS \in BOOLEAN
    /\ s.certType \in {None, "PEM", "PKCS12", "other"}
    /\ s.certificate \in BOOLEAN \* certificate and privateKey are there
    /\ s.keystore \in BOOLEAN    \* pkcs12File and pkcs12Pass are there
    /\ \A a \in DOMAIN s.sections : s.sections[a] \in Seq([name: Names, value: Values])

\* A request has finitely many parameters.
ASSUME FormsAssumption ==
  \A form \in Forms \ {Broken} :
    /\ IsFiniteSet(DOMAIN form)
    /\ \A name \in DOMAIN form : name \in Names /\ form[name] \in Seq(Values)

VARIABLES
  settings,
  phase,     \* how far main has come
  status,    \* the exit status; 2 for the runtime, too, after a panic
  conf,      \* [prefetchInterval, parallelSempConnections] as parsed
  endpoints, \* alias -> data sources
  declared,  \* the aliases declareHandlerFromConfig has been called for
  handlers,  \* the paths of http.DefaultServeMux -> [kind, sources]
  answer     \* the latest answer

vars == <<settings, phase, status, conf, endpoints, declared, handlers, answer>>

-----------------------------------------------------------------------------
\* The environment goes before the file, the file before the default.
Setting(option, default) ==
  CASE option.env # None -> option.env
    [] option.env = None /\ option.ini # None -> option.ini
    [] OTHER -> default

\* A value has a VPN filter and an item filter at least.
WellFormed(value) == value.parts >= 2

\* The third part is a metric filter, unless a fourth follows.
DataSource(name, value) ==
  [name |-> name, filters |-> value.filters,
   metrics |-> IF value.parts = 3 THEN value.metrics ELSE {}]

\* The data sources of a request, in the order the map of its parameters is
\* walked: values that are not well-formed are left out, names are kept.
ParameterSources(name, values) ==
  FlattenSeq([k \in DOMAIN values |->
                IF WellFormed(values[k]) THEN <<DataSource(name, values[k])>> ELSE <<>>])
FormSources(form) ==
  {FlattenSeq([k \in DOMAIN order |-> ParameterSources(order[k], form[order[k]])]) :
     order \in SetToSeqs(DOMAIN form)}

\* The certificate is read from a key store, or else from two files.
CertType(s) == IF s.certType = None THEN "PEM" ELSE s.certType
CertificateGiven(s) == IF CertType(s) = "PKCS12" THEN s.keystore ELSE s.certificate

Handler(kind, sources) == [kind |-> kind, sources |-> sources]

\* The process ends, with this exit status.
Ends(s) == /\ phase' = "ended" /\ status' = s
           /\ UNCHANGED <<settings, conf, endpoints, declared, handlers, answer>>
Panics == /\ phase' = "panicked" /\ status' = 2
          /\ UNCHANGED <<settings, conf, endpoints, declared, handlers, answer>>

\* handlers after paths that have none have been given theirs.
Register(new) ==
  handlers' = [path \in DOMAIN new \cup DOMAIN handlers |->
                 IF path \in DOMAIN new THEN new[path] ELSE handlers[path]]

-----------------------------------------------------------------------------
(***************************************************************************)
(* Faulty variants of the definitions, one per property.                   *)
(***************************************************************************)
\* SectionsServed: the prefetch interval is not looked at.
Declare_Synchronously(a) ==
  /\ phase = "register"
  /\ a \in DOMAIN endpoints \ declared
  /\ \/ /\ a \in DOMAIN handlers
        /\ Panics
     \/ /\ a \notin DOMAIN handlers
        /\ Register([path \in {a} |-> Handler("scrape", endpoints[a])])
        /\ declared' = declared \cup {a}
        /\ UNCHANGED <<settings, phase, status, conf, endpoints, answer>>

\* AliasIsItsParameters: in a section the third part counts if a fourth follows.
SectionSources_AnyThird(section) ==
  [k \in DOMAIN section |->
     [name |-> [section[k].name EXCEPT !.number = None],
      filters |-> section[k].value.filters, metrics |-> section[k].value.metrics]]

-----------------------------------------------------------------------------
\* The data sources of a section: the number after a target is cut off.
SectionSources(section) ==
  [k \in DOMAIN section |->
     DataSource([section[k].name EXCEPT !.number = None], section[k].value)]

\* The configuration that ParseConfig does not refuse; of an unknown type of
\* certificate nothing is required.
Accepted(s) ==
  /\ s.complete
  /\ s.enableTLS => CertType(s) = "other" \/ CertificateGiven(s)
  /\ Setting(s.prefetchInterval, 0) # Bad
  /\ Setting(s.parallelSempConnections, 1) # Bad
  /\ \A a \in DOMAIN s.sections :
       \A k \in DOMAIN s.sections[a] : WellFormed(s.sections[a][k].value)

\* A semaphore of less than one permit would let no prefetch worker run.
Limit(n) == IF n < 1 THEN 2 ELSE n

Init == /\ settings \in Settings
        /\ phase = "parse"
        /\ status = None
        /\ conf = None
        /\ endpoints = <<>>
        /\ declared = {}
        /\ handlers = <<>>
        /\ answer = None

ParseConfig ==
  /\ phase = "parse"
  /\ Accepted(settings)
  /\ phase' = "secrets"
  /\ conf' = [prefetchInterval |-> Setting(settings.prefetchInterval, 0),
              parallelSempConnections |-> Limit(Setting(settings.parallelSempConnections, 1))]
  /\ endpoints' = [a \in DOMAIN settings.sections |-> SectionSources(settings.sections[a])]
  /\ UNCHANGED <<settings, status, declared, handlers, answer>>

ParseConfigFails ==
  /\ phase = "parse"
  /\ ~Accepted(settings)
  /\ Ends(1)

\* The backend is set up and the configured references are resolved, or one of
\* them cannot be; then the first path is registered.
ResolveSecrets ==
  /\ phase = "secrets"
  /\ \/ settings.secrets /\ Ends(1)
     \/ /\ phase' = "register"
        /\ Register([path \in {"metrics"} |-> Handler("own", <<>>)])
        /\ UNCHANGED <<settings, status, conf, endpoints, declared, answer>>

\* declareHandlerFromConfig, in the order the map of the endpoints is walked.
\* A handler of kind "prefetch" comes with a worker, which starts at once.
\* The second registration of a path panics.
Declare(a) ==
  /\ phase = "register"
  /\ a \in DOMAIN endpoints \ declared
  /\ \/ /\ a \in DOMAIN handlers
        /\ Panics
     \/ /\ a \notin DOMAIN handlers
        /\ Register([path \in {a} |->
                        Handler(IF conf.prefetchInterval > 0 THEN "prefetch" ELSE "scrape",
                                endpoints[a])])
        /\ declared' = declared \cup {a}
        /\ UNCHANGED <<settings, phase, status, conf, endpoints, answer>>

\* The modular endpoint and the start page follow, whose path is the empty one.
DeclareRest ==
  /\ phase = "register"
  /\ declared = DOMAIN endpoints
  /\ \/ /\ {"solace", ""} \cap DOMAIN handlers # {}
        /\ Panics
     \/ /\ {"solace", ""} \cap DOMAIN handlers = {}
        /\ Register([path \in {"solace", ""} |->
                        Handler(IF path = "" THEN "page" ELSE "modular", <<>>)])
        /\ phase' = "listen"
        /\ UNCHANGED <<settings, status, conf, endpoints, declared, answer>>

\* The server listens; its address may be taken.  When the certificate cannot
\* be read, ListenAndServeTLS returns, and main ends as if all were well.
Listen ==
  /\ phase = "listen"
  /\ \/ settings.enableTLS /\ Ends(0)
     \/ /\ settings.enableTLS => CertificateGiven(settings)
        /\ \/ Ends(2)
           \/ /\ phase' = "serving"
              /\ UNCHANGED <<settings, status, conf, endpoints, declared, handlers, answer>>

Answered(path, form, kind, sources) ==
  /\ answer' = [path |-> path, form |-> form, kind |-> kind, sources |-> sources]
  /\ UNCHANGED <<settings, phase, status, conf, endpoints, declared, handlers>>

\* doHandle: data sources are asked for by the request's exporter; without any,
\* the process reports on itself.
DoHandle(path, form, sources) ==
  Answered(path, form, IF sources = <<>> THEN "own" ELSE "scrape", sources)

\* A request to a path with a handler.
Request(path, form) ==
  /\ phase = "serving"
  /\ path \in DOMAIN handlers
  /\ \/ /\ handlers[path].kind = "prefetch"
        /\ Answered(path, form, "prefetched", handlers[path].sources)
     \/ /\ handlers[path].kind = "modular"
        /\ form = Broken
        /\ Answered(path, form, "nothing", <<>>)
     \/ /\ handlers[path].kind = "modular"
        /\ form # Broken
        /\ \E sources \in FormSources(form) : DoHandle(path, form, sources)
     \/ /\ handlers[path].kind \in {"own", "scrape"}
        /\ DoHandle(path, form, handlers[path].sources)
     \/ /\ handlers[path].kind = "page"
        /\ Answered(path, form, "page", <<>>)

\* The process has ended.
Over == phase \in {"ended", "panicked"} /\ UNCHANGED vars

Next == \/ ParseConfig \/ ParseConfigFails \/ ResolveSecrets
        \/ \E a \in DOMAIN endpoints : Declare(a)
        \/ DeclareRest \/ Listen
        \/ \E path \in DOMAIN handlers, form \in Forms : Request(path, form)
        \/ Over

Spec == Init /\ [][Next]_vars

-----------------------------------------------------------------------------
(***************************************************************************)
(* Properties.                                                             *)
(***************************************************************************)
\* A configuration is served as a whole or not at all: every section, with all
\* of its entries, by prefetching if an interval is configured anywhere (with a
\* worker that can get a permit, whatever is configured), and beside the
\* exporter's own paths.
SectionsServed ==
  phase = "serving" =>
    /\ DOMAIN handlers = DOMAIN settings.sections \cup {"metrics", "solace", ""}
    /\ \A a \in DOMAIN settings.sections :
         /\ Len(handlers[a].sources) = Len(settings.sections[a])
         /\ handlers[a].kind = "prefetch" <=> Setting(settings.prefetchInterval, 0) > 0
         /\ handlers[a].kind = "prefetch" => conf.parallelSempConnections >= 1
    /\ handlers["metrics"].kind = "own" /\ handlers["solace"].kind = "modular"

\* What the entries of a section ask for, and what the parameters of a request
\* ask for, by their texts.
SectionTexts(section) ==
  {<<section[k].name.target, None, section[k].value>> : k \in DOMAIN section}
FormTexts(form) ==
  UNION {{<<name.target, name.number, form[name][k]>> : k \in DOMAIN form[name]} :
           name \in DOMAIN form}

\* docs/CONFIG.md, "Legacy Equivalent": the same entries written as parameters
\* of /solace scrape what the section scrapes, in whatever order, though they
\* are read by other code.
AliasIsItsParameters ==
  \A a \in DOMAIN endpoints :
    /\ answer # None
    /\ answer.path = "solace" /\ answer.form # Broken
    /\ FormTexts(answer.form) = SectionTexts(settings.sections[a])
    => ToSet(answer.sources) = ToSet(endpoints[a])

\* README.md: "One handler per [endpoint.<alias>] section defined in the config
\* file": no section keeps the exporter from starting.
EverySectionHasItsHandler == phase # "panicked"

\* README.md: "every scrape emits a solace_up{error, endpoint} gauge": a request
\* that names scrape targets is answered by a scrape of the broker.
ScrapesAskTheBroker ==
  answer # None /\ answer.path = "solace" /\ answer.form \notin {Broken, <<>>}
    => answer.kind = "scrape"

=============================================================================
