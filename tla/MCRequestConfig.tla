---------------------------- MODULE MCRequestConfig ----------------------------
(***************************************************************************)
(* TLC instances of RequestConfig.                                         *)
(***************************************************************************)
EXTENDS RequestConfig

Nothing == [f \in Fields |-> IF f \in {"scrapeURI", "timeout", "isHWBroker"}
                             THEN Configured ELSE Empty]

Basic == [Nothing EXCEPT !.username = Configured, !.password = Configured]

\* Nothing at all, incomplete OAuth, OAuth with a reference to a secret that is
\* empty, OAuth and an exporter that asks for credentials, and references for both
\* credentials.
MCConfigurations ==
  {Nothing,
   [Basic EXCEPT !.oAuthClientSecret = Configured],
   [Nothing EXCEPT !.oAuth = Configured, !.oAuthClientSecret = Ref],
   [Nothing EXCEPT !.oAuth = Configured, !.oAuthClientSecret = Configured,
                   !.exporterAuthUsername = Configured, !.exporterAuthPassword = Configured],
   [Basic EXCEPT !.username = Ref, !.password = Ref]}

\* The path has "" for one field, and values for the others.
MCBlank == {"oAuthClientSecret"}
MCFilled == SecretFields \ MCBlank

JustRefs == {[Basic EXCEPT !.username = Ref, !.password = Ref]}
JustBasic == {Basic}

Bare == [username |-> None, password |-> None, timeout |-> None, isHWBroker |-> None,
          scrapeURI |-> None, plain |-> FALSE, authorized |-> TRUE]
BothRefs == [Bare EXCEPT !.username = Ref, !.password = Ref]

\* Two references, from a client that an exporter with credentials refuses; and
\* values of the request, a literal that looks like a reference, a bad setting.
MCOverrides ==
  {[BothRefs EXCEPT !.authorized = FALSE],
   [Bare EXCEPT !.username = "own", !.password = Ref, !.plain = TRUE, !.timeout = "own",
                !.isHWBroker = "bad", !.scrapeURI = "own"]}

NoOverrides == {Bare}
OnlyRefs == {BothRefs}
=============================================================================
