--------------------------- MODULE MCSecretResolver ---------------------------
(***************************************************************************)
(* TLC instances of SecretResolver.  Three callers are enough for one to   *)
(* store a result late while a second has started a call the third joins.  *)
(***************************************************************************)
EXTENDS SecretResolver
=============================================================================
