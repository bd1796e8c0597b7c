----------------------------- MODULE MCVaultToken -----------------------------
(***************************************************************************)
(* A TLC instance of VaultToken.                                           *)
(***************************************************************************)
EXTENDS VaultToken
=============================================================================
