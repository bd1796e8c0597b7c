--------------------------- MODULE MCExporterSystem ---------------------------
(***************************************************************************)
(* TLC instances of ExporterSystem: workers that share one permit (the     *)
(* default) or two, and a synchronous request.                             *)
(***************************************************************************)
EXTENDS ExporterSystem
=============================================================================
