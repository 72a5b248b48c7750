--------------------------- MODULE MCTraceManager ---------------------------
(***************************************************************************)
(* TraceManager with two applications, for TLC.                            *)
(***************************************************************************)
EXTENDS TraceManager
=============================================================================
