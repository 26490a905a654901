--------------------------- MODULE MCPmtReceiver ---------------------------
(***************************************************************************)
(* PmtReceiver for TLC.  Endpoint a is triggered and healthy, b is         *)
(* triggered, has a timeout and may fail in any way, c is not triggered    *)
(* and may hang for ever.                                                  *)
(***************************************************************************)
EXTENDS PmtReceiver, TLC

CONSTANTS a, b, c
=============================================================================
