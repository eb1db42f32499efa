--------------------------- MODULE MCD2BTransport ---------------------------
(***************************************************************************)
(* Small instances of D2BTransport: both counters wrap within two stops.   *)
(***************************************************************************)
EXTENDS D2BTransport
=============================================================================
