---------------------------- MODULE MCSystemLive ----------------------------
(***************************************************************************)
(* SystemLive with a generation counter that wraps after GenMax servers.   *)
(***************************************************************************)
EXTENDS SystemLive
=============================================================================
