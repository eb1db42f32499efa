--------------------------- MODULE MCD2BPipeline ----------------------------
(***************************************************************************)
(* Small instances of D2BPipeline.  The depths, the burst and the token    *)
(* width are scaled down so that both rings overflow, a callback ends with *)
(* work left, and tokens wrap within a few samples.                        *)
(***************************************************************************)
EXTENDS D2BPipeline
=============================================================================
