----------------------------- MODULE MCRecords ------------------------------
(* Identifiers 0 and 1, so that they run out, and one legacy record.       *)
EXTENDS Records
=============================================================================
