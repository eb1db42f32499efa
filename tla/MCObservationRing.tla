------------------------- MODULE MCObservationRing -------------------------
(* A ring of two slots whose indexes wrap after two rounds, a drop counter *)
(* that saturates and numbers that run out.                                *)
EXTENDS ObservationRing
=============================================================================
