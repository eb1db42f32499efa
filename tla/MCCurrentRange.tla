--------------------------- MODULE MCCurrentRange ---------------------------
(* Loads on both sides of every limit of the switching and between the two *)
(* limits of the alerts and of the reverse direction.  The high range sees *)
(* a load of -4 on either side of the limit that ends the reverse          *)
(* direction, while the low range has it above the one that starts it.     *)
EXTENDS CurrentRange

MCLoads == {-6, -4, 0, 40, 100}
MCHigh  == [current \in MCLoads |-> IF current = -4 THEN {-4, -2} ELSE {current}]
=============================================================================
