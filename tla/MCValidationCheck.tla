------------------------- MODULE MCValidationCheck -------------------------
(* Numbers on both sides of every threshold of the four checks, and a state  *)
(* of each class; "missing" stands for no string, or any other one.          *)
EXTENDS ValidationCheck
=============================================================================
