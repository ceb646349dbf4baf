--------------------------- MODULE MCOneTimeCodes ---------------------------
(* A few codes and requests for TLC. *)
EXTENDS OneTimeCodes, TLC

CONSTANTS c1, c2, q1, q2, q3, q4
=============================================================================
