------------------------------- MODULE MCPages -------------------------------
(* A list of up to four rows. *)
EXTENDS Pages

Ids == 1..4
Sizes == {1, 2}
Beginnings == {-1, 1, 2}
=============================================================================
