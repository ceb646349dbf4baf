---------------------------- MODULE MCOverviews ----------------------------
(* One deployment with two resources and one with one, whose service is    *)
(* the silent one.                                                         *)
EXTENDS Overviews, TLC

CONSTANTS d1, d2, r1, r2, r3

Places == r1 :> d1 @@ r2 :> d1 @@ r3 :> d2
=============================================================================
