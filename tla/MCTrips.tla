------------------------------ MODULE MCTrips ------------------------------
(* An instance of Trips for TLC.                                           *)
EXTENDS Trips

CONSTANTS t1, t2, s1, k1

EndSale == {"CONFIRMED", "CANCELLED"}
=============================================================================
