----------------------------- MODULE MCBookings -----------------------------
(* Values of the constants of Bookings for TLC. *)
EXTENDS Bookings

CONSTANTS b1, b2, s1, p1, p2
=============================================================================
