----------------------------- MODULE MCSessions -----------------------------
(* Values of the constants of Sessions for TLC: a browser and a phone. *)
EXTENDS Sessions

CONSTANTS tab, phone, none, c1, c2
=============================================================================
