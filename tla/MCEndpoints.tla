----------------------------- MODULE MCEndpoints -----------------------------
(* Two keys on two pages with two events outside, one person with up to three *)
(* addresses and two calls at once, and one person with up to two accounts    *)
(* under three DNs. *)
EXTENDS Endpoints, TLC

CONSTANTS k1, k2

MCPage == (k1 :> 1) @@ (k2 :> 2)
=============================================================================
