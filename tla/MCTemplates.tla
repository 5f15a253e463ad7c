---------------------------- MODULE MCTemplates ----------------------------
(* Two engagements and two addresses of one person, of up to two validities *)
(* each, around one day; three units; three renderings that want a class. *)
EXTENDS Templates, TLC

CONSTANTS e1, e2

MCRank == (e1 :> 2) @@ (e2 :> 1)
=============================================================================
