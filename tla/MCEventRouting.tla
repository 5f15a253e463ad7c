--------------------------- MODULE MCEventRouting ---------------------------
(* A person with an account, an address and an ituser; a unit with an        *)
(* engagement and perhaps the address.                                        *)
EXTENDS EventRouting

CONSTANTS h1, h2, p, q, u, a, e, i, x

MCOwnerOf == [y \in {x} |-> p]
MCRelations == [o \in {a, e, i} |->
  CASE o = a -> {{p}, {u}}
    [] o = e -> {{p, u}}
    [] o = i -> {{p}}]
MCRoutingOf == [engagement_mapping |-> "engagement"]

\* One handler with a fault, and with a closed morning; two handlers; two changes;
\* uuids that are ignored; a program that listens on one side only.
MCScene(sides, ignored, n, c, f, m) ==
  [listening |-> sides, ignored |-> ignored, parallelism |-> n, changes |-> c,
   faults |-> f, closings |-> m]
MCScenes ==
  {MCScene({"mo", "ldap"}, {}, 1, 1, 1, 0), MCScene({"mo", "ldap"}, {p}, 1, 1, 1, 1),
   MCScene({"mo", "ldap"}, {x}, 2, 1, 0, 0),
   MCScene({"mo"}, {}, 2, 1, 1, 0), MCScene({"mo"}, {}, 1, 2, 0, 0),
   MCScene({"ldap"}, {}, 2, 2, 1, 1)}

=============================================================================
