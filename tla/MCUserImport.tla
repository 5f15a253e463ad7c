---------------------------- MODULE MCUserImport ----------------------------
(* A person with two accounts and two handlers of their events. *)
EXTENDS UserImport

CONSTANTS h1, h2, u1, u2, e1, e2, v1, v2

MCHandlers == {h1, h2}
MCAccounts == {u1, u2}
MCUuids == {e1, e2}
MCValues == {v1, v2}
MCRanks == 0 .. 3

Holds(rank, value, ends) == [rank |-> rank, value |-> value, ends |-> ends]
MCEntries ==
  [u \in MCAccounts |->
    {Holds(0, v1, "never"), Holds(2, v2, "later"), Holds(2, v1, "now")}]

\* Both accounts are good, and one is better.
MCDirectories ==
  {[u \in MCAccounts |-> Holds(IF u = u1 THEN 2 ELSE 1, v1, "never")]}
=============================================================================
