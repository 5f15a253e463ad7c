---------------------------- MODULE MCPersonSync ----------------------------
(* One person with a CPR number and one without, who compete for names: with *)
(* neither imports nor a discriminator, and with both and an account that is *)
(* filtered or not. *)
EXTENDS PersonSync

CONSTANTS anna, bo, u1, u2, u3, u4, n1, n2, n3, n4, h1, h2, i1

MCPersons == {anna, bo}
MCAccounts == {u1, u2, u3, u4}
MCNames == {n1, n2, n3, n4}
MCHasCpr == {anna}
MCHandlers == {h1, h2}
MCImporters == {i1}
MCSettings ==
  {[imports |-> FALSE, discriminates |-> FALSE, filtered |-> {}, maxOutside |-> 1, maxFaults |-> 1],
   [imports |-> TRUE, discriminates |-> TRUE, filtered |-> {}, maxOutside |-> 0, maxFaults |-> 1],
   [imports |-> TRUE, discriminates |-> TRUE, filtered |-> {u1}, maxOutside |-> 0, maxFaults |-> 0]}
MCOnePerson == {anna}
MCFilter ==
  {[imports |-> FALSE, discriminates |-> TRUE, filtered |-> MCAccounts, maxOutside |-> 1, maxFaults |-> 0]}
=============================================================================
