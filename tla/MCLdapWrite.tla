---------------------------- MODULE MCLdapWrite ----------------------------
(* Two handlers, two names, two or three values: values for TLC. *)
EXTENDS LdapWrite

CONSTANTS h1, h2, n1, n2, v1, v2, v3, inside, outside

MCHandlers == {h1, h2}
MCNames == {n1, n2}
MCValues == {v1, v2}
MCThreeValues == {v1, v2, v3}
MCPlaces == {inside, outside}
MCOnePlace == {inside}
MCWritable == {inside}

Setting(exclusive, listening) ==
  [exclusive |-> exclusive, listening |-> listening]

\* Handlers of two processes that listen to LDAP; of one that does not; of one
\* that does.
MCSettings == {Setting(FALSE, TRUE), Setting(TRUE, FALSE)}
MCBoth == {Setting(TRUE, TRUE)}
=============================================================================
