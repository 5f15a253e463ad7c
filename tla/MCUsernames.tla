---------------------------- MODULE MCUsernames ----------------------------
(* Two persons, who share a core; p has a name that is too short for the first *)
(* combination and a core that is forbidden without its number.                *)
EXTENDS Usernames

CONSTANTS p, q, c, d, f

MCCombis == [x \in {p, q} |-> IF x = p THEN <<None, f, c, d>> ELSE <<c, d>>]
MCLetters == [x \in {p, q} |-> c]
MCForbidden == {<<f, 0>>, <<c, 1>>}
MCService == {<<c, 2>>}
MCSetting(permutation, disallow, reuse, remembers) ==
  [permutation |-> permutation, disallow |-> disallow, reuse |-> reuse,
   remembers |-> remembers]
MCSettings ==
  {MCSetting(FALSE, TRUE, FALSE, TRUE), MCSetting(FALSE, TRUE, TRUE, FALSE),
   MCSetting(TRUE, TRUE, TRUE, FALSE), MCSetting(FALSE, FALSE, FALSE, TRUE)}

=============================================================================
