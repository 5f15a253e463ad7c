\* Two events each, two changes by others, one failure.
SPECIFICATION FairSpec
CONSTANTS
  p = p
  q = q
  c = c
  d = d
  f = f
  None = None
  Persons = {p, q}
  Cores = {c, d, f}
  Combis <- MCCombis
  Letters <- MCLetters
  Numbered = {c, f}
  Forbidden <- MCForbidden
  Service <- MCService
  LastDigit = 3
  MaxNumber = 6
  Settings <- MCSettings
  MaxEvents = 2
  MaxOutside = 2
  MaxFaults = 1
INVARIANTS
  TypeOK
  NamesApart
  NeverReused
PROPERTIES
  Handled
CHECK_DEADLOCK FALSE
