\* One person with an account; a unit; an engagement and an address.
SPECIFICATION Spec
CONSTANTS
  h1 = h1
  h2 = h2
  p = p
  q = q
  u = u
  a = a
  e = e
  i = i
  x = x
  None = None
  Handlers = {h1, h2}
  Persons = {p}
  Units = {u}
  Addresses = {a}
  Engagements = {e}
  Itusers = {i}
  Accounts = {x}
  OwnerOf <- MCOwnerOf
  Relations <- MCRelations
  RoutingOf <- MCRoutingOf
  Imported = {a}
  Scenes <- MCScenes
INVARIANTS
  NothingLost
PROPERTIES
  QueuesDrain
CHECK_DEADLOCK FALSE
