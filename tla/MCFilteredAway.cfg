SPECIFICATION Spec
CONSTANTS
  anna = anna
  bo = bo
  u1 = u1
  u2 = u2
  u3 = u3
  u4 = u4
  n1 = n1
  n2 = n2
  n3 = n3
  n4 = n4
  h1 = h1
  h2 = h2
  i1 = i1
  Persons <- MCOnePerson
  Accounts <- MCAccounts
  Names <- MCNames
  HasCpr <- MCHasCpr
  MayCreate <- MCOnePerson
  LinkSystem = TRUE
  Exclusive = TRUE
  Settings <- MCFilter
  Handlers <- MCHandlers
  Importers <- MCImporters
  None = None
CHECK_DEADLOCK FALSE
INVARIANTS
  NewIfNone
