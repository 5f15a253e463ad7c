SPECIFICATION FairSpec
CONSTANTS
  anna = anna
  bo = bo
  u1 = u1
  u2 = u2
  u3 = u3
  u4 = u4
  n1 = n1
  n2 = n2
  n3 = n3
  n4 = n4
  h1 = h1
  h2 = h2
  i1 = i1
  Persons <- MCPersons
  Accounts <- MCAccounts
  Names <- MCNames
  HasCpr <- MCHasCpr
  MayCreate <- MCPersons
  LinkSystem = TRUE
  Exclusive = TRUE
  Settings <- MCSettings
  Handlers <- MCHandlers
  Importers <- MCImporters
  None = None
CHECK_DEADLOCK FALSE
INVARIANTS
  TypeOK
  LinkedOnce
  LinkedToOwn
  OneAccount
PROPERTIES
  Served
