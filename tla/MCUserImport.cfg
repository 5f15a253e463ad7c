SPECIFICATION FairSpec
CONSTANTS
  h1 = h1
  h2 = h2
  u1 = u1
  u2 = u2
  e1 = e1
  e2 = e2
  v1 = v1
  v2 = v2
  Handlers <- MCHandlers
  Accounts <- MCAccounts
  Uuids <- MCUuids
  Values <- MCValues
  Ranks <- MCRanks
  None = None
  Entries <- MCEntries
  Directories <- MCDirectories
  MaxChanges = 1
  MaxNotes = 1
  MaxFaults = 1
CHECK_DEADLOCK FALSE
INVARIANTS
  TypeOK
  OneEmployee
  CreatedOnce
  UnmappedKept
PROPERTIES
  SyncedInTurn
