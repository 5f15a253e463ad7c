SPECIFICATION FairSpec
CONSTANTS
  h1 = h1
  h2 = h2
  n1 = n1
  n2 = n2
  v1 = v1
  v2 = v2
  v3 = v3
  inside = inside
  outside = outside
  Handlers <- MCHandlers
  Names <- MCNames
  Values <- MCValues
  Places <- MCPlaces
  Writable <- MCWritable
  Settings <- MCSettings
  NoState = NoState
  MaxMoWrites = 1
  MaxLdapWrites = 1
  MaxFaults = 1
CHECK_DEADLOCK FALSE
INVARIANTS
  TypeOK
  AcknowledgedIsWritten
PROPERTIES
  NoStaleWrite
  Converges
  EchoEnds
