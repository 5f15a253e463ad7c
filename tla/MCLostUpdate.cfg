SPECIFICATION Spec
CONSTANTS
  h1 = h1
  h2 = h2
  n1 = n1
  n2 = n2
  v1 = v1
  v2 = v2
  v3 = v3
  inside = inside
  outside = outside
  Handlers <- MCHandlers
  Names <- MCNames
  Values <- MCThreeValues
  Places <- MCOnePlace
  Writable <- MCWritable
  Settings <- MCBoth
  NoState = NoState
  MaxMoWrites = 1
  MaxLdapWrites = 1
  MaxFaults = 0
CHECK_DEADLOCK FALSE
PROPERTIES
  ConditionalWrites
