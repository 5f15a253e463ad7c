SPECIFICATION FairSpec
CONSTANTS
  o1 = o1
  o2 = o2
  o3 = o3
  b1 = b1
  p1 = p1
  p2 = p2
  q1 = q1
  q2 = q2
  Objects <- MCObjects
  Bases <- MCBases
  Processes <- MCOneProcess
  Pollers <- MCOnePoller
  BaseOf <- MCBaseOf
  ProcessOf <- MCProcessOf
  PageSize = 3
  Epoch = 0
  NoStamp = NoStamp
  Nobody = Nobody
  MaxTime = 2
  MaxWrites = 2
  MaxFaults = 0
PROPERTIES
  NoChangeMissed
