SPECIFICATION FairSpec
CONSTANTS
  Pids = {p1, p2}
  None = None
  RetryLimit = 2
  Faults = {"deaf"}
PROPERTIES
  EveryCallEnds
