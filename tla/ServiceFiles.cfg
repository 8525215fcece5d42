SPECIFICATION FairRoleSpec
CONSTANTS
  Pids = {p1, p2, p3}
  None = None
  RetryLimit = 2
  Faults = {"die", "reuse", "deaf"}
INVARIANTS
  TypeOK
  RunningIsRecorded
  OneService
  StoppedMeansGone
  SuccessBringsUp
  RestartRenews
PROPERTIES
  
  EndsUnlessHung
