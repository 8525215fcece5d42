SPECIFICATION FairSpec
CONSTANTS
  Settings <- SmallSettings
  Records <- SmallSettings
  Modifiable <- SmallModifiable
  Values <- MCValues
  Absent = "absent"
  Expected <- SmallExpected
  Default <- SmallDefault
  LockoutEnabled = "lockoutEnabled"
  Lockout = {}
  Limits = {"minLength"}
  Auditor = {"auditor"}
  Realm = {}
  Mail = {}
  Plain = {}
  Hardcoded <- SmallDefault
  Playbooks <- AllPlays
  Initial <- SmallInitial
  Faults = {"failure", "console"}
INVARIANTS
  TypeOK
  PendingIsLocked
  ReportHolds
PROPERTIES
  ConsoleSessionKept
  EveryScriptEnds
