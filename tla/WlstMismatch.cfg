SPECIFICATION Spec
CONSTANTS
  Settings <- MCSettings
  Records <- MCSettings
  Modifiable <- MCModifiable
  Values <- MCValues
  Absent = "absent"
  Expected <- MCExpected
  Default <- MCDefault
  LockoutEnabled = "lockoutEnabled"
  Lockout = {"threshold"}
  Limits = {"minLength"}
  Auditor = {"auditor"}
  Realm = {}
  Mail = {"jndi"}
  Plain = {"jta"}
  Hardcoded <- MCHardcoded
  Playbooks <- StackOrSettings
  Initial <- MCInitial
  Faults = {"failure"}
INVARIANTS
  MismatchIsReported
