SPECIFICATION Spec
CONSTANTS
  Controllers = {c1}
  Keys = {k1, k2, k3}
  Otps = {o1, o2}
  None = None
  Garbled = Garbled
  Options <- MostOptions
  Faults = {"fail", "crash", "kdc", "drift", "reimage", "admin"}
INVARIANTS
  TypeOK
  WorkingKeyIsKept
  OtpUsedAsOtp
  GeneratedOtpRestored
  OneOtpAccepted
  OneConfiguredIsHealthy
  OneTicketAvailable
PROPERTIES
  KeytabCopyRemoved
  IdentityPromised
SYMMETRY Symmetry
