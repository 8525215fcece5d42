SPECIFICATION FairSpec
CONSTANTS
  Controllers = {c1}
  Keys = {k1, k2, k3}
  Otps = {o1, o2}
  None = None
  Garbled = Garbled
  Options <- RecoveryOptions
  Faults = {"fail", "crash", "reimage", "admin"}
PROPERTIES
  
  OneForceRecovers
