SPECIFICATION Spec
CONSTANTS
  Controllers = {c1}
  Keys = {k1, k2, k3}
  Otps = {o1, o2}
  None = None
  Garbled = Garbled
  Options <- PlainOptions
  Faults = {"fail", "crash"}
INVARIANTS
  SuccessMeansJoined
