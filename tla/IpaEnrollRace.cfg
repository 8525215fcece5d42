SPECIFICATION Spec
CONSTANTS
  Controllers = {c1, c2}
  Keys = {k1, k2, k3, k4}
  Otps = {o1, o2, o3}
  None = None
  Garbled = Garbled
  Options <- RaceOptions
  Faults = {}
INVARIANTS
  RaceIsReported
PROPERTIES
  IdentityPromised
SYMMETRY RaceSymmetry
