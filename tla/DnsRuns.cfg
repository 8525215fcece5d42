SPECIFICATION Spec
CONSTANTS
  Servers = {s1, s2, s3}
  Original = Original
  Empty = Empty
  None = None
INVARIANTS
  TypeOK
  BackupIsOriginal
  FirstRunTakesEffect
  CleanupRestores
SYMMETRY Symmetry
