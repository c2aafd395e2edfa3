\* Two admins, saves and loads that fail, restarts.
SPECIFICATION Spec
CONSTANTS
  img1 = img1
  img2 = img2
  builtin = builtin
  custom = custom
  None = None
  Puts = {r1, r2}
  Builtins = {builtin}
  Confs <- SomeConfs
  Lists <- SomeLists
  Seed <- EnvSeed
  LoadFails = TRUE
INVARIANTS
  TypeOK
  SavedInOrder
  SettledInSync
PROPERTY
  OtherHalfKept
