\* A config PUT after a failed load overwrites the saved templates.
SPECIFICATION Spec
CONSTANTS
  img1 = img1
  img2 = img2
  builtin = builtin
  custom = custom
  None = None
  Puts = {r1}
  Builtins = {builtin}
  Confs <- SomeConfs
  Lists <- SomeLists
  Seed <- EnvSeed
  LoadFails = TRUE
PROPERTY
  ConfigKeepsTemplates
