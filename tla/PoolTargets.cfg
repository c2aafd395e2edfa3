\* Two templates, one of them in demand.
SPECIFICATION FairSpec
CONSTANTS
  base = base
  lab = lab
  Templates = {base, lab}
  Default = base
  Wanted = {lab}
  Confs <- OneConf
  Env <- Unbounded
  Registries <- TwoRegistries
  Unit = 40
  MaxRequests = 2
INVARIANTS
  TypeOK
  CeilingKept
  PoolWithinDemand
PROPERTIES
  DisabledNotWarmed
  IdlePoolDrains
  SteadyDemandWarms
