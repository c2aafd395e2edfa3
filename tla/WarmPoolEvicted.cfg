\* An evicted warm box keeps its place in the pool for ever.
SPECIFICATION FairSpec
CONSTANTS
  t1 = t1
  Pods = {b1, b2}
  Templates = {t1}
  Scripted = {t1}
  Labelled = {}
  Owners = {u1}
  None = None
  Requests = {r1}
  Desired <- AlwaysOne
  Evictions = TRUE
  Recovers = TRUE
PROPERTY
  PoolRecovers
