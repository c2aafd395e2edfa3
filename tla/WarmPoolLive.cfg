\* What must happen in the end: one user, faults that stop, no evictions.
SPECIFICATION FairSpec
CONSTANTS
  t1 = t1
  Pods = {b1, b2}
  Templates = {t1}
  Scripted = {}
  Labelled = {}
  Owners = {u1}
  None = None
  Requests = {r1}
  Desired <- AlwaysOne
  Evictions = FALSE
  Recovers = TRUE
PROPERTIES
  ClaimedBoxEnds
  PoolSettles
