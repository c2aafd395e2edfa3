\* Two racing requests of two users, two boxes, no setup script.
SPECIFICATION Spec
CONSTANTS
  t1 = t1
  Pods = {b1, b2}
  Templates = {t1}
  Scripted = {}
  Labelled = {}
  Owners = {u1, u2}
  None = None
  Requests = {r1, r2}
  Desired <- AlwaysOne
  Evictions = FALSE
  Recovers = FALSE
SYMMETRY Symmetry
INVARIANTS
  OneTaker
  TakenByOwner
PROPERTIES
  ClaimIsFinal
  BoxesAreLeased
