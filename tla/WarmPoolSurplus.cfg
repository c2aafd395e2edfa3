\* The reconciler deletes a box that was claimed after its listing.
SPECIFICATION Spec
CONSTANTS
  t1 = t1
  Pods = {b1, b2}
  Templates = {t1}
  Scripted = {t1}
  Labelled = {}
  Owners = {u1}
  None = None
  Requests = {r1}
  Desired <- UpToOne
  Evictions = FALSE
  Recovers = FALSE
PROPERTY
  SurplusIsWarm
