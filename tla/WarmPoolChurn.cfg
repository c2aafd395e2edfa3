\* Two users, one at a time, against a reconciler whose target moves, with
\* evictions and a setup script.
SPECIFICATION Spec
CONSTANTS
  t1 = t1
  Pods = {b1, b2}
  Templates = {t1}
  Scripted = {t1}
  Labelled = {}
  Owners = {u1, u2}
  None = None
  Requests = {r1}
  Desired <- UpToOne
  Evictions = TRUE
  Recovers = FALSE
SYMMETRY Symmetry
INVARIANTS
  IInv
  TakenIsClaimed
  ReadyMeansPrepared
  WarmWithinTarget
PROPERTY
  DeletedForCause
