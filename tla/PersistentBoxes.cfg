\* Three racing requests of two users, two boxes.
SPECIFICATION FairSpec
CONSTANTS
  Boxes = {b1, b2}
  Owners = {u1, u2}
  None = None
  Requests = {r1, r2, r3}
INVARIANTS
  BInv
  DeploymentHasVolume
  OrphansAreAbandoned
  OneDeleteAcked
PROPERTIES
  DeletedByOwner
  KeepsRunning
  AckedDeleteEnds
