\* A delete that ends halfway leaves the volume behind for good.
SPECIFICATION Spec
CONSTANTS
  Boxes = {b1, b2}
  Owners = {u1, u2}
  None = None
  Requests = {r1, r2}
INVARIANT
  DeleteTakesVolume
