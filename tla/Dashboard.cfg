SPECIFICATION FairSpec
CONSTANTS
  MaxBoxes = 2
  TemplateCounts = {0, 2}
  Slots = {0, 1}
CHECK_DEADLOCK FALSE
INVARIANTS
  TypeOK
  SelectionInRange
  BuildHasCreate
PROPERTIES
  DashboardSettles
  BuildEnds
  CreatedBoxOpens
