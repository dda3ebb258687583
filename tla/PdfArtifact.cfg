CONSTANTS
  p1 = p1
  p2 = p2
  none = none
  firstLogo = firstLogo
  noLogo = noLogo
  edit1 = edit1
  edit2 = edit2
  PdfJobs = {p1, p2}
  NoJob = none
  FirstLogo = firstLogo
  NoLogo = noLogo
  Edits = {edit1, edit2}
  MaxTries = 2
SPECIFICATION Spec
CONSTRAINT Explored
SYMMETRY Symmetry
INVARIANTS
  TypeOK
  CurrentWithoutOverlap
  AttachedIsCurrent
  ShowsNoOldLogo
PROPERTIES
  SuccessMeansPublished
CHECK_DEADLOCK FALSE
