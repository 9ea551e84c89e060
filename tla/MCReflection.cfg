SPECIFICATION Spec
CONSTANTS
  None = None
  i1 = i1
  i2 = i2
  w1 = w1
  w2 = w2
  p1 = p1
  p2 = p2
  Incidents = {i1, i2}
  airquality = airquality
  thermal = thermal
  Types = {airquality, thermal}
  TypeOf <- MCTypeOf
  Weeks = {w1, w2}
  YearOf <- MCYearOf
  Processes = {p1, p2}
  Reviewers = {"r1"}
  MaxDrafts = 1
  MaxPasses = 2
INVARIANTS
  TypeOK
  IdsAreContiguous
  DraftsKeptUntilPassEnds
PROPERTIES
  OnlyRacesReplaceFacts
  ApprovedAsSeen
CHECK_DEADLOCK FALSE
SYMMETRY Symmetry
