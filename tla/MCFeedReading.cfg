CONSTANTS
  b1 = b1
  b2 = b2
  s1 = s1
  e1 = e1
  Browsers = {b1, b2}
  Subjects = {s1}
  Emails = {e1, e2}
  MaxFlows = 2
  MaxUsers = 2
  MaxTime = 1
  MaxFailures = 1
  FlowTicks = 1
  SessionTicks = 1
  Facts = {1, 2, 3}
  Cards = {1, 2}
  Released = {1}
  Members <- MCMembers
  Referenced <- MCReferenced
  Scans <- MCScans
  Dates = {0, 1}
  FirstDate <- MCFirstDate
  Listings <- MCListings
  Limit = 1
  Readers = {b1}
  MaxWatches = 1
  MaxEdits = 1
SPECIFICATION PastsSpec
CHECK_DEADLOCK FALSE
INVARIANTS TypeOK PagesCoverOnce ErasureIsWhole
PROPERTIES SignInIsOwn FailuresAreExplained ReadIsForever
