CONSTANTS
  q1 = q1
  q2 = q2
  tool = tool
  data = data
  i1 = i1
  i2 = i2
  Words <- MCWords
  QueryLength <- MCQueryLength
  Readmes = {}
  Documentation = {}
  CodeFiles = {}
  NoPath = ""
  Queries = {q1, q2}
  Repositories = {tool, data}
  Ingestions = {i1, i2}
  Profiles <- MCProfiles
  Finds <- MCFinds
  MaxRounds = 3
  MaxFailures = 1
SPECIFICATION Spec
CHECK_DEADLOCK FALSE
INVARIANTS NothingDangles HitsAreOffered AnswersAreReadable NothingNewerIsLost
