CONSTANTS
  q1 = q1
  q2 = q2
  tool = tool
  data = data
  i1 = i1
  i2 = i2
  Words <- MCWords
  QueryLength <- MCQueryLength
  Readmes = {}
  Documentation = {}
  CodeFiles = {}
  NoPath = ""
  Queries = {q1, q2}
  Repositories = {tool, data}
  Ingestions = {i1}
  Profiles <- MCProfiles
  Finds <- RetriedFinds
  MaxRounds = 2
  MaxFailures = 0
SPECIFICATION Spec
CHECK_DEADLOCK FALSE
PROPERTIES AdmittedArePersisted
