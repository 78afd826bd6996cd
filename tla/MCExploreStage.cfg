CONSTANTS
  q1 = q1
  q2 = q2
  tool = tool
  data = data
  Words <- MCWords
  QueryLength <- MCQueryLength
  Readmes = {}
  Documentation = {"docs/use.md"}
  CodeFiles = {"mesh.py"}
  NoPath = ""
  RejectedNames = {}
  SoftwareTerms = {"solver"}
  DataLikeTerms = {"dataset"}
  PaperLikeTerms = {}
  CollectionTerms = {}
  EducationTerms = {}
  StrongPaths = {}
  DescriptivePaths = {}
  WeakPaths = {"docs/use.md"}
  AdmissionMode = "enforced"
  RelevanceCutoff = 5000
  Queries = {q1, q2}
  Repositories = {tool, data}
  Lanes <- MCLanes
  SourceFailures = {"timed_out"}
  Listings <- MCListings
  Items <- MCItems
  SoftTimeout = 1
  HardTimeout = 1
  Plans <- MCPlans
  MaxAttempts = 2
  CatalogPools <- MCCatalogPools
SPECIFICATION FairSpec
INVARIANTS AnswersAreOwn AttemptsAreExplained ExecutionReadsBack UnavailableIsTrue ArrivalOrderIsIrrelevant
PROPERTIES ExpansionOnlyAdds SearchEnds
