CONSTANTS
  p1 = p1
  u2 = u2
  w2 = w2
  r2 = r2
  c1 = c1
  Scanners = {s1}
  Users = {u1, u2}
  Repos = {p1}
  Watches = {w1, w2}
  Releases = {r1, r2}
  Commits = {c1}
  Root = Root
  None = None
  MaxTime = 3
  LeaseTicks = 1
  MaxFaults = 1
SPECIFICATION SpecOfMembers
SYMMETRY Symmetry
INVARIANTS CardsPartitionEvents ReferencesResolve CheckpointsSkipNothing
PROPERTIES PublishedIsFinal
