CONSTANTS
  Scanners = {s1}
  Users = {u1}
  Repos = {p1}
  Watches = {w1}
  Releases = {r1, r2}
  Commits = {}
  Root = Root
  None = None
  MaxTime = 3
  LeaseTicks = 1
  MaxFaults = 2
SPECIFICATION FairSpec
PROPERTIES EveryReleaseArrives
