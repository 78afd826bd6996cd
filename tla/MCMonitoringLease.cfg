CONSTANTS
  Scanners = {s1, s2}
  Users = {u1}
  Repos = {p1}
  Watches = {w1}
  Releases = {r1, r2}
  Commits = {}
  Root = Root
  None = None
  MaxTime = 3
  LeaseTicks = 2
  MaxFaults = 1
SPECIFICATION Spec
SYMMETRY Symmetry
INVARIANTS TypeOK SucceededRunsCaughtUp
PROPERTIES CheckpointsOnlyAdvance
