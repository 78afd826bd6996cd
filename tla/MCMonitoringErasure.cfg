CONSTANTS
  Scanners = {s1}
  Users = {u1}
  Repos = {p1}
  Watches = {w1}
  Releases = {r1}
  Commits = {}
  Root = Root
  None = None
  MaxTime = 2
  LeaseTicks = 1
  MaxFaults = 0
SPECIFICATION Spec
SYMMETRY Symmetry
INVARIANTS DeletedAccountsAreEmpty
