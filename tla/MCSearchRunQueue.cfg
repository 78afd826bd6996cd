CONSTANTS
  Workers = {w1, w2}
  Clients = {c1, c2}
  Runs = {r1}
  Ops = {o1, o2, o3}
  None = None
  MaxPlan = 3
  LeaseTicks = 2
  MaxFaults = 1
SPECIFICATION Spec
SYMMETRY Symmetry
INVARIANTS TypeOK OneLiveOperation ClaimDiscipline StageLedger CanExpandIsHonest RetriesNeedFaults
PROPERTIES FencedPublication ExpiredClaimIsDead RefinesLifecycle
