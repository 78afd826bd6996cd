CONSTANTS
  Workers = {w1}
  Clients = {c1}
  Runs = {r1, r2}
  Ops = {o1, o2}
  None = None
  MaxPlan = 2
  LeaseTicks = 2
  MaxFaults = 1
SPECIFICATION FairSpec
PROPERTIES EveryOperationEnds RefinesFairLifecycle
