SPECIFICATION Spec
CONSTANTS
  None = None
  Requests = {q1, q2, q3, q4}
  Users = {u1, u2}
  Internal = {u2}
  Guests = {g1}
  TicksPerSecond = 2
  Window = 2
  SuspiciousWindow = 2
  UserCooldown = 1
  GuestCooldown = 1
  SuspiciousCooldown = 2
  UserLimit = 3
  GuestLimit = 1
  GlobalLimit = 3
  Threshold = 1
  PublicGuests = TRUE
  Turnstile = TRUE
  MaxTime = 6
SYMMETRY RequestSymmetry
INVARIANTS TypeOK QuotaHolds CapacityHolds CooldownHolds
