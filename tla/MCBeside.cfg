\* A `once` started while the unit works.
SPECIFICATION Spec
CONSTANTS
  acme = acme
  zeta = zeta
  s1 = s1
  s2 = s2
  Orgs <- TwoOrgs
  Slots = {s1, s2}
  Founded <- OneFounded
  Limit <- Tight
  MaxOps = 2
  MaxDeaths = 1
  MaxOnce = 1
  Beside = TRUE
  None = None
INVARIANTS WorkIsOnRunning
CHECK_DEADLOCK FALSE
