\* One slot holds a project, one is free; two organisations of one project each.
SPECIFICATION FairSpec
CONSTANTS
  acme = acme
  zeta = zeta
  s1 = s1
  s2 = s2
  Orgs <- TwoOrgs
  Slots = {s1, s2}
  Founded <- OneFounded
  Limit <- Tight
  MaxOps = 2
  MaxDeaths = 1
  MaxOnce = 1
  Beside = FALSE
  None = None
INVARIANTS TypeOK WorkIsOnRunning NeverResumed SlotUsedOnce PlanHeld SleepingIsOff DeletedIsGone
PROPERTIES EveryOperationEnds
CHECK_DEADLOCK FALSE
