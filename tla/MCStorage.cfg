\* One upload, two sweeps that may overlap, a lease of two ticks, two faults.
SPECIFICATION FairSpec
CONSTANTS
  Objects = {o1}
  Workers = {w1, w2}
  MaxUpload = 1
  Sizes <- EmptyGoodHuge
  Ttl = 1
  Grace = 1
  Late = 1
  Lease = 2
  Margin = 1
  Batch = 1
  MaxFaults = 2
  None = None
INVARIANTS TypeOK AvailableHasBytes NoOrphanedUpload DeletesItsOwn
PROPERTIES EveryRowSettles
CHECK_DEADLOCK FALSE
