\* One upload, written again through its URL once it is collected.
SPECIFICATION Spec
CONSTANTS
  Objects = {o1}
  Workers = {w1}
  MaxUpload = 1
  Sizes <- EmptyGoodHuge
  Ttl = 1
  Grace = 1
  Late = 1
  Lease = 2
  Margin = 1
  Batch = 1
  MaxFaults = 1
  None = None
INVARIANTS NoOrphan
CHECK_DEADLOCK FALSE
