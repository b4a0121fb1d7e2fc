\* A window ends while a call is being counted.
SPECIFICATION Spec
CONSTANTS
  Calls = {c1, c2, c3}
  Keys = {k1}
  Asks <- OnlyNote
  Statuses = {"todo", "done"}
  Quota = 1
  MaxWindow = 1
  Slots = 1
  ToolSlots = 1
  None = None
INVARIANTS QuotaHeld
CHECK_DEADLOCK FALSE
