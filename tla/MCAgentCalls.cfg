\* Two calls, of two writes that may share a key and a read, for one slot, over
\* two windows of one call.
SPECIFICATION FairSpec
CONSTANTS
  Calls = {c1, c2}
  Keys = {k1}
  Asks <- Everything
  Statuses = {"todo", "done"}
  Quota = 1
  MaxWindow = 1
  Slots = 1
  ToolSlots = 1
  None = None
INVARIANTS TypeOK WriteOnce ServedIsTrue
PROPERTIES RepeatIsReplayed EveryCallEnds
CHECK_DEADLOCK FALSE
