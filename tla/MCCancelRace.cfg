\* A cancel that read the run queued, while the worker claims it.
SPECIFICATION RaceSpec
CONSTANTS
  Runs = {r1}
  Holders = {h1}
  Definitions <- OneWrite
  MaxSteps = 1
  MaxLive = 1
  MaxAttempts = 1
  MaxUpstream = 1
  None = None
INVARIANTS CancelledIsUndone
CHECK_DEADLOCK FALSE
