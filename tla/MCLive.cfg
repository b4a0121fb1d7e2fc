\* A worker that may die and its successor; three compensated steps, gates and
\* waits, and a call given up or cut off whose statement runs late.  With one
\* worker alive nobody but itself would see its lease lapse, and at the bound
\* MaxAttempts only the lease of a dead one does.
SPECIFICATION FairSpec
CONSTANTS
  Runs = {r1}
  Holders = {h1, h2}
  Definitions <- Lively
  MaxSteps = 3
  MaxLive = 1
  MaxAttempts = 1
  MaxUpstream = 1
  None = None
INVARIANTS EffectsInOrder UndoInReverse CompleteMeansUndone
PROPERTIES EveryRunEnds NoApprovalLeftPending
CHECK_DEADLOCK FALSE
