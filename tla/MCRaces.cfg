\* A keyed write, a gated one of each kind, or a time wait and an event wait,
\* with retries; two workers that may overlap, overlapping cancels and
\* decisions, and up to two calls given up whose statements run late.
SPECIFICATION RaceSpec
CONSTANTS
  Runs = {r1}
  Holders = {h1, h2}
  Definitions <- GatesAndWaits
  MaxSteps = 2
  MaxLive = 2
  MaxAttempts = 3
  MaxUpstream = 2
  None = None
INVARIANTS EffectNeedsApproval ServedWaitSucceeds OneEffectPerKey OneEffectPerClaim SucceededMeansDone
PROPERTIES DecisionIsFinal
SYMMETRY HolderSymmetry
CHECK_DEADLOCK FALSE
