\* One run of two compensable writes and a read; two workers that may overlap.
\* A call given up never runs late here (MCLive.cfg and MCRaces.cfg have those).
\* The system stops once the run has ended and both workers are gone.
SPECIFICATION Spec
CONSTANTS
  Runs = {r1}
  Holders = {h1, h2}
  Definitions <- Sagas
  MaxSteps = 3
  MaxLive = 2
  MaxAttempts = 2
  MaxUpstream = 0
  None = None
INVARIANTS TypeOK LeaseGuardsRun SequentialForward
PROPERTIES TurnsWithItsUndo EndedRunStays
SYMMETRY HolderSymmetry
CHECK_DEADLOCK FALSE
