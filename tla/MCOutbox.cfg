\* One recorded event of a connector with no retry, one or two; three workers
\* that may overlap and die.  Rows share nothing but the worker that is handed
\* one of them at a time.
SPECIFICATION FairSpec
CONSTANTS
  Connectors = {c1}
  Events = {e1}
  Retries = {0, 1, 2}
  Holders = {h1, h2, h3}
  MaxEmits = 1
  MaxLive = 3
  None = None
INVARIANTS TypeOK NoneStranded
PROPERTIES KeepsPromise EveryDeliveryEnds
CHECK_DEADLOCK FALSE
