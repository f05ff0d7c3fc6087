SPECIFICATION FairSpec
CONSTANTS
  a = a
  b = b
  Files = {a, b}
  MaxVersion = 2
  MaxRetries = 3
  MaxTroubles = 1
  MaxRestarts = 1
  MaxSettles = 1
  MaxOthers = 2
INVARIANTS
  NothingSkipped
PROPERTIES
  EveryFileIsGiven
  PollerComesToRest
\* An idle poller with nothing new to read takes no step.
CHECK_DEADLOCK FALSE
