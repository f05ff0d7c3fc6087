SPECIFICATION FairSpec
CONSTANTS
  good = good
  bad = bad
  odd = odd
  w1 = w1
  w2 = w2
  Docs = {good, bad, odd}
  Files = {bad, odd}
  Workers = {w1, w2}
  Cap = 2
  Limit = 2
  Answers <- MCAnswers
  Outages = {"infra", "fatal"}
  MaxOutages = 1
  MaxCrashes = 1
  NoDoc = NoDoc
INVARIANTS
  CondemnedForCause
PROPERTIES
  EveryDocumentSettles
  FailedFilesAreQuarantined
  BreakerComesToRest
