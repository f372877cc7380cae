CONSTANTS
  a = a
  b = b
  c = c
  d = d
  e = e
  old = old
  Tasks = {a, b, c, d, e}
  Earlier = {old}
  Deps <- Diamond
  Registered = {a, b, c, d}
  Throttled = {c, d}
  MaxWorkers = 2
  MaxCalls = 3
SPECIFICATION FairSpec
INVARIANTS TypeOK DependenciesFirst CheckpointTruthful ReturnMeansDone DeadlockIsReal
PROPERTIES ResumeSkipsDone RunEnds
