SPECIFICATION Spec
CONSTANTS
  NumSuites = 2
  NumExamples = 1
  SkipJobs = {3}
  Workers = {w1, w2}
  MaxFaults = 0
INVARIANTS
  ReportIsWhole
CHECK_DEADLOCK FALSE
