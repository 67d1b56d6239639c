SPECIFICATION Spec
CONSTANTS
  NumSuites = 2
  NumExamples = 2
  SkipJobs = {4}
  Workers = {w1, w2}
  MaxFaults = 1
INVARIANTS
  TypeOK
  JobsInOnePlace
  SuccessIsEarned
PROPERTIES
  Terminates
  OneVerdictEach
CHECK_DEADLOCK FALSE
