SPECIFICATION Spec
CONSTANTS
  fan = fan
  fan2 = fan2
  retry = retry
  reset = reset
  Runs = {fan, fan2, retry, reset}
  Kind <- Kinds
  MaxAttempts = 2
  MaxCalls = 2
  Absent = Absent
  NoJob = NoJob
SYMMETRY Alike
INVARIANTS
  TypeOK
  RestoredAtRest
  AloneRunsDeliver
  NoStrayFailure
CHECK_DEADLOCK FALSE
