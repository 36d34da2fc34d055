SPECIFICATION Spec
CONSTANTS
  s1 = s1
  s2 = s2
  s3 = s3
  p1 = p1
  p2 = p2
  p3 = p3
  p4 = p4
  Steps = {s1, s2, s3}
  Deps <- MCDeps
  Undoable = {s1, s2, s3}
  MaxAttempts = 2
  Limits = {0, 1}
  CompensationRetry = 2
  BreakerThreshold = 2
  Policies = {"STRICT_SEQUENTIAL", "GROUPED_PARALLEL", "RETRY_WITH_BACKOFF", "CIRCUIT_BREAKER", "BEST_EFFORT_PARALLEL"}
  Order <- MCOrder
  Optional = {p3}
  Cancellable = {p1, p3, p4}
  TotalAttempts = 2
  q1 = q1
  q2 = q2
  Runners = {q1, q2}
  BatchSize = 2
  Leased = TRUE
  Stuck = {0, 2}
  MaxEvents = 2
  MaxMishaps = 1
  Nobody = Nobody
INVARIANTS
  TypeOK
  WorkOnce
  DependenciesKept
  CompensationSeesAll
  CompensationComplete
  RecordHonest
  PhasesOnce
  AllOrNothing
  AppliedInOrder
PROPERTIES
  SagaSettles
  ConfirmedTogether
  ProjectionCatchesUp
CHECK_DEADLOCK FALSE
