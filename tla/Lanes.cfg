SPECIFICATION Spec
CONSTANTS
  None = None
  w1 = w1
  w2 = w2
  w3 = w3
  r1 = r1
  r2 = r2
  t1 = t1
  t2 = t2
  e1 = e1
  k1 = k1
  k2 = k2
  k3 = k3
  s1 = s1
  s2 = s2
  Workers = {w1, w2}
  Repos = {r1}
  Tasks = {t1, t2}
  TaskRepo <- TwoTasksOneRepo
  Effects = {}
  CheckpointIds = {}
  Shas = {s1}
  Registrations <- EitherRole
  HeartbeatInputs <- NoInputs
  Admissions <- OneAttempt
  LaneConfigs <- WideOrPausedLane
  Affinities <- NoInputs
  LeaseSeconds = {1}
  HeartbeatTTL = 9
  StallSeconds = 1
  TicksPerSecond = 1
  MaxClock = 2
  AdminHorizon = 0
  MaxGeneration = 2
  MaxSequence = 1
SYMMETRY LaneSymmetry
INVARIANTS OneLeasePerWorker
PROPERTIES ImplementsOwnership
