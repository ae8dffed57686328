SPECIFICATION ExecSpec
CONSTANTS
  None = None
  b1 = b1
  b2 = b2
  v1 = v1
  r1 = r1
  t1 = t1
  s1 = s1
  s2 = s2
  Workers = {b1, b2, v1}
  Repos = {r1}
  Tasks = {t1}
  TaskRepo <- OneTask
  Effects = {s1, s2}
  CheckpointIds <- CheckpointIdsOfAttempts
  Shas = {s1, s2}
  Registrations <- BuildersAndValidator
  HeartbeatInputs <- NoInputs
  Admissions <- FencedOrNot
  LaneConfigs <- NoInputs
  Affinities <- NoInputs
  LeaseSeconds = {1}
  HeartbeatTTL = 9
  StallSeconds = 1
  TicksPerSecond = 1
  MaxClock = 2
  AdminHorizon = 0
  MaxGeneration = 3
  MaxSequence = 2
  MaxLate = 1
SYMMETRY ExecutorSymmetry
INVARIANTS PublishedIsDeclared PublishedOnce ProductIsDurable ReceiptIsBacked
