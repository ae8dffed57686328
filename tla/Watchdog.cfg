SPECIFICATION LoopSpec
CONSTANTS
  None = None
  w1 = w1
  w2 = w2
  w3 = w3
  r1 = r1
  r2 = r2
  t1 = t1
  t2 = t2
  e1 = e1
  k1 = k1
  k2 = k2
  k3 = k3
  s1 = s1
  s2 = s2
  Workers = {w1, w2}
  Repos = {r1}
  Tasks = {t1}
  TaskRepo <- OneTask
  Effects = {}
  CheckpointIds = {}
  Shas = {s1}
  Registrations <- BothBuilders
  HeartbeatInputs <- NoInputs
  Admissions <- OneOrTwoAttempts
  LaneConfigs <- NoInputs
  Affinities <- NoInputs
  LeaseSeconds = {2}
  HeartbeatTTL = 2
  StallSeconds = 2
  TicksPerSecond = 1
  MaxClock = 3
  AdminHorizon = 0
  MaxGeneration = 2
  MaxSequence = 1
  MaxCycleFailures = 2
PROPERTIES LeaseEventuallyEnds
