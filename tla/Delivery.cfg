SPECIFICATION DeliverySpec
CONSTANTS
  Parts = {"research", "cas", "admission", "draft", "merge", "repair", "edits", "authority",
           "gateway", "continuity", "work"}
  IssueResearchers = {"i"}
  PullResearchers = {"q"}
  ResSources = {"s1", "s2"}
  ResRounds = 2
  ResRuns = 1
  ResChanges = 2
  CasAttempts = {"a1", "a2"}
  CasCapacity = 2
  CasRuns <- CasRunsFew
  CasDisturbances = 1
  NoBranch = NoBranch
  IssueDispatchers = {"i1"}
  BridgeDispatchers = {"b1"}
  AdmHeads = 3
  AdmRepaired = {3}
  AdmRuns = 2
  Publishers = {"p1", "p2"}
  DraftRuns = 2
  DraftDisturbances = 1
  NoRef = NoRef
  MergeHeads = 2
  MergeDisturbances = 2
  MergeRewinds = FALSE
  StructuredRepairers = {"s1"}
  LocalRepairers = {"l1"}
  RepTasks = {"t", "u"}
  RepRuns = 2
  RepDisturbances = 2
  StrangerTexts <- RepTexts
  NoHolder = NoHolder
  MaxLines = 4
  MaxText = 4
  MaxEdits = 2
  AuthThreads = {"t1", "t2", "u1"}
  AuthOperators = {"o1", "o2"}
  AuthIdentity <- AuthIdentities
  AuthCommits = 3
  AuthMaxClock = 2
  NoAuthority = NoAuthority
  GwRunners = {"p1", "p2"}
  GwWindow = 0
  GwMaxClock = 1
  GwDisturbances = 2
  GwEdits = 2
  ContJobs = {"j1", "j2", "j3"}
  ContRunner <- ContRunners
  NoRow = NoRow
  Nothing = Nothing
  Nobody = Nobody
  c1 = c1
  c2 = c2
  w1 = w1
  w2 = w2
  s1 = s1
  s2 = s2
  v1 = v1
  v2 = v2
  m1 = m1
  m2 = m2
  Tasks = {"task"}
  Workers = {w1, w2}
  Products = {s1, s2}
  Callers = {c1, c2}
  Evidence = {v1, v2}
  Commits = {m1, m2}
  Reasons = {"conflict"}
  MaxEpoch = 3
CHECK_DEADLOCK FALSE
INVARIANTS
  ReceiptStoodAfterModel AnsweredWriteInScope ReportMatchesTask AdmittedIsApproved
  VerifiedHeadIsProduct PublicationRecoverable MergedWasVerified CountedCiIsOfAMerge
  RepairReceiptProved OneRepair ResultIsGoverned OneActorTree EffectOfTheSuccessor
  BlocksKept EditsSimultaneous SerialCommits OneAuthority WorkTypeOK GateFollowsEvidence
PROPERTIES CasImplementsStore EvidenceIsFinal
