\* One legacy task, two workers, two attempts, one intervention, under the fair specification.
CONSTANTS
  t1 = t1
  t2 = t2
  r1 = r1
  p1 = p1
  NoProfile = NoProfile
  NoWorker = NoWorker
  NoTask = NoTask
  Tasks = {t1}
  Workers = {w1, w2}
  Rules = {r1}
  HumanIds = {h1}
  Submissions = {}
  BrowserProfiles = {}
  RuleOf <- OneRule
  Priority <- OnePriority
  ProfileOf <- OneProfile
  CreatedAt <- OneCreated
  Versioned = {}
  Drafts = {r1}
  MaxRetries = 1
  MaxWorkerTasks = 1
  MaxAttempts = 2
SPECIFICATION FairSpec
INVARIANTS
  TypeOK
  OneOpenAttempt
  WaitHasDecision
  QueueIsSound
PROPERTIES
  ClosedStaysClosed
  SweeperCatchesUp
