\* Two tasks, one of them bound to a browser profile, and two workers.
CONSTANTS
  t1 = t1
  t2 = t2
  r1 = r1
  p1 = p1
  NoProfile = NoProfile
  NoWorker = NoWorker
  NoTask = NoTask
  Tasks = {t1, t2}
  Workers = {w1, w2}
  Rules = {r1}
  HumanIds = {h1, h2}
  Submissions = {}
  BrowserProfiles = {p1}
  RuleOf <- TwoRule
  Priority <- TwoPriority
  ProfileOf <- TwoProfile
  CreatedAt <- TwoCreated
  Versioned = {t2}
  Drafts = {}
  MaxRetries = 1
  MaxWorkerTasks = 1
  MaxAttempts = 1
SPECIFICATION Spec
SYMMETRY MCSymmetry
PROPERTIES
  LimitPassedOnlyByApproval
  
