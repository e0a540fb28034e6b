\* A result checked before the attempt is finished and stored after.
CONSTANTS
  t1 = t1
  t2 = t2
  r1 = r1
  p1 = p1
  NoProfile = NoProfile
  NoWorker = NoWorker
  NoTask = NoTask
  Tasks = {t1}
  Workers = {w1}
  Rules = {r1}
  HumanIds = {}
  Submissions <- ThreeResults
  BrowserProfiles = {}
  RuleOf <- OneRule
  Priority <- OnePriority
  ProfileOf <- OneProfile
  CreatedAt <- OneCreated
  Versioned = {t1}
  Drafts = {}
  MaxRetries = 1
  MaxWorkerTasks = 1
  MaxAttempts = 1
SPECIFICATION Spec
SYMMETRY MCSymmetry
PROPERTIES
  NoResultAfterClose
