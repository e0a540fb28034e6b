\* One versioned task whose workers submit results, some of which clash.
CONSTANTS
  t1 = t1
  t2 = t2
  r1 = r1
  p1 = p1
  NoProfile = NoProfile
  NoWorker = NoWorker
  NoTask = NoTask
  Tasks = {t1}
  Workers = {w1}
  Rules = {r1}
  HumanIds = {}
  Submissions <- RivalResults
  BrowserProfiles = {}
  RuleOf <- OneRule
  Priority <- OnePriority
  ProfileOf <- OneProfile
  CreatedAt <- OneCreated
  Versioned = {t1}
  Drafts = {}
  MaxRetries = 1
  MaxWorkerTasks = 1
  MaxAttempts = 2
SPECIFICATION Spec
SYMMETRY MCSymmetry
INVARIANTS
  DoneHasResults
