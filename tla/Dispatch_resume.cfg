\* The dispatcher alone, with nothing going wrong but the navigation of the rule itself.
CONSTANTS
  q1 = q1
  q2 = q2
  q3 = q3
  q4 = q4
  k1 = k1
  b1 = b1
  b2 = b2
  None = None
  Requests <- Repeats
  Keys = {k1}
  Bodies = {b1, b2}
  KeyOf <- RepeatKey
  BodyOf <- RepeatBody
  BreakerRequests = {r1, r2, r3}
  Threshold = 2
  Dispatchers = {"d1"}
  DispatchRules <- SomeDispatchRules
  MaxAttempts = 2
  MaxReloads = 0
  MaxFaults = 0
  Slots = {1, 2}
  Jobs = {"t1"}
  MaxBackoff = 1
  MaxLeases = 2
  MaxHostFaults = 0
  Capacity = 1
  MaxSends = 2
  MaxBridgeCalls = 3
  MaxBusy = 0
  Modes = {"intent", "candidates", "structured"}
  Cases <- SomeCases
  Budget = 1
  MaxQuiet = 2
  MaxSlips = 1
  Selections <- SomeSelections
  Flags = {"headed", "humanDemo", "humanRequirement", "recordOnly", "recordOnlyApproved", "save", "reuse", "warmup", "profile", "profileApproved"}
SPECIFICATION ServicesSpec
INVARIANTS
  ResumeNeverConflicts
CHECK_DEADLOCK FALSE
