\* Two tabs and two origins; a rule of three steps with one navigation, two tasks.
CONSTANTS
  t1 = t1
  t2 = t2
  oA = oA
  oB = oB
  Tabs = {t1, t2}
  FirstTab = t1
  Origins = {oA, oB}
  Home = oA
  PageBudget = 3
  Plans <- AllPlans
  LastStep = 3
  Navigates = {2}
  HopLimit = 2
  HopCredit = 1
  MaxTasks = 2
  MaxWire = 1
  ReplayPlans <- AllReplayPlans
SPECIFICATION ExtensionSpec
INVARIANTS
  RecordingIsKept
  ReplayIsTrue
PROPERTIES
  FinalIsFinal
  RetainedStays
  StopsAndSessionsEnd
CHECK_DEADLOCK FALSE
