\* Six rules, three pages and two navigations; every kind of action; two branches
\* on one breaker and one quota; a task of four rows.
CONSTANTS
  click = click
  go = go
  again = again
  read = read
  ask = ask
  grp = grp
  lp = lp
  wl = wl
  sw = sw
  brk = brk
  cont = cont
  stop = stop
  home = home
  next = next
  away = away
  NoPage = NoPage
  SamePage = SamePage
  Rules <- SmallRules
  StepKind <- KindOf
  WhileLoops = {wl}
  Navigating = {click, go, again}
  Target <- Targets
  OnError <- Policy
  MaxAttempts <- Attempts
  Pages = {home, next, away}
  Entry = home
  HostOf <- Origin
  InDomain = {home, next}
  HopLimit = 1
  MaxNavs = 2
  MaxWire = 1
  ActionRules <- SomeActionRules
  MaxTries = 2
  MaxToggles = 2
  Actors = {"a", "b"}
  TabOf <- OneTab
  WindowMs = 2
  CooldownMs = 2
  FailureThreshold = 2
  Limit = 2
  QuotaMs = 2
  Policies = {"fail", "wait", "skip"}
  Counters = {0, 1}
  MaxTime = 4
  MaxRounds = 4
  MaxRows = 4
  BatchSize = 1
  BufferCap = 1
  SendOnFailure = {TRUE, FALSE}
  MaxSendAttempts = 2
  MaxFaults = 2
SPECIFICATION ExecutionSpec
INVARIANTS
  RunSurvivesPages
  HandlersLeaveNothing
  GuardsHold
  ResultsAreExact
PROPERTIES
  WorkSettles
CHECK_DEADLOCK FALSE
