\* Three pages, two recorded events; eight demonstrations of up to four events; two
\* recordings' jobs and one workflow; rules of three and four steps; the console's pages
\* with three acts and one trouble.
CONSTANTS
  Pages = {"p", "q", "big"}
  Similar <- TwoAlike
  TooBig = {"big"}
  Fields = {"f"}
  Elements = {"e"}
  Forms = {"typed", "typeless"}
  Delays = {"quick", "slow", "stalled"}
  MaxEvents = 2
  MaxMarks = 2
  Habits <- SomeHabits
  MaxUserActs = 2
  MaxPageChanges = 1
  Layout <- SomeLayouts
  Details <- SomeDetails
  Address <- SomeAddress
  Leads <- SomeLeads
  Radius = 5
  Demos <- SomeDemos
  MaxJobs = 3
  MaxWorkflows = 1
  MaxRule = 2
  WizardPlans <- SomeWizardPlans
  StoredRules <- SomeRules
  NewKinds = {"leaf", "group"}
  EditorHabits <- SomeEditorHabits
  MaxIds = 5
  MaxActs = 3
  MaxMishaps = 1
  ConsolePages = {"tasks", "rules", "tokens", "dashboard", "detail", "results", "create", "modal"}
  Filters = {"none", "a"}
  Approved <- SomeApproved
  Legacy = {"r4"}
  PageLimit = 1
  MaxExports = 2
  MaxResults = 3
  MaxSteps <- StepsPerPage
  MaxTroubles = 1
SPECIFICATION InterfacesSpec
INVARIANTS
  CaptureIsFaithful
  RuleIsWhatWasShown
  WizardShowsTruth
  EditorIsTrue
  ConsoleIsTrue
PROPERTIES
  NobodyWaits
CHECK_DEADLOCK FALSE
