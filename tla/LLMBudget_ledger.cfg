\* Three calls, two of them of one operation, on two routes over two days.
CONSTANTS
  c1 = c1
  c2 = c2
  c3 = c3
  o1 = o1
  o2 = o2
  w1 = w1
  w2 = w2
  f1 = f1
  NoWorkflow = NoWorkflow
  Calls = {c1, c2, c3}
  Operations = {o1, o2}
  OperationOf <- ThreeCalls
  Workspaces = {w1, w2}
  WorkspaceOf <- TwoWorkspaces
  Workflows = {f1}
  WorkflowOf <- OneWorkflow
  Routes = {"primary", "fallback"}
  RateUnit = 2
  Rates <- TwoRates
  Caps <- TwoCaps
  Usages = {"cheap", "split", "over"}
  UsageOf <- ThreeUsages
  GlobalRequest = 3
  GlobalDaily = 8
  WorkspaceRequest <- RequestCap
  WorkspaceDaily <- DailyCap
  Envelope <- EnvelopeOf
  CallMaxRetries = 1
  MaxDay = 1
SPECIFICATION Spec
SYMMETRY Repeats
CHECK_DEADLOCK FALSE
INVARIANTS
  LedgerIsSound
  
  TrustedCostFits
