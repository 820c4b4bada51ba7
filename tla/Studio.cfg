SPECIFICATION Spec
CONSTANTS
  Roots = {1}
  Managers = {2, 3}
  Specialists = {4}
  Tools = {6}
  Nobody = Nobody
  HistoryLimit = 1
  MaxWork = 2
  MaxSaves = 2
  NoDocument = NoDocument
  MaxWizardChanges = 2
  MaxDrafts = 2
  NoDraft = NoDraft
  Setups = {s1, s2}
  ToolAgents = {a}
  MaxTools = 3
  MaxOps = 3
  SetupAgents = {"root", "manager"}
  Holder = "root"
  MaxRequests = 3
  Accounts = {"ann", "bob"}
  Known = {"ann"}
  Grants = {"view_executions"}
  MaxLogins = 2
  MaxCalls = 2
  MaxAccountSteps = 4
  MaxSecrets = 2
  MaxAsked = 3
  Items = {i1, i2}
  MaxShelfChanges = 3
  MaxRows = 2
  MaxSent = 3
  MaxQueryEdits = 2
  MaxServerChanges = 1
  MaxVersions = 3
  MaxRuns = 3
INVARIANTS
  StudioTypeOK
  BuilderIsHonest
  LayoutKeepsApart
  WizardMakesOneTree
  ToolIsAsTested
  AccountIsKnown
  SecretsAreSafe
  PagesShowTheServer
  PlaygroundFollowsItsRun
CHECK_DEADLOCK FALSE
