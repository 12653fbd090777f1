SPECIFICATION CommandsSpec
CONSTANTS
  r1 = r1
  r2 = r2
  r3 = r3
  u1 = u1
  u2 = u2
  d1 = d1
  d2 = d2
  Parts = {"update"}
  Devs = {d1, d2}
  Workspaces = {"w1", "w2"}
  MaxApps = 3
  SyncBudgets <- MCSyncBudgets
  Setups <- TwoRuns
  Boxes = {"a", "b"}
  Versions = {"1", "2"}
  UserEdits = 1
  Channels = {"c", "d"}
  MaxQuestions = 4
  BoxNames = {"b1", "b2"}
  Runs <- TwoRuns
  MaxLives = 2
  BoxInputs <- MCBoxInputs
  TomlFiles <- MCTomlFiles
  SetupRuns <- TwoRuns
  SetupInputs <- MCSetupInputs
  ConnectorFiles <- MCConnectorFiles
  ConnectorEnvs <- MCConnectorEnvs
  Uptimes = {0, 120}
  MaxCarriers = 7
  MaxRoots = 3
  RootKinds <- MCRootKinds
  QueryInputs <- MCQueryInputs
  MaxCalls = 3
  HydrateSize = 2
  LookupInputs <- MCLookupInputs
  MaxTraceRuns = 3
  Uploads <- TwoRuns
  EvalInputs <- MCEvalInputs
  MaxRules = 2
  MaxRuleEdits = 2
  HubRuns <- TwoRuns
  HubInputs <- MCHubInputs
  MaxCommits = 2
  MaxDirEdits = 2
  DataRuns <- ThreeRuns
  DataInputs <- MCDataInputs
  MaxDatasets = 2
  MaxExamples = 3
  ExamplePage = 2
  CallRetries = 2
  UserFiles <- MCUserFiles
  InsightRuns <- TwoRuns
  InsightInputs <- MCInsightInputs
  MaxConfigs = 2
  MaxJobs = 2
  WaitIntervals = 2
  MessageInputs <- MCMessageInputs
  Conversations <- MCConversations
  LargePage = 3
  SmallPage = 2
  MaxLimit = 5
  MaxMessageCalls = 3
  ThreadInputs <- MCThreadInputs
  Thread <- MCThread
  ServerTurns = 2
  MaxThreadCalls = 4
  IssueInputs <- MCIssueInputs
  MaxIssues = 3
  MaxAssertions = 2
  ServerIssuePage = 2
  MaxIssueEdits = 3
  StatsInputs <- MCStatsInputs
  OverviewKeys <- MCOverviewKeys
  Week = 3
  EndOfTime = 5
  ApiInputs <- MCApiInputs
  SDKRetries = 2
  SpecRuns <- TwoRuns
  SpecInputs <- MCSpecInputs
  Servers = {"a", "b"}
  Releases <- MCReleases
  SpecTTL = 1
  LastHour = 3
  Updaters <- MCUpdaters
  MaxRelease = 2
  Starts <- MCStarts
  LossyClose = TRUE
  Trees <- MCTrees
  Resource <- MCInvoked
  Operations <- MCOperations
  RootValues <- MCRootValues
  RootBools = {"--debug", "-r", "--raw-output"}
  Plain <- MCPlain
  ProjectIds <- MCProjectIds
  GenInputs <- MCGenInputs
SYMMETRY RunSymmetry
\* every run of self-update ends, and the user stops installing
CHECK_DEADLOCK FALSE
INVARIANT BinaryIsWhole
