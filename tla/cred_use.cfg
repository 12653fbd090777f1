SPECIFICATION Spec
CHECK_DEADLOCK FALSE
CONSTANTS
  a = a
  d = d
  home = home
  self = self
  other = other
  w1 = w1
  w2 = w2
  w3 = w3
  None = None
  Unreadable = Unreadable
  Names <- MCNames
  Default = d
  Hosts <- MCHosts
  DefaultHost = home
  Workspaces <- MCWorkspaces
  Configs <- MCConfigs
  Envs <- SomeEnvs
  FlagSets <- SomeFlags
  Ops = {"call", "connect", "ssh", "setup"}
  MaxUses = 2
INVARIANTS OneAccount SelectedProfileOnly
  KeyMatchesEndpoint ReferencedKeyStaysOut
