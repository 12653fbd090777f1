SPECIFICATION HistorySpec
CONSTANTS
  default = default
  work = work
  Holds <- OneLogin
  None = None
  NoProfile = NoProfile
  Torn = Torn
  NoFile = NoFile
  Default = default
  Names = {default, work}
  Workspaces = {w1}
  Procs = {p1, p2}
  Ops = {"create", "delete", "use", "workspace", "login", "request"}
  MaxTokens = 2
  MaxCommands = 2
  MaxFaults = 1
SYMMETRY ProcSymmetry
INVARIANTS TypeOK ConfigIsSound
PROPERTY FromSomeVersion
