SPECIFICATION Spec
CONSTANTS
  default = default
  work = work
  Holds <- OneLogin
  None = None
  NoProfile = NoProfile
  Torn = Torn
  NoFile = NoFile
  Default = default
  Names = {default, work}
  Workspaces = {w1}
  Procs = {p1, p2}
  Ops = {"use", "request"}
  MaxTokens = 3
  MaxCommands = 3
  MaxFaults = 0
INVARIANT NoReplay
