SPECIFICATION RequestsSpec
CONSTANTS
  default = default
  work = work
  Holds <- TwoLogins
  None = None
  NoProfile = NoProfile
  Torn = Torn
  NoFile = NoFile
  Default = default
  Names = {default, work}
  Workspaces = {w1}
  Procs = {p1, p2, p3}
  Ops = {"request"}
  MaxTokens = 4
  MaxCommands = 5
  MaxFaults = 0
SYMMETRY ProcSymmetry
INVARIANTS NoReplay SessionKept
