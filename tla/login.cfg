CONSTANTS
  saas = saas
  auth = auth
  plain = plain
  Hosts = {saas, auth, plain}
  DefaultHost = saas
  SecureHosts = {saas, auth}
  NoURL = NoURL
  Outage = Outage
  Absent = Absent
  NotYet = NotYet
  Documents <- MCDocuments
  Inputs <- MCInputs
  MaxLatency = 2
SPECIFICATION Spec
INVARIANTS
  DiscoveryIsSound
  PollsKeepPace
  StoredLoginIsWhole
PROPERTY PollingEnds
