CONSTANTS
  Requests <- MCRequests
  MaxCalls = 2
  Starts <- MCStarts
  MaxPolls = 2
SPECIFICATION Spec
PROPERTY PreviewShowsLastBuild
CHECK_DEADLOCK FALSE
