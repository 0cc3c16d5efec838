SPECIFICATION Spec
CONSTANTS
  Platform <- MCPlatform
  Builder <- Mac
  Host <- MCHost
  Override <- MCOverride
  Object = {o}
  FirstABI = 1
  MaxVersion = 1
  MaxJobs = 3
  None = None
INVARIANTS
  InstalledLoads
  ReleasedByOneRun
  ClosedStaysClosed
CHECK_DEADLOCK FALSE
