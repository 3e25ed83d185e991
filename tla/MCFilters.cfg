SPECIFICATION Spec
CONSTANTS
  Jobs <- MCJobs
  MaxDim = 3
INVARIANTS
  HostsAgree
  RoundTrip
  PrecisionKept
PROPERTIES
  AcceptedIsRestorable
CHECK_DEADLOCK FALSE
