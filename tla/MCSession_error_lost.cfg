\* A rejected request: does the client learn the status the handler chose?
CONSTANTS
  KnownAccessions <- MCKnownAccessions
  StaleDecodes <- MCStaleDecodes
  Requests <- MCErrorRequests
  NetFailures = {"reset"}
SPECIFICATION Spec
INVARIANT ErrorReported
CHECK_DEADLOCK FALSE
