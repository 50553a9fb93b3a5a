\* Does the client's io_context run out of work once the transaction ends?
CONSTANTS
  KnownAccessions <- MCKnownAccessions
  StaleDecodes <- MCStaleDecodes
  Requests <- WellFormedRequests
  NetFailures = {}
SPECIFICATION Spec
PROPERTY ClientIoDrains
CHECK_DEADLOCK FALSE
