\* Does the deadline bound every client transaction when the network goes silent?
CONSTANTS
  KnownAccessions <- MCKnownAccessions
  StaleDecodes <- MCStaleDecodes
  Requests <- WellFormedRequests
  NetFailures = {"reset", "partitioned"}
SPECIFICATION Spec
PROPERTY ClientRequestCompletes
CHECK_DEADLOCK FALSE
