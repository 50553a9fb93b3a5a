\* Does the server close a connection whose peer never sends its request?
CONSTANTS
  KnownAccessions <- MCKnownAccessions
  StaleDecodes <- MCStaleDecodes
  Requests <- AllRequests
  NetFailures = {}
SPECIFICATION Spec
PROPERTY ServerConnectionCloses
CHECK_DEADLOCK FALSE
