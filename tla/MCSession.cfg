\* Every request the client can be given (one it cannot compose included),
\* over a network that may reset the connection.
CONSTANTS
  KnownAccessions <- MCKnownAccessions
  StaleDecodes <- MCStaleDecodes
  Requests <- AllRequests
  NetFailures = {"reset"}
SPECIFICATION Spec
INVARIANTS TypeOK ClientResultCorrect
PROPERTIES ClientRequestCompletes ServerClosesSentRequests
\* A finished session is a final state: nothing is left to do.
CHECK_DEADLOCK FALSE
