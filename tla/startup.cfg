SPECIFICATION Spec
CONSTANTS
  Services = {mongo, etcd}
  MaxRetry = 2
  Calls <- OneRequest
  Searches <- OneRequest
  Requests <- OneRequest
  Failures = TRUE
  MaxFaults = 2
  Gateway = "administrators"
  GwFailures = TRUE
INVARIANTS
  TypeOK
  StartedAfterCheck
  CallsFinish
  RequestsFinish
  PanicsAreKnown
PROPERTIES
  FailureEndsProcess
  StopsWhenAsked
  RequestsEnd
CHECK_DEADLOCK FALSE
