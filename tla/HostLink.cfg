SPECIFICATION Spec
CONSTANTS
  Requests = {q1, q2}
  Hello = hello
  Shutdown = shutdown
  Bytes = {0, 1}
  HeaderBytes = 2
  Header <- MCHeader
  MaxFrame = 2
  MaxStream = 7
  Json <- MCJson
  SerdeJson <- MCSerdeJson
  NotJson = NotJson
  Refused = Refused
INVARIANTS FramingSound RequestTracked
PROPERTIES RequestSettles ToolCallAnswered HostStops
CHECK_DEADLOCK FALSE
