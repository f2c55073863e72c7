SPECIFICATION RouteSpec
CONSTANTS
  in = in
  out = out
  Calls = {in, out}
  Incoming = {in}
  MaxEvents = 1
INVARIANT SensorOffAtRest
PROPERTY RestoredAfterCalls
CHECK_DEADLOCK FALSE
