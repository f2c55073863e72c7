SPECIFICATION RouteSpec
CONSTANTS
  in = in
  out = out
  Calls = {in, out}
  Incoming = {}
  MaxEvents = 0
INVARIANT EarpieceHasProximity
CHECK_DEADLOCK FALSE
