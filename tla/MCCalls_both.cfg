\* One incoming call and one VoIP call placed by the user; a call with one content
\* and four keys of which the third is no DTMF key.
CONSTANTS
  in1 = in1  out1 = out1  audio1 = audio1
  Calls = {in1, out1}
  Incoming = {in1}
  Streaming = {in1, out1}
  MaxHangups = 1
  MaxStops = 2
  Contents = {audio1}
  Invalid = {3}
  MaxKeys = 4
  MaxPumps = 3
SPECIFICATION mcSpec
INVARIANT ToneHasCause
INVARIANT OnlyApprovedCalls
INVARIANT EachKeyOnce
PROPERTY EndedCallsLeave
\* The calls are over, or all keys sent.
CHECK_DEADLOCK FALSE
