\* A SIM card and a VoIP account, each there from the start or added later; an
\* incoming and an outgoing call, a conference, an observer registered twice.
CONSTANTS
  sim1 = sim1  voip = voip
  NoAccount = NoAccount
  Order <- mcOrder
  Sims = {sim1}
  Settings <- mcSettings
  MaxConns <- mcMaxConns
  MaxSignals = 1
  in1 = in1  out1 = out1  conf = conf
  None = None
  Calls = {in1, out1}
  Incoming = {in1}
  Conference = conf
  MaxObservers = 2
SPECIFICATION mcSpec
INVARIANT SetupIsComplete
INVARIANT DefaultsAreKnown
INVARIANT ActiveIsTold
INVARIANT VoicemailIsKnown
INVARIANT OneHome
INVARIANT ConferenceHasItsCalls
INVARIANT ForegroundIsTold
PROPERTY SetupEnds
PROPERTY InvocationsEnd
\* The calls are over and the observer is not registered again.
CHECK_DEADLOCK FALSE
