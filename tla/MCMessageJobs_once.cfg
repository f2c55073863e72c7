\* One message while its account connects.
CONSTANTS
  m1 = m1  m2 = m2  im = im  sim = sim  None = None
  Jobs = {m1}
  Accounts = {im}
  Messages <- OneMessage
  Overloads <- NoOverload
  PhoneAccounts = {}
  Parts <- TwoAndOne
  MaxRuns <- Twice
SPECIFICATION Spec
INVARIANT SentOnce
\* All messages sent, or the handler crashed.
CHECK_DEADLOCK FALSE
