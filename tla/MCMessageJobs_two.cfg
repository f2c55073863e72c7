\* A message in two parts that another account may take over, and one for a
\* room or for what cannot be reached.
CONSTANTS
  m1 = m1  m2 = m2  im = im  sim = sim  None = None
  Jobs = {m1, m2}
  Accounts = {im, sim}
  Messages <- TwoMessages
  Overloads <- Overloaded
  PhoneAccounts = {sim}
  Parts <- TwoAndOne
  MaxRuns <- RunTwice
SPECIFICATION Spec
INVARIANT SentWasTaken
PROPERTY MeetsContract
PROPERTY JobsEnd
\* All messages sent, or the handler crashed.
CHECK_DEADLOCK FALSE
