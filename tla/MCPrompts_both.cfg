\* Two incoming calls on two accounts, contacts fetched before ringing with a session of the
\* user or none with the greeter, and a text channel that is handed over at once;
\* and the dialogs of two SIM cards and of an account that logs in.
CONSTANTS
  c1 = c1  c2 = c2  t1 = t1  t2 = t2
  a1 = a1  a2 = a2  a3 = a3  a4 = a4
  None = None
  sim1 = sim1  sim2 = sim2  xmpp = xmpp
  Cards = {sim1, sim2}
  Logins = {xmpp}
  MaxDialogs = 2
  Calls = {c1, c2}
  Texts = {t1}
  Outgoing = {}
  Handleable = {t1}
  Accounts = {a1, a2, a3, a4}
  Account <- SecondSim
  Supported = {a1, a2, a3}
  MaxClaims = 1
  MaxKeys = 1
SPECIFICATION mcSpec
INVARIANT SnapIsWaiting
INVARIANT SoundHasSnap
INVARIANT ButtonsMatch
INVARIANT ClaimedIsHungUp
INVARIANT ListedIsTracked
INVARIANT DialogsWork
PROPERTY AcceptNeedsPrompt
PROPERTY EndedIsForgotten
\* Every call ends and nothing more is offered: the approver goes idle.
CHECK_DEADLOCK FALSE
