\* An incoming call and one placed from a car kit, on one account.
CONSTANTS
  c1 = c1  c2 = c2  t1 = t1  t2 = t2
  a1 = a1  a2 = a2  a3 = a3  a4 = a4
  None = None
  Calls = {c1, c2}
  Texts = {}
  Outgoing = {c2}
  Handleable = {}
  Accounts = {a1, a2, a3, a4}
  Account <- OneAccount
  Supported = {a1}
  MaxClaims = 1
  MaxKeys = 1
SPECIFICATION Spec
PROPERTY AnsweredOnItsOwn
\* Every call ends and nothing more is offered: the approver goes idle.
CHECK_DEADLOCK FALSE
