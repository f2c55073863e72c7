\* One call: what is left of it when it ends.
CONSTANTS
  c1 = c1  c2 = c2  t1 = t1  t2 = t2
  a1 = a1  a2 = a2  a3 = a3  a4 = a4
  None = None
  Calls = {c1}
  Texts = {}
  Outgoing = {}
  Handleable = {}
  Accounts = {a1, a2, a3, a4}
  Account <- SecondSim
  Supported = {a1, a2}
  MaxClaims = 1
  MaxKeys = 1
SPECIFICATION Spec
PROPERTY EndedDropsOperations
\* Every call ends and nothing more is offered: the approver goes idle.
CHECK_DEADLOCK FALSE
