\* One text message with a contact to look up, one without, which may
\* come without a sender, a class 0 message and a
\* group; three missed calls.
CONSTANTS
  sms = sms  chat = chat  flash = flash  group = group
  Messages = {sms, chat, flash}
  Flash = {flash}
  Quiet = {}
  Direct = {chat}
  Anonymous = {chat}
  Groups = {group}
  MaxEvents = 1
  c1 = c1  c2 = c2  c3 = c3
  local = local  full = full  private = private  sim1 = sim1
  Calls = {c1, c2, c3}
  Callers = {local, full, private}
  Accounts = {sim1}
  Call <- mcCall
  Person <- mcPerson
  Hidden = {private}
  MaxChanges = 2
SPECIFICATION mcSpec
INVARIANT ReadLeavesMenu
INVARIANT MissedAreCounted
PROPERTY NotifiedWasUnread
PROPERTY UnreadIsAnnounced
\* Everything was read and dismissed.
CHECK_DEADLOCK FALSE
