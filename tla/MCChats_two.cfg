\* A conversation on two accounts, on each of which it is closed and opened again;
\* four people, two of them without a name, in a list that is filled a row at a time.
CONSTANTS
  irc = irc   xmpp = xmpp
  c1 = c1   c2 = c2   c3 = c3   r1 = r1   r2 = r2
  p = p   m1 = m1   m2 = m2   j1 = j1
  None = None
  Channels = {c1, c2, c3}
  AccountOf <- OnTwoAccounts
  RoomOf <- OfTwoRooms
  Contacts = {p}
  Messages = {m1, m2}
  ChannelOf <- InBoth
  Jobs = {j1}
  mAccountId = irc
  MaxRequests = 1
  e1 = e1   e2 = e2   NoEntry = NoEntry
  p1 = p1   p2 = p2   p3 = p3   p4 = p4   ann = ann   bob = bob   num = num
  Entries = {e1, e2}
  People = {p1, p2, p3, p4}
  Identifier <- mcIdentifier
  Letters = {ann, bob}
  Place <- mcPlace
  Page = 1
  MaxSets = 2
SPECIFICATION mcSpec
INVARIANT EntryHasItsChannels
INVARIANT ParticipantsAreMembers
INVARIANT ModelShowsEntry
PROPERTY JobsChannelArrives
PROPERTY AcksAreServed
CHECK_DEADLOCK FALSE
