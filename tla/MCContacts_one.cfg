SPECIFICATION mcSpec
CONSTANTS
    u1 = u1
    u2 = u2
    alice = alice
    n1 = n1
    n2 = n2
    a = a
    aSip = aSip
    b = b
    x = x
    y = y
    None = None
    Nobody = Nobody
    Hidden = Hidden
    Empty = Empty
    NoCard = NoCard
    HiddenName = HiddenName
    UserList <- mcUserList
    SessionUser = u1
    Contacts = {alice}
    Numbers = {n1, n2}
    NumberOf <- mcNumberOf
    Changing = {"SilentMode", "MmsEnabled"}
    MaxMoves = 3
    Identifiers = {a, aSip, b}
    Normalized <- mcNormalized
    Cards = {x, y}
    MaxTurns = 5
INVARIANT MmsIsCurrent
INVARIANT ContactIsCurrent
INVARIANT StopsRinging
INVARIANT ShownIsOfIdentifier
PROPERTY OrdersAreServed
\* Nobody changes anything any more, and every order was served.
CHECK_DEADLOCK FALSE
