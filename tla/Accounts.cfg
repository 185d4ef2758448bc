CONSTANTS
    a = a
    b = b
    c = c
    ea = ea
    eb = eb
    Founders = {a, b, c}
    home = home
    other = other
    Bases = {home, other}
    Beginnings <- FirstRows
    Emails = {ea, eb}
    NoEmail = none
    MaxRequests = 3
    MaxInFlight = 2
    MaxNow = 1
    MemberLimit = 2
    InviteLimit = 1
SPECIFICATION Spec
SYMMETRY Symmetry
CHECK_DEADLOCK FALSE
INVARIANTS
    TypeOK
    EmailHeldOnce
    MembersWithinLimit
PROPERTIES
    LinksWorkOnce
    JoinsByInvitation
    ManagersKeepAnOwner
