CONSTANTS
    a = a
    b = b
    c = c
    ea = ea
    eb = eb
    Founders = {a, b, c}
    home = home
    other = other
    Bases = {home, other}
    Beginnings <- FirstRows
    Emails = {ea, eb}
    NoEmail = none
    MaxRequests = 2
    MaxInFlight = 2
    MaxNow = 1
    MemberLimit = 2
    InviteLimit = 1
SPECIFICATION Spec
CHECK_DEADLOCK FALSE
PROPERTIES
    AcceptedInvitationMakesMember
