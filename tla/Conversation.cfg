\* Messages, notifications, mails and sockets: safety.
SPECIFICATION Spec
CONSTANTS
    a1 = a1  a2 = a2  a3 = a3  c = c  p = p  s1 = s1  s2 = s2  r1 = r1  r2 = r2
    m1 = m1  m2 = m2  x1 = x1  x2 = x2
    Appts = {a1, a2, a3}
    Client <- MCClient
    Provider <- MCProvider
    Sockets = {s1, s2}
    UserOf <- MCUserOf
    Cancels = {x1, x2}
    Messages = {m1, m2}
    Requests = {r1, r2}
    Calls <- MCCalls
    KnownStatus <- MCStatus
    MaxCalls = 4
    Null = Null
SYMMETRY MCSymmetry
INVARIANTS
    TypeOK
    PresenceAgrees
    OtherPartyTold
    ReadStays
    CountIsPlausible
PROPERTIES
    DeliveryRefined
CHECK_DEADLOCK FALSE
