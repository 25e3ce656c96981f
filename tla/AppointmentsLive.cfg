\* Liveness of AppointmentsService: three requests about one slot, without
\* crashes: a crash between a COMMIT and its event loses the event for good.
SPECIFICATION ApptFairSpec
CONSTANTS
    s1 = s1  s2 = s2   p1 = p1  p2 = p2  c1 = c1  c2 = c2
    r1 = r1  r2 = r2  r3 = r3  a1 = a1  a2 = a2  a3 = a3
    Slots = {s1}
    Appts = {a1}
    Clients = {c1, c2}
    Prestataires = {p1}
    Requests = {r1, r2, r3}
    Null = Null
    Owner <- MCOneOwner
    InitSlots <- MCOneSlot
    Serves <- MCServesThree
    NoticeHours <- MCNotice
    TicksPerHour = 1
    TicksPerDay = 24
    AutoCompleteAge = 1
    MaxNow = 6
    MayCrash = FALSE
PROPERTIES
    RequestsFinish
    BookingsAnnounced
    AppointmentsClose
