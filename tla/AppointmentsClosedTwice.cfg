\* A cancellation and a completion that both read the appointment CONFIRMED.
SPECIFICATION ApptSpec
CONSTANTS
    s1 = s1  s2 = s2   p1 = p1  p2 = p2  c1 = c1  c2 = c2
    r1 = r1  r2 = r2  r3 = r3  a1 = a1  a2 = a2  a3 = a3
    Slots = {s1, s2}
    Appts = {a1, a2, a3}
    Clients = {c1, c2}
    Prestataires = {p1, p2}
    Requests = {r1, r2}
    Null = Null
    Owner <- MCOwner
    InitSlots <- MCInitSlots
    Serves <- MCServes
    NoticeHours <- MCNotice
    TicksPerHour = 1
    TicksPerDay = 24
    AutoCompleteAge = 1
    MaxNow = 5
    MayCrash = FALSE
PROPERTY
    ClosedIsFinal
