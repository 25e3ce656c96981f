\* Bookings against the prestataire's slot operations: one appointment
\* request, two slot requests.
SPECIFICATION Spec
CONSTANTS
    s1 = s1  s2 = s2  p1 = p1  c1 = c1  r1 = r1  r2 = r2
    q1 = q1  q2 = q2  a1 = a1  a2 = a2
    Slots = {s1}
    Appts = {a1, a2}
    Clients = {c1}
    Prestataires = {p1}
    Requests = {r1}
    SlotRequests = {q1, q2}
    SlotOps = {"create", "update", "delete", "block"}
    Intervals <- MCIntervals
    Null = Null
    Owner <- MCOwner
    InitSlots <- MCInitSlots
    Serves <- MCServes
    NoticeHours = {0}
    TicksPerHour = 1
    TicksPerDay = 24
    AutoCompleteAge = 0
    MaxNow = 1
    MayCrash = TRUE
SYMMETRY MCSymmetry
INVARIANTS
    TypeOK
    UnracedBookingHoldsSlot
    SlotStillAvailable
PROPERTIES
    SaleRefined
