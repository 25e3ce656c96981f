\* SlotsService with its requests one at a time.
SPECIFICATION CalendarSpec
CONSTANTS
    p1 = p1
    Slots = {s1, s2, s3}
    Appts = {}
    Clients = {}
    Prestataires = {p1}
    Requests = {}
    SlotRequests = {q1}
    SlotOps = {"create", "update", "delete", "block"}
    Intervals <- MCIntervals
    Null = Null
    Owner <- MCOwner
    InitSlots <- MCInitSlots
    TicksPerHour = 1
    TicksPerDay = 4
    MaxNow = 4
SYMMETRY MCSymmetry
INVARIANT
    GeneratedDayFits
PROPERTY
    OverlapOnlyFromBlocked
CHECK_DEADLOCK FALSE
