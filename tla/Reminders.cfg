\* Reminders and review requests: who is served, and how often.
SPECIFICATION Spec
CONSTANTS
    a1 = a1  a2 = a2  j1 = j1  j2 = j2
    Appts = {a1, a2}
    StartOf <- MCStartOf
    Runs = {j1, j2}
    Ahead = 4
    Horizon = 9
    MaxFaults = 1
    Null = Null
SYMMETRY MCSymmetry
INVARIANTS
    ServedInTime
    NoIdleDuplicate
    MarkedWasSent
CHECK_DEADLOCK FALSE
