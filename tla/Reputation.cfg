\* Reviews and badges: safety.
SPECIFICATION Spec
CONSTANTS
    a1 = a1  a2 = a2  p1 = p1  r1 = r1  r2 = r2  j1 = j1  j2 = j2
    Appts = {a1, a2}
    Prestataires = {p1}
    Performer <- MCPerformer
    Ratings = {1, 5}
    MaxEdits = 1
    Requests = {r1, r2}
    Calls <- MCCalls
    Jobs = {j1, j2}
    AtOnce = 2
    TypeOrder <- MCTypeOrder
    MinReviews = 2
    MinRating = 450
    Lifetime = 1
    Null = Null
SYMMETRY MCSymmetry
INVARIANTS
    TypeOK
    RatingWasDeserved
    AverageBetween
    TopRatedOnceDeserved
    AwardedOnce
PROPERTIES
    ChangeIsRecalculated
CHECK_DEADLOCK FALSE
