\* Accounts, sessions, profiles, decisions and search: safety.
SPECIFICATION Spec
SYMMETRY MCSymmetry
CONSTANTS
    p = p  i1 = i1  i2 = i2  pmail = pmail  nmail = nmail
    s1 = s1  s2 = s2  t1 = t1  t2 = t2  t3 = t3  a1 = a1  a2 = a2
    e1 = e1  e2 = e2  g1 = g1  g2 = g2  l1 = l1
    Ids = {p, i1, i2}
    Emails = {pmail, nmail}
    AdminEmail = nmail
    Services = {s1, s2}
    Owner <- MCOwner
    KnownRole <- MCKnownRole
    KnownEmail <- MCKnownEmail
    KnownServices = {s1}
    KnownSession <- MCKnownSession
    Tokens = {t1, t2, t3}
    Signups = {g1, g2}
    Auths = {a1, a2}
    Edits = {e1, e2}
    EditCalls <- MCEditCalls
    Ttl <- MCTtl
    Lookups = {l1}
    MaxTook = 1
    MaxCalls = 3
    NoOne = NoOne
INVARIANTS
    TypeOK
    SerialUnlessOverlapped
    ResetRevokesRefresh
    HalfDoneOnlyByFailure
    AnswersAreRecent
CHECK_DEADLOCK FALSE
