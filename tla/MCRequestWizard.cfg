SPECIFICATION Spec
CONSTANTS
    w1aw = w1aw
    k1x = k1x
    portable = portable
    bad = bad
    c1 = c1
    Calls = {w1aw, k1x, portable, bad}
    WellFormed = {w1aw, k1x, portable}
    OneByOnes = {k1x}
    Portables = {portable}
    Null = Null
    Entities = {0, 291, 81}
    USEntities = {291}
    EntityStart <- MCStart
    EntityEnd <- MCEnd
    BeginDates <- MCBegin
    EndDates <- MCEndDates
    Emails <- MCEmails
    Known <- MCKnown
    Stores <- MCStores
    Renewals <- MCRenewals
    ManyProviders = TRUE
    CertPwd = TRUE
    MaxEdits = 5
INVARIANTS
    AcceptedIsSound
    NothingRefused
    SignedBySelected
CHECK_DEADLOCK FALSE
