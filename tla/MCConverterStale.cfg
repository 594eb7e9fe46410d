SPECIFICATION Spec
CONSTANTS
    A = A
    B = B
    q1 = q1
    q2 = q2
    q3 = q3
    g4 = g4
    g6 = g6
    z1 = z1
    z0 = z0
    z9 = z9
    i1 = i1
    i2 = i2
    None = None
    Calls = {A, B}
    Dates = {1, 2}
    Qsos = {q1, q2, q3}
    Grids = {g4, g6}
    Zones = {z1, z0, z9}
    Iotas = {i1, i2}
    Coarser <- MCCoarser
    ZeroZone = z0
    Items = {z1}
    Certs <- MCCerts
    Logs <- MCLogs
    Locations <- MCLocations
    Recorded <- MCRecorded
    OldEntries <- MCOldEntries
    UidSpan = 16
INVARIANT
    ContactMatchesStation
CHECK_DEADLOCK FALSE
