\* A member of the staff and the owner: four requests, two updates of the staff.
CONSTANTS
    ana = ana
    dono = dono
    r1 = r1
    r2 = r2
    r3 = r3
    r4 = r4
    u1 = u1
    u2 = u2
    Accounts = {ana, dono}
    Staff = {ana}
    Requests = {r1, r2, r3, r4}
    Updates = {u1, u2}
    None = None
SPECIFICATION Spec
SYMMETRY Interchangeable
INVARIANTS
    TypeOK
    OneLiveTokenPerFamily
    OnlyRacingSessionsSurvive
CHECK_DEADLOCK FALSE
