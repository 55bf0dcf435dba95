\* One member of the staff: a login, a refresh, a deactivation.
CONSTANTS
    ana = ana
    dono = dono
    r1 = r1
    r2 = r2
    r3 = r3
    r4 = r4
    u1 = u1
    u2 = u2
    Accounts = {ana}
    Staff = {ana}
    Requests = {r1, r2}
    Updates = {u1}
    None = None
SPECIFICATION Spec
PROPERTY NeverReissuedToInactive
CHECK_DEADLOCK FALSE
