\* One tenant, two plans, a request at the gate and the next, two PATCHes, an edit of a plan.
CONSTANTS
    t1 = t1
    pro = pro
    trial = trial
    estoque = estoque
    g1 = g1
    p1 = p1
    p2 = p2
    Tenants = {t1}
    Plans = {pro, trial}
    Modules = {estoque}
    Guards = {g1}
    Patches = {p1, p2}
    TTL = 2
    MaxEdits = 1
    None = None
SPECIFICATION Spec
INVARIANTS
    TypeOK
    StaleEntriesAreRaces
    SummaryTellsTheSubscription
PROPERTY GateCatchesUp
CHECK_DEADLOCK FALSE
