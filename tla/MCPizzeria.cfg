\* Two calls, PATCHes or runs of each part at a time; one item of at most two;
\* one member and one permission; one expense, 7 or 30 days old, and two choices of a period;
\* one reader of the public page; one event, two tenants in batches of one;
\* four links to one address, two operations at a time.
CONSTANTS
    k1 = k1
    k2 = k2
    i1 = i1
    m1 = m1
    g = g
    e1 = e1
    r1 = r1
    t1 = t1
    t2 = t2
    Items = {i1}
    MaxQuantity = 2
    StockCalls = {k1, k2}
    Gone = Gone
    Members = {m1}
    Gated = {g}
    TeamCalls = {k1, k2}
    Nobody = Nobody
    ExpenseIds = {e1}
    Ages = {7, 30}
    Periods = {7, 30}
    MaxChoices = 2
    ExpenseCalls = {k1, k2}
    Unset = Unset
    Patches = {k1, k2}
    Readers = {r1}
    Unsaid = Unsaid
    Events = {e1}
    Tenants = {t1, t2}
    Platform = Platform
    Concurrency = 1
    Jobs = {k1, k2}
    Off = Off
    Operations = {k1, k2}
    MaxLinks = 4
SPECIFICATION MCSpec
SYMMETRY CallSymmetry
INVARIANTS
    PizzeriaTypeOK
    StockSettles
    GrantsWereInThePlan
    ListIsOfOnePeriod
    StoreIsToldAsItIs
    EventsAreKeptOnce
    LinksWorkAsTold
CHECK_DEADLOCK FALSE
