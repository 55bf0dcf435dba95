\* The list: two tenants on pages of one, four GETs a visit, two PATCHes.  The form: two
\* pizzerias, two plans of which one is offered, two submissions.  The plans: one
\* code and two contents, two calls.  The sales: two pizzerias, two roles, five GETs.
CONSTANTS
    t1 = t1
    t2 = t2
    pro = pro
    trial = trial
    k1 = k1
    k2 = k2
    s1 = s1
    s2 = s2
    e1 = e1
    e2 = e2
    x = x
    y = y
    Tenants = {t1, t2}
    Matching = {t2}
    PageSize = 1
    MaxAsks = 4
    Toggles = {k1, k2}
    Pizzerias = {t1, t2}
    PlanList <- MCPlanList
    Offered = {trial}
    Saves = {s1, s2}
    Codes = {pro}
    Contents = {x, y}
    PlanEdits = {e1, e2}
    None = None
    NoPlan = NoPlan
    staff = staff
    customers = customers
    Shops = {t1, t2}
    Roles = {staff, customers}
    UserPages <- MCUserPages
    MaxQueries = 5
    Nil = Nil
SPECIFICATION MCSpec
SYMMETRY CallSymmetry
INVARIANTS
    AdminTypeOK
    ListAnswersTheQuestion
    ScreensSettle
PROPERTIES
    KnownPlansAreKept
    EditsKeepTheOffer
CHECK_DEADLOCK FALSE
