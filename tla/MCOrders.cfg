\* A request, its retry and a rival order of the same shop over two days.
CONSTANTS
    t1 = t1
    t2 = t2
    k1 = k1
    k2 = k2
    Tenants = {t1}
    Keys = {k1, k2}
    Requests <- RetryAndRival
    MaxDay = 2
    NoOrder = NoOrder
    Error = Error
SPECIFICATION Spec
INVARIANTS
    TypeOK
    OneOrderPerKey
    GaplessCodes
    SameKeySameReply
    CollisionFindsTheOrder
PROPERTIES
    ImplementsOrderBook
    EveryRequestIsAnswered
