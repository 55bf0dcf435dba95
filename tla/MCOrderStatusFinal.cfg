\* Two PATCHes that read the same status of one order.
CONSTANTS
    o1 = o1
    o2 = o2
    p1 = p1
    p2 = p2
    p3 = p3
    Orders = {o1}
    Patches = {p1, p2}
SPECIFICATION Spec
INVARIANT FinalStatusIsFinal
CHECK_DEADLOCK FALSE
