\* Two polls of the tracking screen answered in the other order.
CONSTANTS
    o1 = o1
    p1 = p1
    p2 = p2
    p3 = p3
    Orders = {o1}
    Patches = {p1}
    PanelPatches = {}
    Tracked = o1
    Polls = {1, 2}
    None = None
SPECIFICATION ViewsSpec
INVARIANT TrackingStopsOnFinalStatus
