\* A PATCH of the panel and one of another member of the staff on one order, two
\* polls of each screen in flight.
CONSTANTS
    o1 = o1
    p1 = p1
    p2 = p2
    p3 = p3
    Orders = {o1}
    Patches = {p1, p2}
    PanelPatches = {p1}
    Tracked = o1
    Polls = {1, 2}
    None = None
SPECIFICATION ViewsSpec
INVARIANTS
    LogTellsTheStatus
    LoggedChangesWereLegal
    ViewsTypeOK
    ScreensShowWhatHappened
PROPERTIES
    EveryPatchEnds
    PanelCatchesUp
