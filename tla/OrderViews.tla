------------------------------ MODULE OrderViews ------------------------------
(***************************************************************************)
(* Who watches the status of an order while PATCHes change it: the panel   *)
(* of the pizzeria (OrdersPanel.tsx) and the tracking screen of the        *)
(* customer (OrderConfirmation.tsx).  Both poll every 10 seconds without   *)
(* waiting for the previous answer, so answers are read at the server one  *)
(* after the other and may arrive in another order, or never.              *)
(*                                                                         *)
(* The panel polls for as long as it is mounted and also shows what its    *)
(* own PATCH returned; the tracking screen stops polling when it sees a    *)
(* final status.  Both were opened on a pending order.                     *)
(***************************************************************************)
EXTENDS OrderStatus

CONSTANTS
    PanelPatches,   \* the PATCHes the panel sends; the others come from elsewhere
    Tracked,        \* the order the customer follows
    Polls,          \* bound: polls of one screen in flight at a time
    None

ASSUME ScreensAssumption == PanelPatches \subseteq Patches /\ Tracked \in Orders
ASSUME NoneAssumption == None \notin OrderStatuses \cup [Orders -> OrderStatuses]

VARIABLES
    panel,          \* the status the panel shows for each order
    updating,       \* updatingId: the order whose button is disabled
    asked,          \* the status each panel PATCH asks for, once it is sent
    answered,       \* panel PATCHes whose answer (or error) arrived
    panelPoll,      \* answers of GET /orders on their way, per poll
    shown,          \* the status the tracking screen shows
    interval,       \* the tracking screen still polls
    trackPoll       \* answers of GET /orders/:id on their way, per poll

panelVars == <<panel, updating, asked, answered, panelPoll>>
trackVars == <<shown, interval, trackPoll>>
allVars == <<vars, panelVars, trackVars>>

ViewsInit ==
    /\ Init
    /\ panel = [o \in Orders |-> "pending"]
    /\ updating = None
    /\ asked = [p \in PanelPatches |-> None]
    /\ answered = {}
    /\ panelPoll = [i \in Polls |-> None]
    /\ shown = "pending"
    /\ interval = TRUE
    /\ trackPoll = [i \in Polls |-> None]

\* statusConfig[...].next: the one button a card offers.
NextOf(s) ==
    CASE s = "pending"   -> "preparing"
      [] s = "preparing" -> "delivery"
      [] s = "delivery"  -> "completed"
      [] OTHER           -> None

-----------------------------------------------------------------------------
\* Mutant of HandleAdvance: the card changes before the server answers.
HandleAdvanceOptimistic(p) ==
    LET o == target[p] IN
    /\ asked[p] = None
    /\ updating # o
    /\ NextOf(panel[o]) # None
    /\ asked' = [asked EXCEPT ![p] = NextOf(panel[o])]
    /\ updating' = o
    /\ panel' = [panel EXCEPT ![o] = NextOf(@)]
    /\ UNCHANGED <<vars, answered, panelPoll, trackVars>>

\* handleAdvance: the click sends a PATCH with the next status of the card.
HandleAdvance(p) ==
    LET o == target[p] IN
    /\ asked[p] = None
    /\ updating # o
    /\ NextOf(panel[o]) # None
    /\ asked' = [asked EXCEPT ![p] = NextOf(panel[o])]
    /\ updating' = o
    /\ UNCHANGED <<vars, panel, answered, panelPoll, trackVars>>

\* The API starts to handle a PATCH of the panel.
PanelPatch(p) ==
    /\ asked[p] # None
    /\ ReadAndCheck(p, asked[p])
    /\ UNCHANGED <<panelVars, trackVars>>

\* The answer of the PATCH replaces the order in the list.  An error leaves the
\* list: the answer of the API, or of the network, which says nothing of the PATCH.
AdvanceAnswered(p) ==
    /\ asked[p] # None
    /\ p \notin answered
    /\ \/ /\ stage[p] = "done"
          /\ panel' = [panel EXCEPT ![target[p]] = change[p].to]
       \/ UNCHANGED panel
    /\ updating' = None
    /\ answered' = answered \cup {p}
    /\ UNCHANGED <<vars, asked, panelPoll, trackVars>>

\* Mutant of PanelPollRead: the panel, too, stops polling on final statuses.
PanelPollReadUntilFinal(i) ==
    /\ panelPoll[i] = None
    /\ \E o \in Orders : panel[o] \notin FinalStatuses
    /\ panelPoll' = [panelPoll EXCEPT ![i] = status]
    /\ UNCHANGED <<vars, panel, updating, asked, answered, trackVars>>

\* poll(): GET /orders reads the committed orders of the day.
PanelPollRead(i) ==
    /\ panelPoll[i] = None
    /\ panelPoll' = [panelPoll EXCEPT ![i] = status]
    /\ UNCHANGED <<vars, panel, updating, asked, answered, trackVars>>

\* setOrders(res): the answer replaces the whole list, whatever it shows.
PanelPollArrives(i) ==
    /\ panelPoll[i] # None
    /\ panel' = panelPoll[i]
    /\ panelPoll' = [panelPoll EXCEPT ![i] = None]
    /\ UNCHANGED <<vars, updating, asked, answered, trackVars>>

\* Mutant of PanelPollFails: a failed poll empties the list.
PanelPollFailsEmpty(i) ==
    /\ panelPoll[i] # None
    /\ panel' = <<>>
    /\ panelPoll' = [panelPoll EXCEPT ![i] = None]
    /\ UNCHANGED <<vars, updating, asked, answered, trackVars>>

\* .catch(() => undefined): the list stays as it is.
PanelPollFails(i) ==
    /\ panelPoll[i] # None
    /\ panelPoll' = [panelPoll EXCEPT ![i] = None]
    /\ UNCHANGED <<vars, panel, updating, asked, answered, trackVars>>

-----------------------------------------------------------------------------
TrackPollRead(i) ==
    /\ interval
    /\ trackPoll[i] = None
    /\ trackPoll' = [trackPoll EXCEPT ![i] = status[Tracked]]
    /\ UNCHANGED <<vars, panelVars, shown, interval>>

\* setStatus(fresh.status), then clearInterval when it is final.
TrackPollArrives(i) ==
    /\ trackPoll[i] # None
    /\ shown' = trackPoll[i]
    /\ interval' = (interval /\ trackPoll[i] \notin FinalStatuses)
    /\ trackPoll' = [trackPoll EXCEPT ![i] = None]
    /\ UNCHANGED <<vars, panelVars>>

TrackPollFails(i) ==
    /\ trackPoll[i] # None
    /\ trackPoll' = [trackPoll EXCEPT ![i] = None]
    /\ UNCHANGED <<vars, panelVars, shown, interval>>

-----------------------------------------------------------------------------
\* A PATCH of another member of the staff, with any status in its body.
OtherPatch(p) ==
    /\ p \notin PanelPatches
    /\ \E next \in OrderStatuses : ReadAndCheck(p, next)
    /\ UNCHANGED <<panelVars, trackVars>>

Server(p) == (Handle(p) \/ Rollback(p)) /\ UNCHANGED <<panelVars, trackVars>>

ViewsNext ==
    \/ \E p \in PanelPatches : HandleAdvance(p) \/ PanelPatch(p) \/ AdvanceAnswered(p)
    \/ \E p \in Patches : OtherPatch(p) \/ Server(p)
    \/ \E i \in Polls :
            \/ PanelPollRead(i) \/ PanelPollArrives(i) \/ PanelPollFails(i)
            \/ TrackPollRead(i) \/ TrackPollArrives(i) \/ TrackPollFails(i)

\* setInterval fires for ever while the screen is mounted and the network does
\* not lose every answer; transactions and their answers are driven to the end.
ViewsFairness ==
    /\ \A p \in Patches : WF_allVars(Handle(p) /\ UNCHANGED <<panelVars, trackVars>>)
    /\ \A p \in PanelPatches : WF_allVars(PanelPatch(p)) /\ WF_allVars(AdvanceAnswered(p))
    /\ \A i \in Polls :
        /\ WF_allVars(PanelPollRead(i)) /\ SF_allVars(PanelPollArrives(i))
        /\ WF_allVars(TrackPollRead(i)) /\ SF_allVars(TrackPollArrives(i))

ViewsSpec == ViewsInit /\ [][ViewsNext]_allVars /\ ViewsFairness

-----------------------------------------------------------------------------
ViewsTypeOK ==
    /\ TypeOK
    /\ panel \in [Orders -> OrderStatuses]
    /\ updating \in Orders \cup {None}
    /\ asked \in [PanelPatches -> OrderStatuses \cup {None}]
    /\ answered \subseteq PanelPatches
    /\ panelPoll \in [Polls -> [Orders -> OrderStatuses] \cup {None}]
    /\ shown \in OrderStatuses
    /\ interval \in BOOLEAN
    /\ trackPoll \in [Polls -> OrderStatuses \cup {None}]

\* Status s is one order o has had.
Had(o, s) == \E i \in 1 .. Len(audit[o]) + 1 : History(o)[i] = s

\* No screen ever shows a status the order never had: not one of a PATCH that
\* was refused or rolled back, not one still uncommitted.
ScreensShowWhatHappened ==
    (\A o \in Orders : Had(o, panel[o])) /\ Had(Tracked, shown)

\* However its polls and the answers of its own PATCHes overtake each other, the
\* panel ends up showing the real status of every order.
PanelCatchesUp == <>[](panel = status)

-----------------------------------------------------------------------------
\* "O polling PARA sozinho assim que o pedido chega em estado final": a tracking
\* screen that polls no more and expects no answer shows a final status.
TrackingStopsOnFinalStatus ==
    ~interval /\ (\A i \in Polls : trackPoll[i] = None) => shown \in FinalStatuses

=============================================================================
