----------------------------- MODULE OperatorUI -----------------------------
(***************************************************************************)
(* The page of the web console while a run is watched and acted on: the    *)
(* run view (run-view.js) and the panel of human actions (human-actions.js)*)
(* as two listeners of one document, their requests and the order answers  *)
(* come back in, over a server whose runs go on meanwhile.                 *)
(*                                                                         *)
(* A copy of a run is its row and the number of its events, read together. *)
(* The server numbers events itself (enumerate), so no copy has a gap in   *)
(* seq and the branches of acceptSequence for gaps are not reached.        *)
(***************************************************************************)
EXTENDS Integers, FiniteSets

CONSTANTS
    Created,        \* how many runs the form creates, one after the other
    LastRow,        \* for each run, the row by which it is over
    MaxAbandoned,   \* bound on answers under way to a run view that moved on
    MaxPanelGets    \* bound on GETs of the panel under way

Runs == 1 .. Created
Rows == UNION {0 .. LastRow[r] : r \in Runs}

ASSUME BoundsAssumption ==
    /\ Created \in Nat \ {0}
    /\ LastRow \in [Runs -> Nat]
    /\ MaxAbandoned \in Nat /\ MaxPanelGets \in Nat

VARIABLES
    server,     \* each run: its row, its events
    page,       \* visible, and the definition of the selected run's workflow
    view,       \* the run view: its variables, whether a reload is due (timeout),
                \* and what the copy shown has missed since (history)
    gets,       \* GETs of the view
    panel,      \* the copy the panel's controls are drawn from
    panelGets,  \* GETs of the panel
    act         \* the panel's action under way

vars == <<server, page, view, gets, panel, panelGets, act>>

NoCopy == [run |-> 0, row |-> 0, events |-> 0]
Copy(r) == [run |-> r, row |-> server[r].row, events |-> server[r].events]
IsOver(c) == c.run # 0 /\ c.row = LastRow[c.run]
IsWaiting(c) == ~IsOver(c) /\ c.row % 2 = 1

Idle == [pc |-> "idle", answer |-> "none", copy |-> NoCopy]

Init ==
    /\ server = [r \in Runs |-> [row |-> 0, events |-> 0]]
    /\ page = [visible |-> TRUE, cached |-> FALSE]
    /\ view = [selected |-> 0, shown |-> NoCopy, lastSeq |-> 0, resyncPending |-> FALSE,
               reload |-> FALSE, polling |-> FALSE, inFlight |-> FALSE, missed |-> "nothing"]
    /\ gets = {}
    /\ panel = NoCopy
    /\ panelGets = {}
    /\ act = Idle

-----------------------------------------------------------------------------
(* The server.  The engine writes a row and then its event; a decision and  *)
(* its event are one transaction.                                           *)

WorkerWrites(r) ==
    /\ ~IsOver(Copy(r)) /\ ~IsWaiting(Copy(r))
    /\ server' = [server EXCEPT ![r].row = @ + 1]
    /\ UNCHANGED <<page, view, gets, panel, panelGets, act>>

WorkerLogs(r) ==
    /\ server[r].events < server[r].row
    /\ server' = [server EXCEPT ![r].events = @ + 1]
    /\ UNCHANGED <<page, view, gets, panel, panelGets, act>>

Decided(r) == [server EXCEPT ![r].row = @ + 1, ![r].events = @ + 1]

(* Another client of the API decides.                                       *)
OthersDecide(r) ==
    /\ IsWaiting(Copy(r))
    /\ server' = Decided(r)
    /\ UNCHANGED <<page, view, gets, panel, panelGets, act>>

-----------------------------------------------------------------------------
(* The run view.                                                           *)

(* Faulty: a copy is shown whatever was shown before.                       *)
RenderAnyCopy(v, c) ==
    [v EXCEPT !.shown = c, !.lastSeq = c.events, !.resyncPending = FALSE,
              !.polling = ~IsOver(c) /\ page.visible, !.missed = "nothing"]

(* renderRun with acceptSequence, for the copy `c` and the view `v`.        *)
RenderRun(v, c) ==
    IF c.events >= v.lastSeq
    THEN [v EXCEPT !.shown = c, !.lastSeq = c.events, !.resyncPending = FALSE,
                   !.polling = ~IsOver(c) /\ page.visible, !.missed = "nothing"]
    ELSE IF v.resyncPending THEN v
    ELSE [v EXCEPT !.resyncPending = TRUE, !.reload = TRUE]

(* Faulty: whatever the panel publishes is shown.                           *)
UpdateAnyRun(v, c) == RenderRun(v, c)

(* updateRun: an event for another run is not for this view.                *)
UpdateRun(v, c) == IF c.run = v.selected THEN RenderRun(v, c) ELSE v

(* refreshRun, for the view `v`: not while a request is in flight.          *)
MayRefresh(v) == v.selected # 0 /\ ~v.inFlight
Refreshing(v) == [v EXCEPT !.inFlight = @ \/ MayRefresh(v)]
Requests(v, others) ==
    IF MayRefresh(v)
    THEN others \cup {[copy |-> [NoCopy EXCEPT !.run = v.selected], pc |-> "sent", current |-> TRUE]}
    ELSE others

RefreshRun(v) == view' = Refreshing(v) /\ gets' = Requests(v, gets)

(* A request belongs to the generation it was sent in.                      *)
Abandoned == {[g EXCEPT !.current = FALSE] : g \in gets}

(* A GET the panel sends for the run it shows.                              *)
PanelGet(r) == [copy |-> [NoCopy EXCEPT !.run = r], pc |-> "sent"]

(* The form created a run, or was given the one its key had created before: *)
(* both listeners of run:selected take the answer as it is and reload it.   *)
(* A success drops the key, so no run is selected twice.                    *)
SelectRun(c) ==
    /\ view.selected < Created /\ c.run = view.selected + 1
    /\ Cardinality(Abandoned) <= MaxAbandoned
    /\ Cardinality(panelGets) < MaxPanelGets
    /\ LET v == [view EXCEPT !.selected = c.run, !.shown = c, !.lastSeq = 0,
                             !.resyncPending = FALSE, !.polling = FALSE,
                             !.inFlight = FALSE, !.missed = "nothing"]
       IN  view' = Refreshing(v) /\ gets' = Requests(v, Abandoned)
    /\ page' = [page EXCEPT !.cached = FALSE]
    /\ panel' = c
    /\ panelGets' = panelGets \cup {PanelGet(c.run)}
    /\ UNCHANGED <<server, act>>

RunSelected ==
    \E r \in Runs : SelectRun([NoCopy EXCEPT !.run = r]) \/ SelectRun(Copy(r))

(* The interval, the timeout of a reload, the button.  A reload that meets  *)
(* a request in flight is dropped.                                          *)
Poll ==
    /\ view.polling
    /\ RefreshRun(view)
    /\ UNCHANGED <<server, page, panel, panelGets, act>>

Reload ==
    /\ view.reload
    /\ RefreshRun([view EXCEPT !.reload = FALSE,
                               !.missed = IF view.inFlight /\ @ = "nothing" THEN "reload" ELSE @])
    /\ UNCHANGED <<server, page, panel, panelGets, act>>

PressRefresh ==
    /\ MayRefresh(view)
    /\ RefreshRun(view)
    /\ UNCHANGED <<server, page, panel, panelGets, act>>

Hide ==
    /\ page.visible
    /\ page' = [page EXCEPT !.visible = FALSE]
    /\ view' = [view EXCEPT !.polling = FALSE]
    /\ UNCHANGED <<server, gets, panel, panelGets, act>>

(* Faulty: on its return the page waits for a poll.                         *)
ShowOnly ==
    /\ ~page.visible
    /\ page' = [page EXCEPT !.visible = TRUE]
    /\ UNCHANGED <<server, view, gets, panel, panelGets, act>>

Show ==
    /\ ~page.visible
    /\ page' = [page EXCEPT !.visible = TRUE]
    /\ RefreshRun(view)
    /\ UNCHANGED <<server, panel, panelGets, act>>

(* get_run, some time after the request and before its answer.              *)
Read(g) == [g EXCEPT !.copy = Copy(g.copy.run), !.pc = "answered"]

ServerReads(g) ==
    /\ g.pc = "sent"
    /\ gets' = (gets \ {g}) \cup {Read(g)}
    /\ UNCHANGED <<server, page, view, panel, panelGets, act>>

(* The panel's listener of run:updated: not for another run, and not while  *)
(* an action is under way.                                                  *)
PanelUpdated(c) == IF c.run = panel.run /\ act.pc = "idle" THEN c ELSE panel

(* The answer of a GET: run:updated goes to both listeners at once.  If the *)
(* definition of the workflow is not cached, the view waits for it and then *)
(* renders the same copy again.                                             *)
Arrives(g) ==
    /\ g.pc = "answered" /\ g.current /\ g.copy.run = view.selected
    /\ panel' = PanelUpdated(g.copy)
    /\ LET v == UpdateRun(view, g.copy)
       IN  IF page.cached
           THEN view' = [v EXCEPT !.inFlight = FALSE] /\ gets' = gets \ {g}
           ELSE view' = v /\ gets' = (gets \ {g}) \cup {[g EXCEPT !.pc = "definition"]}
    /\ UNCHANGED <<server, page, panelGets, act>>

(* The definition is loaded, or cannot be and is asked for again next time. *)
DefinitionArrives(g, loaded) ==
    /\ g.pc = "definition" /\ g.current /\ g.copy.run = view.selected
    /\ page' = [page EXCEPT !.cached = loaded]
    /\ view' = [RenderRun(view, g.copy) EXCEPT !.inFlight = FALSE]
    /\ gets' = gets \ {g}
    /\ UNCHANGED <<server, panel, panelGets, act>>

(* The answer of an earlier generation is dropped.                          *)
DropAnswer(g) ==
    /\ g.pc \in {"answered", "definition"} /\ ~g.current
    /\ gets' = gets \ {g}
    /\ UNCHANGED <<server, page, view, panel, panelGets, act>>

(* A GET fails: an error is shown, and polling goes on only if it had begun.*)
GetFails(g) ==
    /\ g.pc # "definition"
    /\ gets' = gets \ {g}
    /\ view' = IF g.current THEN [view EXCEPT !.inFlight = FALSE, !.missed = "answer"] ELSE view
    /\ UNCHANGED <<server, page, panel, panelGets, act>>

-----------------------------------------------------------------------------
(* The panel.                                                              *)

(* publish: the panel takes the answer; the view listens to run:updated.    *)
Publish(c) == panel' = c /\ view' = UpdateRun(view, c)

(* refresh: the button, a 409 of a bridge form, the end of an action.       *)
PanelRefresh ==
    /\ panel.run # 0
    /\ Cardinality(panelGets) < MaxPanelGets
    /\ panelGets' = panelGets \cup {PanelGet(panel.run)}
    /\ UNCHANGED <<server, page, view, gets, panel, act>>

ServerReadsForPanel(g) ==
    /\ g.pc = "sent"
    /\ panelGets' = (panelGets \ {g}) \cup {Read(g)}
    /\ UNCHANGED <<server, page, view, gets, panel, act>>

PanelGetArrives(g) ==
    /\ g.pc = "answered"
    /\ Publish(g.copy)
    /\ panelGets' = panelGets \ {g}
    /\ UNCHANGED <<server, page, gets, act>>

PanelGetFails(g) ==
    /\ panelGets' = panelGets \ {g}
    /\ UNCHANGED <<server, page, view, gets, panel, act>>

(* act, and submit of the Human Bridge: one at a time.                      *)
Act ==
    /\ act.pc = "idle" /\ panel.run # 0 /\ IsWaiting(panel)
    /\ act' = [Idle EXCEPT !.pc = "sent", !.copy.run = panel.run]
    /\ UNCHANGED <<server, page, view, gets, panel, panelGets>>

(* The server serves it: it decides and reads the run back, finds the run   *)
(* elsewhere (409), or finds the response invalid (422).                    *)
ServeAct ==
    /\ act.pc = "sent"
    /\ LET r == act.copy.run
       IN  \/ /\ IsWaiting(Copy(r))
              /\ server' = Decided(r)
              /\ act' = [act EXCEPT !.pc = "answered", !.answer = "decided",
                                    !.copy = [run |-> r, row |-> server'[r].row,
                                              events |-> server'[r].events]]
           \/ /\ ~IsWaiting(Copy(r))
              /\ act' = [act EXCEPT !.pc = "answered", !.answer = "conflict"]
              /\ UNCHANGED server
           \/ /\ IsWaiting(Copy(r))
              /\ act' = [act EXCEPT !.pc = "answered", !.answer = "invalid"]
              /\ UNCHANGED server
    /\ UNCHANGED <<page, view, gets, panel, panelGets>>

(* The connection breaks, before or after the server acted.                 *)
ActFails ==
    /\ act.pc \in {"sent", "answered"} /\ act.answer # "unknown"
    /\ act' = [act EXCEPT !.pc = "answered", !.answer = "unknown"]
    /\ UNCHANGED <<server, page, view, gets, panel, panelGets>>

ActSucceeds ==
    /\ act.pc = "answered" /\ act.answer = "decided"
    /\ Publish(act.copy)
    /\ act' = Idle
    /\ UNCHANGED <<server, page, gets, panelGets>>

(* After a conflict the panel reloads the run it shows now before it        *)
(* enables its controls, and after an unknown result unless it submitted a  *)
(* response; an invalid response is left to be corrected.                   *)
ActFailed ==
    /\ act.pc = "answered" /\ act.answer # "decided"
    /\ \/ /\ act.answer # "invalid"
          /\ act' = [Idle EXCEPT !.pc = "reload", !.copy.run = panel.run]
       \/ act.answer # "conflict" /\ act' = Idle
    /\ UNCHANGED <<server, page, view, gets, panel, panelGets>>

ActReloads ==
    \/ /\ act.pc = "reload"
       /\ act' = [Read(act) EXCEPT !.pc = "reloaded"]
       /\ UNCHANGED <<view, panel>>
    \/ /\ act.pc = "reloaded"
       /\ Publish(act.copy)
       /\ act' = Idle

EndAct ==
    /\ ActReloads
    /\ UNCHANGED <<server, page, gets, panelGets>>

ReloadFails ==
    /\ act.pc \in {"reload", "reloaded"}
    /\ act' = Idle
    /\ UNCHANGED <<server, page, view, gets, panel, panelGets>>

-----------------------------------------------------------------------------

Server == \E r \in Runs : WorkerWrites(r) \/ WorkerLogs(r) \/ OthersDecide(r)

Answers(g) ==
    \/ ServerReads(g) \/ Arrives(g) \/ DropAnswer(g)
    \/ \E loaded \in BOOLEAN : DefinitionArrives(g, loaded)

PanelAnswers(g) == ServerReadsForPanel(g) \/ PanelGetArrives(g)

ActAnswers == ServeAct \/ ActSucceeds \/ ActFailed \/ EndAct

User ==
    \/ RunSelected \/ PressRefresh \/ Hide \/ Show \/ PanelRefresh \/ Act

Faults ==
    \/ \E g \in gets : GetFails(g)
    \/ \E g \in panelGets : PanelGetFails(g)
    \/ ActFails \/ ReloadFails

Next ==
    \/ Server \/ User \/ Faults \/ Poll \/ Reload
    \/ \E g \in gets : Answers(g)
    \/ \E g \in panelGets : PanelAnswers(g)
    \/ ActAnswers

Spec == Init /\ [][Next]_vars

(* The view's requests are answered and its timers fire.  Nothing makes a   *)
(* worker go on, an operator act or the panel's requests end.               *)
FairSpec ==
    /\ Spec
    /\ WF_vars(\E g \in gets : Answers(g))
    /\ WF_vars(Poll) /\ WF_vars(Reload)

-----------------------------------------------------------------------------

TypeOK ==
    LET CopyType == [run : 0 .. Created, row : Rows, events : Rows] IN
    /\ server \in [Runs -> [row : Rows, events : Rows]]
    /\ page \in [visible : BOOLEAN, cached : BOOLEAN]
    /\ view \in [selected : 0 .. Created, shown : CopyType, lastSeq : Rows,
                 resyncPending : BOOLEAN, reload : BOOLEAN, polling : BOOLEAN,
                 inFlight : BOOLEAN, missed : {"nothing", "answer", "reload"}]
    /\ gets \subseteq [copy : CopyType, current : BOOLEAN,
                       pc : {"sent", "answered", "definition"}]
    /\ panel \in CopyType
    /\ panelGets \subseteq [copy : CopyType, pc : {"sent", "answered"}]
    /\ act \in [pc : {"idle", "sent", "answered", "reload", "reloaded"}, copy : CopyType,
                answer : {"none", "decided", "conflict", "invalid", "unknown"}]

(* The view shows the run that is selected, whatever answers to an earlier  *)
(* selection or to the panel come late (run-view.js generations, updateRun).*)
ShowsSelectedRun == view.shown.run = view.selected

(* While one run is selected the events it shows are never fewer than they  *)
(* were, in whatever order polls, reloads and actions are answered          *)
(* (run-view.js acceptSequence; API.md "Event sequence").                   *)
EventsNeverGoBack ==
    [][view'.selected = view.selected => view'.shown.events >= view.shown.events]_vars

(* A run that is over is in the end shown as over on a visible page, unless *)
(* another run is selected, a GET of the view failed or the reload of an    *)
(* inconsistent copy was dropped: the view stops polling for no other       *)
(* reason (startPolling, visibilitychange, refreshRun's flag in flight).    *)
OverIsShown ==
    \A r \in Runs :
        (view.selected = r /\ page.visible /\ IsOver(Copy(r)))
            ~> \/ IsOver(view.shown) \/ view.missed # "nothing"
               \/ ~page.visible \/ view.selected # r

(* What the documentation says: a visible page polls until the run is over, *)
(* and an inconsistent copy is reloaded (UI0.md, API.md).  The timeout of   *)
(* that reload finds the request that brought the copy still in flight      *)
(* while the definition loads, and nothing else may be polling.             *)
VisiblePageIsCurrent ==
    \A r \in Runs :
        (view.selected = r /\ page.visible /\ IsOver(Copy(r)))
            ~> \/ IsOver(view.shown) \/ view.missed = "answer"
               \/ ~page.visible \/ view.selected # r
=============================================================================
