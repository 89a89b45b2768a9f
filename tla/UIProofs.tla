------------------------------- MODULE UIProofs -------------------------------
(***************************************************************************)
(* What the page shows, for any number of runs, rows and answers under     *)
(* way.  A run is selected once, so whatever copy of it is still to arrive *)
(* was read after it was selected: it has the events shown then, although  *)
(* the selection sets lastSeq to zero.                                     *)
(***************************************************************************)
EXTENDS OperatorUI, TLAPS

Copies == [run : 0 .. Created, row : Nat, events : Nat]
Views == [selected : 0 .. Created, shown : Copies, lastSeq : Nat, resyncPending : BOOLEAN,
          reload : BOOLEAN, polling : BOOLEAN, inFlight : BOOLEAN,
          missed : {"nothing", "answer", "reload"}]
Gets == [copy : Copies, pc : {"sent", "answered", "definition"}, current : BOOLEAN]
PanelGets == [copy : Copies, pc : {"sent", "answered"}]
Acts == [pc : {"idle", "sent", "answered", "reload", "reloaded"},
         answer : {"none", "decided", "conflict", "invalid", "unknown"}, copy : Copies]

Typed ==
    /\ server \in [Runs -> [row : Nat, events : Nat]]
    /\ page \in [visible : BOOLEAN, cached : BOOLEAN]
    /\ view \in Views
    /\ gets \subseteq Gets
    /\ panel \in Copies
    /\ panelGets \subseteq PanelGets
    /\ act \in Acts

(* Requests name runs selected so far.                                      *)
Requested ==
    /\ \A g \in gets : g.copy.run \in 1 .. view.selected
    /\ \A g \in panelGets : g.copy.run \in 1 .. view.selected
    /\ panel.run \in 0 .. view.selected
    /\ act.pc # "idle" => act.copy.run \in 1 .. view.selected /\ panel.run # 0

(* The copies on their way to the page.                                     *)
InGets(c) == \E g \in gets : g.pc # "sent" /\ g.copy = c
InPanelGets(c) == \E g \in panelGets : g.pc # "sent" /\ g.copy = c
InAct(c) == /\ act.copy = c
            /\ act.pc = "reloaded" \/ (act.pc = "answered" /\ act.answer = "decided")
OnItsWay(c) == InGets(c) \/ InPanelGets(c) \/ InAct(c)

(* The server has what is shown or on its way, and what is on its way has   *)
(* what the selection showed.                                               *)
NoOlder ==
    /\ view.lastSeq = view.shown.events \/ view.lastSeq = 0
    /\ view.selected # 0 => view.shown.events <= server[view.selected].events
    /\ \A c \in Copies : OnItsWay(c) =>
         /\ c.events <= server[c.run].events
         /\ c.run = view.selected /\ view.lastSeq # view.shown.events
              => c.events >= view.shown.events

UIInv == Typed /\ Requested /\ ShowsSelectedRun /\ NoOlder

-----------------------------------------------------------------------------
(* The view.                                                               *)

(* A view that shows the selected run and has not lost an event.            *)
Advances(v) ==
    /\ v \in Views /\ v.selected = view.selected /\ v.shown.run = v.selected
    /\ v.shown.events >= view.shown.events
    /\ v.lastSeq = v.shown.events \/ v.lastSeq = 0
    /\ v.selected # 0 => v.shown.events <= server[v.selected].events
    /\ v.lastSeq # v.shown.events => v.shown = view.shown /\ v.lastSeq = view.lastSeq

LEMMA SameAdvances ==
    ASSUME UIInv, NEW v \in Views, v.selected = view.selected, v.shown = view.shown,
           v.lastSeq = view.lastSeq
    PROVE  Advances(v)
BY DEF UIInv, Typed, NoOlder, ShowsSelectedRun, Advances, Views, Copies

LEMMA CopyTyped ==
    ASSUME Typed, NEW r \in Runs
    PROVE  /\ Copy(r) \in Copies /\ Copy(r).run = r /\ Copy(r).row = server[r].row
           /\ Copy(r).events = server[r].events
BY BoundsAssumption DEF Typed, Copy, Copies, Runs

LEMMA RenderTyped ==
    ASSUME NEW v \in Views, NEW c \in Copies, page.visible \in BOOLEAN
    PROVE  /\ RenderRun(v, c) \in Views
           /\ RenderRun(v, c).selected = v.selected
           /\ IF c.events >= v.lastSeq
              THEN RenderRun(v, c).shown = c /\ RenderRun(v, c).lastSeq = c.events
              ELSE RenderRun(v, c).shown = v.shown /\ RenderRun(v, c).lastSeq = v.lastSeq
<1> DEFINE polling == ~IsOver(c) /\ page.visible
<1>1. polling \in BOOLEAN /\ c.events \in Nat
    BY DEF Copies
<1> HIDE DEF polling
<1>2. CASE c.events >= v.lastSeq
  <2>1. RenderRun(v, c) = [v EXCEPT !.shown = c, !.lastSeq = c.events, !.resyncPending = FALSE,
                                    !.polling = polling, !.missed = "nothing"]
      BY <1>2 DEF RenderRun, polling
  <2>2. QED
      BY <1>1, <1>2, <2>1 DEF Views
<1>3. CASE ~(c.events >= v.lastSeq)
    BY <1>3 DEF RenderRun, Views
<1>4. QED
    BY <1>2, <1>3

(* acceptSequence: a copy on its way is rendered, or is older than what is  *)
(* shown and is not.                                                        *)
LEMMA RenderAdvances ==
    ASSUME UIInv, NEW c \in Copies, OnItsWay(c), c.run = view.selected
    PROVE  Advances(RenderRun(view, c))
<1>1. /\ view \in Views /\ page.visible \in BOOLEAN /\ view.shown \in Copies
      /\ view.lastSeq \in Nat /\ view.shown.events \in Nat /\ c.events \in Nat
    BY DEF UIInv, Typed, Views, Copies
<1> DEFINE v == RenderRun(view, c)
<1>2. /\ v \in Views /\ v.selected = view.selected
      /\ IF c.events >= view.lastSeq THEN v.shown = c /\ v.lastSeq = c.events
         ELSE v.shown = view.shown /\ v.lastSeq = view.lastSeq
    BY <1>1, RenderTyped
<1> HIDE DEF v
<1>3. CASE c.events >= view.lastSeq
  <2>1. c.events >= view.shown.events
      BY <1>1, <1>3 DEF UIInv, NoOlder
  <2>2. QED
      BY <1>1, <1>2, <1>3, <2>1 DEF UIInv, NoOlder, Advances, v
<1>4. CASE ~(c.events >= view.lastSeq)
    BY <1>2, <1>4, SameAdvances DEF v
<1>5. QED
    BY <1>3, <1>4

LEMMA UpdateAdvances ==
    ASSUME UIInv, NEW c \in Copies, OnItsWay(c)
    PROVE  Advances(UpdateRun(view, c))
<1>1. view \in Views
    BY DEF UIInv, Typed
<1>2. QED
    BY <1>1, RenderAdvances, SameAdvances DEF UpdateRun

(* What a step owes for the invariant to go on.                             *)
NothingNew == \A c \in Copies : OnItsWay(c)' => OnItsWay(c)
OnlyRead ==
    \A c \in Copies : OnItsWay(c)' =>
        OnItsWay(c) \/ (c.run \in Runs /\ c.events = server'[c.run].events)
Kept == UIInv' /\ (view'.selected = view.selected => view'.shown.events >= view.shown.events)

LEMMA StepKeeps ==
    ASSUME UIInv, Typed', Requested', Advances(view'),
           \A r \in Runs : server[r].events <= server'[r].events, OnlyRead
    PROVE  Kept
<1>1. /\ server \in [Runs -> [row : Nat, events : Nat]]
      /\ server' \in [Runs -> [row : Nat, events : Nat]]
      /\ view \in Views /\ view' \in Views /\ view'.shown \in Copies /\ view.shown \in Copies
      /\ view'.shown.events \in Nat /\ view.shown.events \in Nat
    BY DEF UIInv, Typed, Views, Copies
<1>2. \A r \in Runs : server[r].events \in Nat /\ server'[r].events \in Nat
    BY <1>1
<1>3. view'.selected # 0 => view'.selected \in Runs
    BY <1>1, BoundsAssumption DEF Views, Runs
<1>4. view'.selected # 0 => view'.shown.events <= server'[view'.selected].events
    BY <1>1, <1>2, <1>3 DEF Advances
<1>5. ASSUME NEW c \in Copies, OnItsWay(c)'
      PROVE  /\ c.events <= server'[c.run].events
             /\ c.run = view'.selected /\ view'.lastSeq # view'.shown.events
                  => c.events >= view'.shown.events
  <2>1. c.events \in Nat /\ c.run \in 0 .. Created
      BY DEF Copies
  <2>2. CASE OnItsWay(c)
    <3>1. c.run \in Runs
      <4>1. c.run \in 1 .. view.selected
        <5>1. CASE InGets(c)
            BY <5>1 DEF InGets, UIInv, Requested
        <5>2. CASE InPanelGets(c)
            BY <5>2 DEF InPanelGets, UIInv, Requested
        <5>3. CASE InAct(c)
            BY <5>3 DEF InAct, UIInv, Requested
        <5>4. QED
            BY <2>2, <5>1, <5>2, <5>3 DEF OnItsWay
      <4>2. QED
          BY <1>1, <4>1, BoundsAssumption DEF Views, Runs
    <3>2. c.events <= server'[c.run].events
        BY <1>2, <2>1, <2>2, <3>1 DEF UIInv, NoOlder
    <3>3. QED
        BY <2>2, <3>2 DEF UIInv, NoOlder, Advances
  <2>3. CASE c.run \in Runs /\ c.events = server'[c.run].events
      BY <1>2, <1>4, <2>1, <2>3, BoundsAssumption DEF Runs
  <2>4. QED
      BY <1>5, <2>2, <2>3 DEF OnlyRead
<1>6. NoOlder'
    BY <1>4, <1>5 DEF NoOlder, Advances
<1>7. ShowsSelectedRun'
    BY DEF ShowsSelectedRun, Advances
<1>8. QED
    BY <1>6, <1>7 DEF UIInv, Advances, Kept

(* A step that brings no copy on its way and changes neither the server nor *)
(* what is shown.                                                           *)
LEMMA QuietKeeps ==
    ASSUME UIInv, Typed', Requested', server' = server,
           view'.selected = view.selected, view'.shown = view.shown, view'.lastSeq = view.lastSeq,
           NothingNew
    PROVE  Kept
<1>1. Advances(view')
    BY SameAdvances DEF Typed
<1>2. \A r \in Runs : server[r].events <= server'[r].events
    BY DEF UIInv, Typed
<1>3. OnlyRead
  <2>1. ASSUME NEW c \in Copies, OnItsWay(c)' PROVE OnItsWay(c)
      BY <2>1 DEF NothingNew
  <2>2. QED
      BY <2>1 DEF OnlyRead
<1>4. QED
    BY <1>1, <1>2, <1>3, StepKeeps

-----------------------------------------------------------------------------
(* Steps of the server.                                                    *)

LEMMA ServerKeeps ==
    ASSUME UIInv, NEW r \in Runs, WorkerWrites(r) \/ WorkerLogs(r) \/ OthersDecide(r)
    PROVE  Kept
<1>1. /\ server \in [Runs -> [row : Nat, events : Nat]]
      /\ UNCHANGED <<page, view, gets, panel, panelGets, act>>
    BY DEF UIInv, Typed, WorkerWrites, WorkerLogs, OthersDecide
<1>2. PICK x \in [row : Nat, events : Nat] :
        server' = [server EXCEPT ![r] = x] /\ server[r].events <= x.events
  <2> DEFINE a == [row |-> server[r].row + 1, events |-> server[r].events]
             b == [row |-> server[r].row, events |-> server[r].events + 1]
             d == [row |-> server[r].row + 1, events |-> server[r].events + 1]
  <2>1. /\ server[r] \in [row : Nat, events : Nat]
        /\ a \in [row : Nat, events : Nat] /\ b \in [row : Nat, events : Nat]
        /\ d \in [row : Nat, events : Nat]
        /\ server[r].events <= a.events /\ server[r].events <= b.events
        /\ server[r].events <= d.events
      BY <1>1
  <2>2. CASE WorkerWrites(r)
    <3>1. [server[r] EXCEPT !.row = @ + 1] = a
        BY <2>1
    <3>2. server' = [server EXCEPT ![r] = [server[r] EXCEPT !.row = @ + 1]]
        BY <2>2 DEF WorkerWrites
    <3> HIDE DEF a
    <3>3. QED
        BY <2>1, <3>1, <3>2
  <2>3. CASE WorkerLogs(r)
    <3>1. [server[r] EXCEPT !.events = @ + 1] = b
        BY <2>1
    <3>2. server' = [server EXCEPT ![r] = [server[r] EXCEPT !.events = @ + 1]]
        BY <2>3 DEF WorkerLogs
    <3> HIDE DEF b
    <3>3. QED
        BY <2>1, <3>1, <3>2
  <2>4. CASE OthersDecide(r)
    <3>1. server' = [server EXCEPT ![r] = d]
        BY <1>1, <2>1, <2>4 DEF OthersDecide, Decided
    <3>2. QED
        BY <2>1, <3>1
  <2>5. QED
      BY <2>2, <2>3, <2>4
<1>3. /\ server' \in [Runs -> [row : Nat, events : Nat]]
      /\ \A k \in Runs : server[k].events <= server'[k].events
    BY <1>1, <1>2
<1>4. Typed' /\ Requested'
    BY <1>1, <1>3 DEF UIInv, Typed, Requested
<1>5. OnlyRead
  <2>1. ASSUME NEW c \in Copies, OnItsWay(c)' PROVE OnItsWay(c)
      BY <1>1, <2>1 DEF OnItsWay, InGets, InPanelGets, InAct
  <2>2. QED
      BY <2>1 DEF OnlyRead
<1>6. view' \in Views /\ Advances(view')
    BY <1>1, SameAdvances DEF UIInv, Typed
<1>7. QED
    BY <1>3, <1>4, <1>5, <1>6, StepKeeps

-----------------------------------------------------------------------------
(* Requests and answers of the view.                                       *)

(* A refresh sends one request for the selected run, or none.               *)
LEMMA RefreshTyped ==
    ASSUME NEW v \in Views, NEW others \in SUBSET Gets
    PROVE  /\ Refreshing(v) \in Views /\ Refreshing(v).selected = v.selected
           /\ Refreshing(v).shown = v.shown /\ Refreshing(v).lastSeq = v.lastSeq
           /\ Requests(v, others) \subseteq Gets
           /\ \A g \in Requests(v, others) :
                g \in others \/ (g.pc = "sent" /\ v.selected # 0 /\ g.copy.run = v.selected)
<1>1. /\ Refreshing(v) \in Views /\ Refreshing(v).selected = v.selected
      /\ Refreshing(v).shown = v.shown /\ Refreshing(v).lastSeq = v.lastSeq
    BY DEF Refreshing, MayRefresh, Views
<1> DEFINE new == [copy |-> [NoCopy EXCEPT !.run = v.selected], pc |-> "sent", current |-> TRUE]
<1>2. /\ [NoCopy EXCEPT !.run = v.selected] \in Copies
      /\ [NoCopy EXCEPT !.run = v.selected].run = v.selected
    BY DEF NoCopy, Copies, Views
<1>3. new \in Gets /\ new.pc = "sent" /\ new.copy.run = v.selected
    BY <1>2 DEF Gets
<1>4. Requests(v, others) = IF MayRefresh(v) THEN others \cup {new} ELSE others
    BY DEF Requests
<1> HIDE DEF new
<1>5. Requests(v, others) \subseteq Gets
    BY <1>3, <1>4
<1>6. ASSUME NEW g \in Requests(v, others)
      PROVE  g \in others \/ (g.pc = "sent" /\ v.selected # 0 /\ g.copy.run = v.selected)
    BY <1>3, <1>4, <1>6 DEF MayRefresh
<1>7. QED
    BY <1>1, <1>5, <1>6

(* A step of the view that only refreshes.                                  *)
LEMMA RefreshKeeps ==
    ASSUME UIInv, NEW v \in Views, v.selected = view.selected, v.shown = view.shown,
           v.lastSeq = view.lastSeq, RefreshRun(v), page' \in [visible : BOOLEAN, cached : BOOLEAN],
           UNCHANGED <<server, panel, panelGets, act>>
    PROVE  Kept
<1>1. gets \in SUBSET Gets /\ view \in Views
    BY DEF UIInv, Typed
<1>2. /\ view' \in Views /\ view'.selected = view.selected
      /\ view'.shown = view.shown /\ view'.lastSeq = view.lastSeq
      /\ gets' \subseteq Gets
      /\ \A g \in gets' : g \in gets \/ (g.pc = "sent" /\ g.copy.run \in 1 .. view.selected)
    BY <1>1, RefreshTyped DEF RefreshRun, Views
<1>3. Typed' /\ Requested'
    BY <1>2 DEF UIInv, Typed, Requested
<1>4. NothingNew
    BY <1>2 DEF NothingNew, OnItsWay, InGets, InPanelGets, InAct
<1>5. QED
    BY <1>2, <1>3, <1>4, QuietKeeps

LEMMA RefreshesKeep ==
    ASSUME UIInv, Poll \/ Reload \/ PressRefresh \/ Show
    PROVE  Kept
<1>1. view \in Views /\ page \in [visible : BOOLEAN, cached : BOOLEAN]
    BY DEF UIInv, Typed
<1>2. CASE Poll \/ PressRefresh
    BY <1>1, <1>2, RefreshKeeps DEF Poll, PressRefresh
<1>3. CASE Show
  <2>1. page' \in [visible : BOOLEAN, cached : BOOLEAN]
      BY <1>1, <1>3 DEF Show
  <2>2. QED
      BY <1>1, <1>3, <2>1, RefreshKeeps DEF Show
<1>4. CASE Reload
  <2> DEFINE v == [view EXCEPT !.reload = FALSE,
                               !.missed = IF view.inFlight /\ @ = "nothing" THEN "reload" ELSE @]
  <2>1. /\ v \in Views /\ v.selected = view.selected /\ v.shown = view.shown
        /\ v.lastSeq = view.lastSeq
      BY <1>1 DEF Views
  <2>2. RefreshRun(v) /\ UNCHANGED <<server, page, panel, panelGets, act>>
      BY <1>4 DEF Reload
  <2> HIDE DEF v
  <2>3. QED
      BY <1>1, <2>1, <2>2, RefreshKeeps
<1>5. QED
    BY <1>2, <1>3, <1>4

LEMMA HideKeeps ==
    ASSUME UIInv, Hide
    PROVE  Kept
<1>1. view \in Views /\ page \in [visible : BOOLEAN, cached : BOOLEAN]
    BY DEF UIInv, Typed
<1>2. /\ view' \in Views /\ view'.selected = view.selected /\ view'.shown = view.shown
      /\ view'.lastSeq = view.lastSeq /\ page' \in [visible : BOOLEAN, cached : BOOLEAN]
      /\ UNCHANGED <<server, gets, panel, panelGets, act>>
    BY <1>1 DEF Hide, Views
<1>3. Typed' /\ Requested'
    BY <1>2 DEF UIInv, Typed, Requested
<1>4. NothingNew
    BY <1>2 DEF NothingNew, OnItsWay, InGets, InPanelGets, InAct
<1>5. QED
    BY <1>2, <1>3, <1>4, QuietKeeps

(* A run that is selected is new to every request under way.                *)
LEMMA SelectKeeps ==
    ASSUME UIInv, NEW r \in Runs, NEW c \in Copies, c.run = r,
           c.events <= server[r].events, SelectRun(c)
    PROVE  Kept
<1>1. /\ view \in Views /\ view.selected \in Nat /\ r = view.selected + 1
      /\ r \in 0 .. Created /\ gets \subseteq Gets
      /\ page \in [visible : BOOLEAN, cached : BOOLEAN]
      /\ server \in [Runs -> [row : Nat, events : Nat]]
    BY BoundsAssumption DEF UIInv, Typed, SelectRun, Views, Runs
<1> DEFINE v == [view EXCEPT !.selected = c.run, !.shown = c, !.lastSeq = 0,
                             !.resyncPending = FALSE, !.polling = FALSE,
                             !.inFlight = FALSE, !.missed = "nothing"]
<1>2. v \in Views /\ v.selected = r /\ v.shown = c /\ v.lastSeq = 0
    BY <1>1 DEF Views
<1>3. /\ view' = Refreshing(v) /\ gets' = Requests(v, Abandoned)
      /\ page' = [page EXCEPT !.cached = FALSE] /\ panel' = c
      /\ panelGets' = panelGets \cup {PanelGet(r)} /\ UNCHANGED <<server, act>>
    BY DEF SelectRun
<1> HIDE DEF v
<1>4. /\ Abandoned \subseteq Gets
      /\ \A g \in Abandoned : \E h \in gets : g.pc = h.pc /\ g.copy = h.copy
    BY <1>1 DEF Abandoned, Gets
<1>5. /\ view' \in Views /\ view'.selected = r /\ view'.shown = c /\ view'.lastSeq = 0
      /\ gets' \subseteq Gets
      /\ \A g \in gets' : g \in Abandoned \/ (g.pc = "sent" /\ g.copy.run = r)
    BY <1>2, <1>3, <1>4, RefreshTyped
<1>6. /\ PanelGet(r) \in PanelGets /\ PanelGet(r).pc = "sent" /\ PanelGet(r).copy.run = r
    BY <1>1 DEF PanelGet, PanelGets, Copies, NoCopy
<1>7. page' \in [visible : BOOLEAN, cached : BOOLEAN]
    BY <1>1, <1>3
<1>8. Typed'
    BY <1>3, <1>5, <1>6, <1>7 DEF UIInv, Typed
<1>9. Requested'
  <2>1. \A g \in gets' : g.copy.run \in 1 .. r
      BY <1>1, <1>4, <1>5 DEF UIInv, Requested
  <2>2. \A g \in panelGets' : g.copy.run \in 1 .. r
      BY <1>1, <1>3, <1>6 DEF UIInv, Requested
  <2>3. panel'.run \in 0 .. r /\ panel'.run # 0
      BY <1>1, <1>3
  <2>4. act'.pc # "idle" => act'.copy.run \in 1 .. r
      BY <1>1, <1>3 DEF UIInv, Requested
  <2>5. QED
      BY <1>5, <2>1, <2>2, <2>3, <2>4 DEF Requested
<1>10. \A d \in Copies : OnItsWay(d)' => OnItsWay(d)
    BY <1>3, <1>4, <1>5, <1>6 DEF OnItsWay, InGets, InPanelGets, InAct
<1>11. \A d \in Copies : OnItsWay(d) => d.run \in 1 .. view.selected
    BY DEF OnItsWay, InGets, InPanelGets, InAct, UIInv, Requested
<1>12. NoOlder'
  <2>1. \A d \in Copies : OnItsWay(d)' => d.events <= server'[d.run].events /\ d.run # r
      BY <1>1, <1>3, <1>10, <1>11 DEF UIInv, NoOlder
  <2>2. QED
      BY <1>3, <1>5, <2>1 DEF NoOlder
<1>13. ShowsSelectedRun'
    BY <1>5 DEF ShowsSelectedRun
<1>14. QED
    BY <1>1, <1>5, <1>8, <1>9, <1>12, <1>13 DEF UIInv, Kept

LEMMA RunSelectedKeeps ==
    ASSUME UIInv, RunSelected
    PROVE  Kept
<1>1. PICK r \in Runs : SelectRun([NoCopy EXCEPT !.run = r]) \/ SelectRun(Copy(r))
    BY DEF RunSelected
<1>2. server[r].events \in Nat
    BY DEF UIInv, Typed
<1>3. CASE SelectRun(Copy(r))
  <2>1. Copy(r) \in Copies /\ Copy(r).run = r /\ Copy(r).events = server[r].events
      BY CopyTyped DEF UIInv
  <2>2. QED
      BY <1>2, <1>3, <2>1, SelectKeeps
<1>4. CASE SelectRun([NoCopy EXCEPT !.run = r])
  <2> DEFINE c == [NoCopy EXCEPT !.run = r]
  <2>1. c \in Copies /\ c.run = r /\ c.events = 0
      BY BoundsAssumption DEF NoCopy, Copies, Runs
  <2>2. SelectRun(c)
      BY <1>4
  <2> HIDE DEF c
  <2>3. QED
      BY <1>2, <2>1, <2>2, SelectKeeps
<1>5. QED
    BY <1>1, <1>3, <1>4

-----------------------------------------------------------------------------
(* The answers to the view.                                                *)

(* get_run reads a copy as the server has it.                               *)
LEMMA ReadTyped ==
    ASSUME UIInv, NEW g, g.copy.run \in 1 .. view.selected
    PROVE  /\ Copy(g.copy.run) \in Copies
           /\ Copy(g.copy.run).run = g.copy.run /\ g.copy.run \in Runs
           /\ Copy(g.copy.run).events = server[g.copy.run].events
           /\ g \in Gets => Read(g) \in Gets /\ Read(g).copy = Copy(g.copy.run)
           /\ g \in PanelGets => Read(g) \in PanelGets /\ Read(g).copy = Copy(g.copy.run)
<1>1. Typed /\ view.selected \in 0 .. Created
    BY DEF UIInv, Typed, Views
<1>2. g.copy.run \in Runs
    BY <1>1, BoundsAssumption DEF Runs
<1> DEFINE c == Copy(g.copy.run)
<1>3. c \in Copies /\ c.run = g.copy.run /\ c.events = server[g.copy.run].events
    BY <1>1, <1>2, CopyTyped
<1>4. Read(g) = [g EXCEPT !.copy = c, !.pc = "answered"]
    BY DEF Read
<1> HIDE DEF c
<1>5. ASSUME g \in Gets
      PROVE  Read(g) \in Gets /\ Read(g).copy = c
    BY <1>3, <1>4, <1>5 DEF Gets
<1>6. ASSUME g \in PanelGets
      PROVE  Read(g) \in PanelGets /\ Read(g).copy = c
    BY <1>3, <1>4, <1>6 DEF PanelGets
<1>7. QED
    BY <1>2, <1>3, <1>5, <1>6 DEF c

LEMMA ServerReadsKeeps ==
    ASSUME UIInv, NEW g \in gets, ServerReads(g)
    PROVE  Kept
<1>1. /\ g \in Gets /\ g.copy.run \in 1 .. view.selected /\ gets \subseteq Gets
      /\ view \in Views
    BY DEF UIInv, Typed, Requested
<1> DEFINE c == Copy(g.copy.run)
<1>2. /\ Read(g) \in Gets /\ Read(g).copy = c /\ c.run = g.copy.run
      /\ g.copy.run \in Runs /\ c.events = server[g.copy.run].events
    BY <1>1, ReadTyped
<1> HIDE DEF c
<1>3. /\ gets' = (gets \ {g}) \cup {Read(g)}
      /\ UNCHANGED <<server, page, view, panel, panelGets, act>>
    BY DEF ServerReads
<1>4. Typed'
    BY <1>1, <1>2, <1>3 DEF UIInv, Typed
<1>5. Requested'
    BY <1>1, <1>2, <1>3 DEF UIInv, Requested
<1>6. OnlyRead
  <2> SUFFICES ASSUME NEW d \in Copies, OnItsWay(d)', ~OnItsWay(d)
               PROVE  d.run \in Runs /\ d.events = server'[d.run].events
      BY DEF OnlyRead
  <2>1. d = c
      BY <1>2, <1>3 DEF OnItsWay, InGets, InPanelGets, InAct
  <2>2. QED
      BY <1>2, <1>3, <2>1
<1>7. Advances(view') /\ \A r \in Runs : server[r].events <= server'[r].events
    BY <1>1, <1>3, SameAdvances DEF UIInv, Typed
<1>8. QED
    BY <1>4, <1>5, <1>6, <1>7, StepKeeps

(* The answer is shown by both listeners, and kept when the definition of   *)
(* the workflow is to be loaded.                                            *)
LEMMA ArrivesKeeps ==
    ASSUME UIInv, NEW g \in gets, Arrives(g)
    PROVE  Kept
<1>1. /\ g \in Gets /\ g.copy \in Copies /\ g.pc = "answered" /\ gets \subseteq Gets
      /\ view \in Views /\ panel \in Copies /\ g.copy.run \in 1 .. view.selected
    BY DEF UIInv, Typed, Requested, Arrives, Gets
<1>2. OnItsWay(g.copy)
    BY <1>1 DEF OnItsWay, InGets
<1> DEFINE v == UpdateRun(view, g.copy)
           q == [g EXCEPT !.pc = "definition"]
<1>3. Advances(v) /\ v \in Views
    BY <1>1, <1>2, UpdateAdvances DEF Advances
<1>4. q \in Gets /\ q.copy = g.copy
    BY <1>1 DEF Gets
<1>5. /\ panel' = PanelUpdated(g.copy) /\ UNCHANGED <<server, page, panelGets, act>>
      /\ \/ view' = [v EXCEPT !.inFlight = FALSE] /\ gets' = gets \ {g}
         \/ view' = v /\ gets' = (gets \ {g}) \cup {q}
    BY DEF Arrives
<1> HIDE DEF v, q
<1>6. /\ view' \in Views /\ view'.selected = v.selected /\ view'.shown = v.shown
      /\ view'.lastSeq = v.lastSeq
    BY <1>3, <1>5 DEF Views
<1>7. Advances(view') /\ view'.selected = view.selected
    BY <1>3, <1>6 DEF Advances
<1>8. panel' \in {panel, g.copy}
    BY <1>5 DEF PanelUpdated
<1>9. gets' \subseteq gets \cup {q}
    BY <1>5
<1>10. Typed'
    BY <1>1, <1>4, <1>5, <1>6, <1>8, <1>9 DEF UIInv, Typed
<1>11. Requested'
  <2>1. panel'.run \in 0 .. view.selected /\ (panel.run # 0 => panel'.run # 0)
      BY <1>1, <1>8 DEF UIInv, Requested
  <2>2. \A h \in gets' : h.copy.run \in 1 .. view.selected
      BY <1>1, <1>4, <1>9 DEF UIInv, Requested
  <2>3. QED
      BY <1>5, <1>7, <2>1, <2>2 DEF UIInv, Requested
<1>12. OnlyRead
  <2> SUFFICES ASSUME NEW d \in Copies, OnItsWay(d)'
               PROVE  OnItsWay(d)
      BY DEF OnlyRead
  <2>1. CASE InGets(d)'
      BY <1>1, <1>2, <1>4, <1>9, <2>1 DEF OnItsWay, InGets
  <2>2. CASE InPanelGets(d)' \/ InAct(d)'
      BY <1>5, <2>2 DEF OnItsWay, InPanelGets, InAct
  <2>3. QED
      BY <2>1, <2>2 DEF OnItsWay
<1>13. \A r \in Runs : server[r].events <= server'[r].events
    BY <1>5 DEF UIInv, Typed
<1>14. QED
    BY <1>7, <1>10, <1>11, <1>12, <1>13, StepKeeps

LEMMA DefinitionArrivesKeeps ==
    ASSUME UIInv, NEW g \in gets, NEW loaded \in BOOLEAN, DefinitionArrives(g, loaded)
    PROVE  Kept
<1>1. /\ g \in Gets /\ g.copy \in Copies /\ g.pc = "definition" /\ gets \subseteq Gets
      /\ view \in Views /\ page \in [visible : BOOLEAN, cached : BOOLEAN]
      /\ g.copy.run = view.selected
    BY DEF UIInv, Typed, DefinitionArrives, Gets
<1>2. OnItsWay(g.copy)
    BY <1>1 DEF OnItsWay, InGets
<1> DEFINE v == RenderRun(view, g.copy)
<1>3. Advances(v) /\ v \in Views
    BY <1>1, <1>2, RenderAdvances DEF Advances
<1>4. /\ page' = [page EXCEPT !.cached = loaded] /\ view' = [v EXCEPT !.inFlight = FALSE]
      /\ gets' = gets \ {g} /\ UNCHANGED <<server, panel, panelGets, act>>
    BY DEF DefinitionArrives
<1> HIDE DEF v
<1>5. /\ view' \in Views /\ view'.selected = v.selected /\ view'.shown = v.shown
      /\ view'.lastSeq = v.lastSeq
    BY <1>3, <1>4 DEF Views
<1>6. Advances(view') /\ view'.selected = view.selected
    BY <1>3, <1>5 DEF Advances
<1>7. Typed' /\ Requested'
    BY <1>1, <1>4, <1>5, <1>6 DEF UIInv, Typed, Requested
<1>8. OnlyRead
  <2>1. ASSUME NEW d \in Copies, OnItsWay(d)' PROVE OnItsWay(d)
      BY <1>4, <2>1 DEF OnItsWay, InGets, InPanelGets, InAct
  <2>2. QED
      BY <2>1 DEF OnlyRead
<1>9. \A r \in Runs : server[r].events <= server'[r].events
    BY <1>4 DEF UIInv, Typed
<1>10. QED
    BY <1>6, <1>7, <1>8, <1>9, StepKeeps

LEMMA DropAnswerKeeps ==
    ASSUME UIInv, NEW g \in gets, DropAnswer(g) \/ GetFails(g)
    PROVE  Kept
<1>1. view \in Views
    BY DEF UIInv, Typed
<1>2. /\ gets' = gets \ {g} /\ UNCHANGED <<server, page, panel, panelGets, act>>
      /\ view' \in {view, [view EXCEPT !.inFlight = FALSE, !.missed = "answer"]}
    BY DEF DropAnswer, GetFails
<1>3. /\ view' \in Views /\ view'.selected = view.selected /\ view'.shown = view.shown
      /\ view'.lastSeq = view.lastSeq
    BY <1>1, <1>2 DEF Views
<1>4. Typed' /\ Requested'
    BY <1>2, <1>3 DEF UIInv, Typed, Requested
<1>5. NothingNew
    BY <1>2 DEF NothingNew, OnItsWay, InGets, InPanelGets, InAct
<1>6. QED
    BY <1>2, <1>3, <1>4, <1>5, QuietKeeps

-----------------------------------------------------------------------------
(* The panel.                                                              *)

(* publish: the panel takes a copy that was on its way, the view renders it.*)
LEMMA PublishKeeps ==
    ASSUME UIInv, NEW c \in Copies, OnItsWay(c), c.run \in 1 .. view.selected, Publish(c),
           UNCHANGED <<server, page, gets>>, panelGets' \subseteq panelGets, act' \in {act, Idle}
    PROVE  Kept
<1>1. Advances(view') /\ panel' = c
    BY UpdateAdvances DEF Publish
<1>2. view' \in Views /\ view'.selected = view.selected /\ Idle \in Acts /\ Idle.pc = "idle"
    BY <1>1, BoundsAssumption DEF Advances, Idle, Acts, Copies, NoCopy
<1>3. view.selected \in Nat
    BY DEF UIInv, Typed, Views
<1>4. Typed'
    BY <1>1, <1>2 DEF UIInv, Typed
<1>5. Requested'
  <2>1. panel'.run \in 0 .. view.selected /\ panel'.run # 0
      BY <1>1, <1>3
  <2>2. act'.pc # "idle" => act'.copy.run \in 1 .. view.selected
      BY <1>2 DEF UIInv, Requested
  <2>3. QED
      BY <1>2, <2>1, <2>2 DEF UIInv, Requested
<1>6. OnlyRead
  <2> SUFFICES ASSUME NEW d \in Copies, OnItsWay(d)'
               PROVE  OnItsWay(d)
      BY DEF OnlyRead
  <2>1. QED
      BY <1>2 DEF OnItsWay, InGets, InPanelGets, InAct
<1>7. \A r \in Runs : server[r].events <= server'[r].events
    BY DEF UIInv, Typed
<1>8. QED
    BY <1>1, <1>4, <1>5, <1>6, <1>7, StepKeeps

(* GETs of the panel.                                                       *)
LEMMA PanelRefreshKeeps ==
    ASSUME UIInv, PanelRefresh
    PROVE  Kept
<1>1. /\ panel.run \in 1 .. view.selected /\ panel \in Copies /\ panelGets \subseteq PanelGets
    BY DEF UIInv, Typed, Requested, Views, PanelRefresh
<1>2. /\ panelGets' = panelGets \cup {PanelGet(panel.run)}
      /\ UNCHANGED <<server, page, view, gets, panel, act>>
    BY DEF PanelRefresh
<1>3. /\ PanelGet(panel.run) \in PanelGets /\ PanelGet(panel.run).pc = "sent"
      /\ PanelGet(panel.run).copy.run = panel.run
    BY <1>1 DEF PanelGet, PanelGets, Copies, NoCopy
<1>4. Typed' /\ Requested'
    BY <1>1, <1>2, <1>3 DEF UIInv, Typed, Requested
<1>5. NothingNew
    BY <1>2, <1>3 DEF NothingNew, OnItsWay, InGets, InPanelGets, InAct
<1>6. QED
    BY <1>2, <1>4, <1>5, QuietKeeps

LEMMA PanelReadsKeeps ==
    ASSUME UIInv, NEW g \in panelGets, ServerReadsForPanel(g)
    PROVE  Kept
<1>1. /\ g \in PanelGets /\ g.copy.run \in 1 .. view.selected
      /\ panelGets \subseteq PanelGets /\ view \in Views
    BY DEF UIInv, Typed, Requested
<1> DEFINE c == Copy(g.copy.run)
<1>2. /\ Read(g) \in PanelGets /\ Read(g).copy = c /\ c.run = g.copy.run
      /\ g.copy.run \in Runs /\ c.events = server[g.copy.run].events
    BY <1>1, ReadTyped
<1> HIDE DEF c
<1>3. /\ panelGets' = (panelGets \ {g}) \cup {Read(g)}
      /\ UNCHANGED <<server, page, view, gets, panel, act>>
    BY DEF ServerReadsForPanel
<1>4. Typed'
    BY <1>1, <1>2, <1>3 DEF UIInv, Typed
<1>5. Requested'
    BY <1>1, <1>2, <1>3 DEF UIInv, Requested
<1>6. OnlyRead
  <2> SUFFICES ASSUME NEW d \in Copies, OnItsWay(d)', ~OnItsWay(d)
               PROVE  d.run \in Runs /\ d.events = server'[d.run].events
      BY DEF OnlyRead
  <2>1. d = c
      BY <1>2, <1>3 DEF OnItsWay, InGets, InPanelGets, InAct
  <2>2. QED
      BY <1>2, <1>3, <2>1
<1>7. Advances(view') /\ \A r \in Runs : server[r].events <= server'[r].events
    BY <1>1, <1>3, SameAdvances DEF UIInv, Typed
<1>8. QED
    BY <1>4, <1>5, <1>6, <1>7, StepKeeps

LEMMA PanelGetArrivesKeeps ==
    ASSUME UIInv, NEW g \in panelGets, PanelGetArrives(g)
    PROVE  Kept
<1>1. /\ g.copy \in Copies /\ g.pc = "answered" /\ g.copy.run \in 1 .. view.selected
    BY DEF UIInv, Typed, Requested, PanelGetArrives, PanelGets
<1>2. OnItsWay(g.copy)
    BY <1>1 DEF OnItsWay, InPanelGets
<1>3. /\ Publish(g.copy) /\ panelGets' \subseteq panelGets /\ act' \in {act, Idle}
      /\ UNCHANGED <<server, page, gets>>
    BY DEF PanelGetArrives
<1>4. QED
    BY <1>1, <1>2, <1>3, PublishKeeps

LEMMA PanelGetFailsKeeps ==
    ASSUME UIInv, NEW g \in panelGets, PanelGetFails(g)
    PROVE  Kept
<1>1. panelGets' = panelGets \ {g} /\ UNCHANGED <<server, page, view, gets, panel, act>>
    BY DEF PanelGetFails
<1>2. Typed' /\ Requested'
    BY <1>1 DEF UIInv, Typed, Requested
<1>3. NothingNew
    BY <1>1 DEF NothingNew, OnItsWay, InGets, InPanelGets, InAct
<1>4. QED
    BY <1>1, <1>2, <1>3, QuietKeeps

(* A step of the action under way that the page does not show.              *)
LEMMA ActMoves ==
    ASSUME UIInv, UNCHANGED <<page, view, gets, panel, panelGets>>, act' \in Acts,
           act'.pc # "idle" => act'.copy.run \in 1 .. view.selected /\ panel.run # 0,
           server' \in [Runs -> [row : Nat, events : Nat]],
           \A r \in Runs : server[r].events <= server'[r].events,
           \A c \in Copies : InAct(c)' => c.run \in Runs /\ c.events = server'[c.run].events
    PROVE  Kept
<1>1. Typed' /\ Requested'
    BY DEF UIInv, Typed, Requested
<1>2. Advances(view')
    BY SameAdvances DEF UIInv, Typed
<1>3. OnlyRead
  <2>1. ASSUME NEW c \in Copies, OnItsWay(c)'
        PROVE  OnItsWay(c) \/ (c.run \in Runs /\ c.events = server'[c.run].events)
    <3>1. CASE InAct(c)'
        BY <3>1
    <3>2. CASE InGets(c)' \/ InPanelGets(c)'
        BY <3>2 DEF OnItsWay, InGets, InPanelGets
    <3>3. QED
        BY <2>1, <3>1, <3>2 DEF OnItsWay
  <2>2. QED
      BY <2>1 DEF OnlyRead
<1>4. QED
    BY <1>1, <1>2, <1>3, StepKeeps

(* The action is sent, fails, or is answered without a decision.            *)
LEMMA ActWaitsKeeps ==
    ASSUME UIInv, Act \/ ActFails \/ ActFailed \/ ReloadFails
    PROVE  Kept
<1>1. /\ act \in Acts /\ panel \in Copies /\ view.selected \in Nat
      /\ server \in [Runs -> [row : Nat, events : Nat]]
      /\ panel.run \in 0 .. view.selected
      /\ act.pc # "idle" => act.copy.run \in 1 .. view.selected /\ panel.run # 0
    BY DEF UIInv, Typed, Requested, Views
<1>2. /\ UNCHANGED <<server, page, view, gets, panel, panelGets>>
    BY DEF Act, ActFails, ActFailed, ReloadFails
<1>3. panel.run = 0 \/ panel.run \in 1 .. view.selected
    BY <1>1
<1> DEFINE asked(pc) == [pc |-> pc, answer |-> "none",
                         copy |-> [run |-> panel.run, row |-> 0, events |-> 0]]
           lost == [pc |-> "answered", answer |-> "unknown", copy |-> act.copy]
<1>4. /\ asked("sent") \in Acts /\ asked("reload") \in Acts /\ lost \in Acts /\ Idle \in Acts
      /\ Idle.pc = "idle"
    BY <1>1, BoundsAssumption DEF Acts, Copies, Idle, NoCopy
<1>5. \/ act' = asked("sent") /\ panel.run # 0
      \/ act' = asked("reload") /\ panel.run # 0
      \/ act' = lost /\ act.pc # "idle"
      \/ act' = Idle
    BY <1>1 DEF Act, ActFails, ActFailed, ReloadFails, Idle, NoCopy, Acts
<1>6. /\ act' \in Acts
      /\ act'.pc # "idle" => act'.copy.run \in 1 .. view.selected /\ panel.run # 0
      /\ ~(act'.pc = "reloaded" \/ (act'.pc = "answered" /\ act'.answer = "decided"))
    BY <1>1, <1>3, <1>4, <1>5
<1>7. \A c \in Copies : ~InAct(c)'
    BY <1>6 DEF InAct
<1>8. \A r \in Runs : server[r].events <= server'[r].events
    BY <1>1, <1>2
<1>9. QED
    BY <1>1, <1>2, <1>6, <1>7, <1>8, ActMoves

(* The server decides and reads the run back, or answers an error.          *)
LEMMA ServeActKeeps ==
    ASSUME UIInv, ServeAct
    PROVE  Kept
<1>1. /\ act \in Acts /\ act.pc = "sent" /\ view.selected \in 0 .. Created
      /\ server \in [Runs -> [row : Nat, events : Nat]]
      /\ act.copy.run \in 1 .. view.selected /\ panel.run # 0
      /\ UNCHANGED <<page, view, gets, panel, panelGets>>
    BY DEF UIInv, Typed, Requested, Views, ServeAct
<1> DEFINE r == act.copy.run
<1>2. r \in Runs /\ r \in 0 .. Created
    BY <1>1, BoundsAssumption DEF Runs
<1> DEFINE next == [row |-> server[r].row + 1, events |-> server[r].events + 1]
           told == [run |-> r, row |-> server'[r].row, events |-> server'[r].events]
<1>3. server[r] \in [row : Nat, events : Nat] /\ next \in [row : Nat, events : Nat]
    BY <1>1, <1>2
<1>4. CASE server' = Decided(r) /\ act' = [act EXCEPT !.pc = "answered", !.answer = "decided",
                                                       !.copy = told]
  <2>1. server' = [server EXCEPT ![r] = next]
      BY <1>1, <1>2, <1>3, <1>4 DEF Decided
  <2>2. /\ server' \in [Runs -> [row : Nat, events : Nat]]
        /\ server'[r] = next /\ \A k \in Runs : server[k].events <= server'[k].events
      BY <1>1, <1>2, <1>3, <2>1
  <2>3. told \in Copies /\ told.run = r /\ told.events = server'[r].events
      BY <1>2, <1>3, <2>2 DEF Copies
  <2> HIDE DEF told
  <2>4. act' \in Acts /\ act'.copy = told
      BY <1>1, <1>4, <2>3 DEF Acts
  <2>5. \A c \in Copies : InAct(c)' => c.run \in Runs /\ c.events = server'[c.run].events
      BY <1>2, <2>3, <2>4 DEF InAct
  <2>6. QED
      BY <1>1, <2>2, <2>3, <2>4, <2>5, ActMoves
<1>5. CASE /\ UNCHANGED server
           /\ \E a \in {"conflict", "invalid"} : act' = [act EXCEPT !.pc = "answered", !.answer = a]
  <2>1. /\ act' \in Acts /\ act'.copy = act.copy /\ act'.pc = "answered"
        /\ act'.answer \in {"conflict", "invalid"}
      BY <1>1, <1>5 DEF Acts
  <2>2. \A c \in Copies : ~InAct(c)'
      BY <2>1 DEF InAct
  <2>3. \A k \in Runs : server[k].events <= server'[k].events
      BY <1>1, <1>5
  <2>4. QED
      BY <1>1, <1>5, <2>1, <2>2, <2>3, ActMoves
<1>6. QED
    BY <1>4, <1>5 DEF ServeAct

(* The panel publishes the answer of the action, or the run it reloaded.    *)
LEMMA ActSucceedsKeeps ==
    ASSUME UIInv, ActSucceeds
    PROVE  Kept
<1>1. /\ act.copy \in Copies /\ act.pc # "idle" /\ act.copy.run \in 1 .. view.selected
    BY DEF UIInv, Typed, Requested, ActSucceeds, Acts
<1>2. OnItsWay(act.copy)
    BY DEF OnItsWay, InAct, ActSucceeds
<1>3. Publish(act.copy) /\ act' \in {act, Idle} /\ UNCHANGED <<server, page, gets, panelGets>>
    BY DEF ActSucceeds
<1>4. QED
    BY <1>1, <1>2, <1>3, PublishKeeps

LEMMA EndActKeeps ==
    ASSUME UIInv, EndAct
    PROVE  Kept
<1>1. /\ act \in Acts /\ act.copy \in Copies /\ act.pc # "idle"
      /\ act.copy.run \in 1 .. view.selected /\ panel.run # 0
      /\ server \in [Runs -> [row : Nat, events : Nat]]
    BY DEF UIInv, Typed, Requested, EndAct, ActReloads, Acts
<1>2. CASE act.pc = "reload"
  <2> DEFINE c == Copy(act.copy.run)
  <2>1. c \in Copies /\ c.run = act.copy.run /\ c.run \in Runs /\ c.events = server[c.run].events
      BY <1>1, ReadTyped
  <2>2. /\ act' = [Read(act) EXCEPT !.pc = "reloaded"]
        /\ UNCHANGED <<server, page, view, gets, panel, panelGets>>
      BY <1>2 DEF EndAct, ActReloads
  <2>3. Read(act) = [act EXCEPT !.copy = c, !.pc = "answered"]
      BY DEF Read
  <2> HIDE DEF c
  <2>4. Read(act) \in Acts /\ Read(act).copy = c
      BY <1>1, <2>1, <2>3 DEF Acts
  <2>5. act' \in Acts /\ act'.copy = c
      BY <2>2, <2>4 DEF Acts
  <2>6. \A d \in Copies : InAct(d)' => d.run \in Runs /\ d.events = server'[d.run].events
      BY <2>1, <2>2, <2>5 DEF InAct
  <2>7. \A k \in Runs : server[k].events <= server'[k].events
      BY <1>1, <2>2
  <2>8. QED
      BY <1>1, <2>1, <2>2, <2>5, <2>6, <2>7, ActMoves
<1>3. CASE act.pc = "reloaded"
  <2>1. OnItsWay(act.copy)
      BY <1>3 DEF OnItsWay, InAct
  <2>2. Publish(act.copy) /\ act' \in {act, Idle} /\ UNCHANGED <<server, page, gets, panelGets>>
      BY <1>3 DEF EndAct, ActReloads
  <2>3. QED
      BY <1>1, <2>1, <2>2, PublishKeeps
<1>4. QED
    BY <1>2, <1>3 DEF EndAct, ActReloads

-----------------------------------------------------------------------------
(* The invariant.                                                          *)

LEMMA InitHolds == Init => UIInv
<1> SUFFICES ASSUME Init PROVE UIInv
    OBVIOUS
<1>1. NoCopy \in Copies /\ NoCopy.run = 0 /\ NoCopy.events = 0
    BY BoundsAssumption DEF NoCopy, Copies
<1>2. Idle \in Acts /\ Idle.pc = "idle"
    BY <1>1 DEF Idle, Acts
<1>3. /\ view \in Views /\ view.selected = 0 /\ view.shown = NoCopy /\ view.lastSeq = 0
    BY <1>1, BoundsAssumption DEF Init, Views
<1>4. Typed
    BY <1>1, <1>2, <1>3 DEF Init, Typed
<1>5. Requested /\ ShowsSelectedRun
    BY <1>1, <1>2, <1>3 DEF Init, Requested, ShowsSelectedRun
<1>6. NoOlder
    BY <1>1, <1>2, <1>3 DEF Init, NoOlder, OnItsWay, InGets, InPanelGets, InAct
<1>7. QED
    BY <1>4, <1>5, <1>6 DEF UIInv

LEMMA StutterKeeps ==
    ASSUME UIInv, UNCHANGED vars
    PROVE  Kept
<1>1. UNCHANGED <<server, page, view, gets, panel, panelGets, act>>
    BY DEF vars
<1>2. Typed' /\ Requested'
    BY <1>1 DEF UIInv, Typed, Requested
<1>3. NothingNew
    BY <1>1 DEF NothingNew, OnItsWay, InGets, InPanelGets, InAct
<1>4. QED
    BY <1>1, <1>2, <1>3, QuietKeeps

LEMMA NextKeeps ==
    ASSUME UIInv, [Next]_vars
    PROVE  Kept
<1>1. CASE Server
    BY <1>1, ServerKeeps DEF Server
<1>2. CASE User
    BY <1>2, RunSelectedKeeps, RefreshesKeep, HideKeeps, PanelRefreshKeeps, ActWaitsKeeps DEF User
<1>3. CASE Faults
    BY <1>3, DropAnswerKeeps, PanelGetFailsKeeps, ActWaitsKeeps DEF Faults
<1>4. CASE Poll \/ Reload
    BY <1>4, RefreshesKeep
<1>5. CASE \E g \in gets : Answers(g)
    BY <1>5, ServerReadsKeeps, ArrivesKeeps, DropAnswerKeeps, DefinitionArrivesKeeps DEF Answers
<1>6. CASE \E g \in panelGets : PanelAnswers(g)
    BY <1>6, PanelReadsKeeps, PanelGetArrivesKeeps DEF PanelAnswers
<1>7. CASE ActAnswers
    BY <1>7, ServeActKeeps, ActSucceedsKeeps, ActWaitsKeeps, EndActKeeps DEF ActAnswers
<1>8. CASE UNCHANGED vars
    BY <1>8, StutterKeeps
<1>9. QED
    BY <1>1, <1>2, <1>3, <1>4, <1>5, <1>6, <1>7, <1>8 DEF Next

LEMMA UIInvHolds == Spec => []UIInv
<1>1. UIInv /\ [Next]_vars => UIInv'
    BY NextKeeps DEF Kept
<1>2. QED
    BY <1>1, InitHolds, PTL DEF Spec

(* The view shows the run that is selected, whatever requests of earlier    *)
(* selections or of the panel are answered late.                            *)
THEOREM SelectedRunIsShown == Spec => []ShowsSelectedRun
<1>1. UIInv => ShowsSelectedRun
    BY DEF UIInv
<1>2. QED
    BY <1>1, UIInvHolds, PTL

(* While one run is selected, no poll, reload, action or late answer makes  *)
(* the view show fewer events of it than it showed.                         *)
THEOREM ShownEventsGrow == Spec => EventsNeverGoBack
<1>1. UIInv /\ [Next]_vars
        => [view'.selected = view.selected => view'.shown.events >= view.shown.events]_vars
    BY NextKeeps DEF Kept
<1>2. QED
    BY <1>1, UIInvHolds, PTL DEF Spec, EventsNeverGoBack
=============================================================================
