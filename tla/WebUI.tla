------------------------------- MODULE WebUI -------------------------------
(***************************************************************************)
(* The web page: the HTML and the script that generate_html of C/server.c  *)
(* produces (the Go server's template, server/main.go, carries the same    *)
(* script), as one browser tab runs them against the server's /data.       *)
(*                                                                         *)
(* The page is produced in three sections at three moments (CServer).      *)
(* From then on its list of clients is refreshed and, of the detail that   *)
(* is shown, all but the table of network interfaces: once a second a      *)
(* fetch is started, whether or not the one before it has been answered,   *)
(* and its answer is applied when it comes.                                *)
(*                                                                         *)
(* The server is reduced to what /data shows of it: the clients in their   *)
(* order of arrival, each with the number of its newest report.            *)
(***************************************************************************)
EXTENDS Integers, Sequences

CONSTANTS
    ClientIds,    \* the monitored machines
    Nothing,      \* no client, no timer
    Inside,       \* <<c, d>>: the identifier c is a substring of d's onclick
    Fetches,      \* bound: requests of the page under way at once
    Timers,       \* bound: the numbers setInterval may return
    MaxReports,   \* bound: reports received by the server
    MaxRestarts   \* bound: restarts of the server

ASSUME SizesAssumption ==
    /\ MaxReports \in Nat
    /\ MaxRestarts \in Nat
    /\ Timers # {}

ASSUME NamesAssumption ==
    /\ Nothing \notin ClientIds
    /\ Nothing \notin Timers
    /\ Inside \subseteq ClientIds \X ClientIds

VARIABLES
    server,      \* what /data answers: rows of [id, latest]
    sent,        \* reports received so far, and the number of the newest
    restarts,    \* how often the server was restarted
    phase,       \* the section that comes next while the page is loaded
    clients,     \* the script's clients: the rows it knows
    items,       \* the rows of the sidebar
    highlight,   \* the sidebar's item of class "active", or Nothing
    text,        \* its domain: the detail blocks; the report whose heading,
                 \* status and first table each shows
    networks,    \* for each detail block, the report whose interfaces it shows
    charts,      \* for each detail block, its two charts
    active,      \* the detail block of class "active", or Nothing
    empty,       \* whether "Select a client to view details" is visible
    auto,        \* autoRefreshEnabled
    timer,       \* refreshIntervalId
    timers,      \* the intervals the browser runs
    fetches      \* what has become of each request

world == <<server, sent, restarts>>
view == <<clients, items, highlight, text, networks, charts, active, empty>>
vars == <<world, phase, view, auto, timer, timers, fetches>>

-----------------------------------------------------------------------------
(* Types.                                                                  *)

Reports == 1..MaxReports

(***************************************************************************)
(* The rows of an answer: no client twice.                                 *)
(***************************************************************************)
IdsOf(rows) == {rows[i].id : i \in DOMAIN rows}

LatestOf(rows, c) == rows[CHOOSE i \in DOMAIN rows : rows[i].id = c].latest

IsRows(rows) ==
    /\ rows \in Seq([id : ClientIds, latest : Reports])
    /\ \A i, j \in DOMAIN rows : rows[i].id = rows[j].id => i = j

(***************************************************************************)
(* The load chart and the memory chart of a detail are created, updated,   *)
(* destroyed and forgotten together, and stand here as one.  drawn is the  *)
(* report up to which the chart on the detail's canvas goes, 0 for a blank *)
(* canvas.  key says what loadCharts holds for it: nothing, that chart, or *)
(* one that was destroyed.                                                 *)
(***************************************************************************)
Chart == [drawn : 0..MaxReports, key : {"none", "live", "dead"}]

TypeOK ==
    /\ IsRows(server)
    /\ sent \in 0..MaxReports
    /\ restarts \in 0..MaxRestarts
    /\ phase \in {"side", "detail", "notice", "script", "open"}
    /\ IsRows(clients)
    /\ IsRows(items)
    /\ highlight \in ClientIds \union {Nothing}
    /\ DOMAIN text \subseteq ClientIds
    /\ \A c \in DOMAIN text : text[c] \in Reports
    /\ networks \in [DOMAIN text -> Reports]
    /\ charts \in [DOMAIN text -> Chart]
    /\ active \in DOMAIN text \union {Nothing}
    /\ empty \in BOOLEAN
    /\ auto \in BOOLEAN
    /\ timer \in Timers \union {Nothing}
    /\ timers \subseteq Timers
    /\ \A f \in Fetches :
         \/ fetches[f].state \in {"none", "asked"}
         \/ fetches[f].state = "answered" /\ IsRows(fetches[f].rows)

NoFetch == [state |-> "none"]
EmptyMap == [c \in {} |-> 0]

Init ==
    /\ server = << >>
    /\ sent = 0
    /\ restarts = 0
    /\ phase = "side"
    /\ clients = << >>
    /\ items = << >>
    /\ highlight = Nothing
    /\ text = EmptyMap
    /\ networks = EmptyMap
    /\ charts = EmptyMap
    /\ active = Nothing
    /\ empty = FALSE
    /\ auto = TRUE
    /\ timer = Nothing
    /\ timers = {}
    /\ fetches = [f \in Fetches |-> NoFetch]

-----------------------------------------------------------------------------
(* The server.                                                             *)

(***************************************************************************)
(* A report comes in: its client's row changes, or a new one is appended.  *)
(***************************************************************************)
Report(c) ==
    /\ sent < MaxReports
    /\ sent' = sent + 1
    /\ LET row == [id |-> c, latest |-> sent + 1] IN
         server' = IF c \in IdsOf(server)
                     THEN [i \in DOMAIN server |->
                             IF server[i].id = c THEN row ELSE server[i]]
                     ELSE Append(server, row)
    /\ UNCHANGED <<restarts, phase, view, auto, timer, timers, fetches>>

(***************************************************************************)
(* A restart empties the table and breaks the connections.                 *)
(***************************************************************************)
Restart ==
    /\ phase = "open"
    /\ restarts < MaxRestarts
    /\ restarts' = restarts + 1
    /\ server' = << >>
    /\ fetches' = [f \in Fetches |->
                     IF fetches[f].state = "asked" THEN NoFetch ELSE fetches[f]]
    /\ UNCHANGED <<sent, phase, view, auto, timer, timers>>

Answer(f) ==
    /\ fetches[f].state = "asked"
    /\ fetches' = [fetches EXCEPT ![f] = [state |-> "answered", rows |-> server]]
    /\ UNCHANGED <<world, phase, view, auto, timer, timers>>

(***************************************************************************)
(* The connection breaks or what came does not parse: catch() logs it.     *)
(***************************************************************************)
Lose(f) ==
    /\ fetches[f].state # "none"
    /\ fetches' = [fetches EXCEPT ![f] = NoFetch]
    /\ UNCHANGED <<world, phase, view, auto, timer, timers>>

-----------------------------------------------------------------------------
(* The charts.                                                             *)

(***************************************************************************)
(* createOrUpdateChart: a chart that loadCharts knows is updated, which    *)
(* does nothing to one that was destroyed; otherwise one is created, which *)
(* throws when the canvas is in use by another.                            *)
(***************************************************************************)
CreateOrUpdate(chart, latest) ==
    IF chart.key = "live" \/ chart = [drawn |-> 0, key |-> "none"]
      THEN [drawn |-> latest, key |-> "live"]
      ELSE chart

\* Seeded fault: the old canvas stays.
Renewed_SameCanvas(chart) == chart

(***************************************************************************)
(* The chart is destroyed, if loadCharts has it, and its canvas replaced.  *)
(***************************************************************************)
Renewed(chart) == [drawn |-> 0, key |-> IF chart.key = "none" THEN "none" ELSE "dead"]

\* Seeded fault: loadCharts keeps what it had.
Forgotten_Never(chart) == chart

(***************************************************************************)
(* loadCharts = {}: every chart is forgotten, on its canvas or not.        *)
(***************************************************************************)
Forgotten(chart) == [chart EXCEPT !.key = "none"]

-----------------------------------------------------------------------------
(* Choosing a client.                                                      *)

(***************************************************************************)
(* The first item whose onclick contains the identifier.                   *)
(***************************************************************************)
ItemFor(rows, c) ==
    LET match == {i \in DOMAIN rows : <<c, rows[i].id>> \in Inside}
    IN  IF match = {} THEN Nothing
        ELSE rows[CHOOSE i \in match : \A j \in match : i <= j].id

(***************************************************************************)
(* showDetail(c), with rows for clients and bar for the sidebar.  A client *)
(* without a detail block leaves none active.                              *)
(***************************************************************************)
ShowDetail(c, rows, bar) ==
    /\ active' = IF c \in DOMAIN text THEN c ELSE Nothing
    /\ empty' = (empty /\ c \notin DOMAIN text)
    /\ highlight' = ItemFor(bar, c)
    /\ charts' = IF c \in DOMAIN text \intersect IdsOf(rows)
                   THEN [charts EXCEPT ![c] = CreateOrUpdate(@, LatestOf(rows, c))]
                   ELSE charts

Click(c) ==
    /\ phase = "open"
    /\ c \in IdsOf(items)
    /\ ShowDetail(c, clients, items)
    /\ UNCHANGED <<world, phase, clients, items, text, networks>>
    /\ UNCHANGED <<auto, timer, timers, fetches>>

-----------------------------------------------------------------------------
(* The timer.                                                              *)


(***************************************************************************)
(* startRefreshInterval                                                    *)
(***************************************************************************)
Start ==
    \E id \in Timers \ timers :
      /\ timer' = id
      /\ timers' = (timers \ {timer}) \union {id}

\* Seeded fault: the interval is forgotten but not cleared.
Stop_NotCleared == timer' = Nothing /\ UNCHANGED timers

(***************************************************************************)
(* stopRefreshInterval                                                     *)
(***************************************************************************)
Stop ==
    /\ timer' = Nothing
    /\ timers' = timers \ {timer}

Toggle ==
    /\ phase = "open"
    /\ auto' = ~ auto
    /\ IF auto' THEN Start ELSE Stop
    /\ UNCHANGED <<world, phase, view, fetches>>

(***************************************************************************)
(* An interval fires: doRefresh starts a fetch.                            *)
(***************************************************************************)
Refresh ==
    /\ phase = "open"
    /\ timers # {}
    /\ \E f \in Fetches :
         /\ fetches[f].state = "none"
         /\ fetches' = [fetches EXCEPT ![f] = [state |-> "asked"]]
    /\ UNCHANGED <<world, phase, view, auto, timer, timers>>

-----------------------------------------------------------------------------
(* Applying an answer.                                                     *)

\* Seeded fault: "detail-" is left in front of the identifier searched for.
Gone_Always(rows) == TRUE

(***************************************************************************)
(* The client whose detail is shown is not in the answer.                  *)
(***************************************************************************)
Gone(rows) == active \notin IdsOf(rows)

(***************************************************************************)
(* The sidebar is written anew, without a highlight.  The detail that is   *)
(* shown gets the values of its client in its heading, its status and its  *)
(* first table, and new charts, and all other charts are forgotten; if its *)
(* client is gone the first one is shown.  The second table of a detail,   *)
(* its network interfaces, is never written again.                         *)
(***************************************************************************)
Deliver(f) ==
    /\ phase = "open"
    /\ fetches[f].state = "answered"
    /\ fetches' = [fetches EXCEPT ![f] = NoFetch]
    /\ LET rows == fetches[f].rows IN
         /\ clients' = rows
         /\ items' = rows
         /\ \/ /\ active # Nothing
               /\ ~ Gone(rows)
               /\ text' = [text EXCEPT ![active] = LatestOf(rows, active)]
               /\ charts' = [c \in DOMAIN charts |->
                               IF c = active
                                 THEN CreateOrUpdate(Forgotten(Renewed(charts[c])),
                                                     LatestOf(rows, c))
                                 ELSE Forgotten(charts[c])]
               /\ highlight' = Nothing
               /\ UNCHANGED <<active, empty>>
            \/ /\ active # Nothing
               /\ Gone(rows)
               /\ rows # << >>
               /\ ShowDetail(rows[1].id, rows, rows)
               /\ UNCHANGED text
            \/ /\ active = Nothing \/ rows = << >>
               /\ highlight' = Nothing
               /\ UNCHANGED <<text, charts, active, empty>>
    /\ UNCHANGED <<world, phase, networks, auto, timer, timers>>

-----------------------------------------------------------------------------
(* Loading the page: generate_html writes its three sections, and looks at *)
(* client_count between the second and the third; then the script runs.    *)

LoadSide ==
    /\ phase = "side"
    /\ phase' = "detail"
    /\ items' = server
    /\ UNCHANGED <<world, clients, highlight, text, networks, charts, active, empty>>
    /\ UNCHANGED <<auto, timer, timers, fetches>>

LoadDetail ==
    /\ phase = "detail"
    /\ phase' = "notice"
    /\ text' = [c \in IdsOf(server) |-> LatestOf(server, c)]
    /\ networks' = text'
    /\ charts' = [c \in IdsOf(server) |-> [drawn |-> 0, key |-> "none"]]
    /\ UNCHANGED <<world, clients, items, highlight, active, empty>>
    /\ UNCHANGED <<auto, timer, timers, fetches>>

LoadNotice ==
    /\ phase = "notice"
    /\ phase' = "script"
    /\ empty' = (server = << >>)
    /\ UNCHANGED <<world, clients, items, highlight, text, networks, charts, active>>
    /\ UNCHANGED <<auto, timer, timers, fetches>>

LoadScript ==
    /\ phase = "script"
    /\ phase' = "open"
    /\ clients' = server
    /\ IF server # << >>
         THEN ShowDetail(server[1].id, server, items)
         ELSE UNCHANGED <<highlight, charts, active, empty>>
    /\ Start
    /\ UNCHANGED <<world, items, text, networks, auto, fetches>>

Load == LoadSide \/ LoadDetail \/ LoadNotice \/ LoadScript

-----------------------------------------------------------------------------
(* The specification.                                                      *)

Next ==
    \/ \E c \in ClientIds : Report(c) \/ Click(c)
    \/ Restart
    \/ \E f \in Fetches : Answer(f) \/ Lose(f) \/ Deliver(f)
    \/ Load
    \/ Toggle
    \/ Refresh

Spec == Init /\ [][Next]_vars

(***************************************************************************)
(* The page loads, the interval fires, the server answers what it is       *)
(* asked and the browser runs the script on what has come.  The user need  *)
(* not do anything.                                                        *)
(***************************************************************************)
FairSpec ==
    /\ Spec
    /\ WF_vars(Load)
    /\ WF_vars(Refresh)
    /\ \A f \in Fetches : WF_vars(Answer(f)) /\ WF_vars(Deliver(f))

-----------------------------------------------------------------------------
(* Properties.                                                             *)

(***************************************************************************)
(* However often the user presses the button, one interval runs while      *)
(* "Auto Refresh" is on and none while it is off: none is started twice    *)
(* and none is left that nothing could stop.                               *)
(***************************************************************************)
OneInterval ==
    phase = "open" =>
      /\ timers = IF auto THEN {timer} ELSE {}
      /\ auto <=> timer # Nothing

(***************************************************************************)
(* No chart that was destroyed with its canvas is ever updated again, and  *)
(* every chart that loadCharts knows is on the page with data in it.       *)
(***************************************************************************)
KnownChartsAreDrawn ==
    /\ TypeOK
    /\ \A c \in DOMAIN charts :
         /\ charts[c].key # "dead"
         /\ charts[c].key = "live" => charts[c].drawn > 0

(***************************************************************************)
(* A refresh, however late and in whatever order the answers come, leaves  *)
(* the selected client selected as long as the answer has it; and the      *)
(* answers always have it unless the server was restarted (doc/项目概述.md *)
(* :236).                                                                  *)
(***************************************************************************)
RefreshKeepsSelection ==
    [][clients' # clients /\ active # Nothing =>
         \/ active' = active
         \/ restarts > 0 /\ active \notin IdsOf(clients')]_vars

(***************************************************************************)
(* A refresh shows one moment of the server in all it writes: in the       *)
(* sidebar, and in the heading, the first table and the charts of the      *)
(* selected client, whatever was clicked before.  Only the network         *)
(* interfaces below them are of another moment, that of the page's         *)
(* loading, and never of a later one than the values above them.           *)
(***************************************************************************)
RefreshIsWhole ==
    [][phase = "open" /\ clients' # clients =>
         /\ items' = clients'
         /\ active \in IdsOf(clients') =>
              /\ text'[active] = LatestOf(clients', active)
              /\ charts'[active].drawn = text'[active]
              /\ networks'[active] = networks[active]
              /\ networks'[active] <= text'[active]]_vars

(***************************************************************************)
(* While "Auto Refresh" stays on and requests are no longer lost, the page *)
(* comes to show what the server has, although answers may overtake one    *)
(* another and the user goes on clicking: for good in the sidebar, and in  *)
(* the selected detail again and again (a click may uncover old values),   *)
(* but for its network interfaces.                                         *)
(***************************************************************************)
Loss == \E f \in Fetches : Lose(f)

DetailIsCurrent ==
    active \in IdsOf(server) =>
      /\ text[active] = LatestOf(server, active)
      /\ charts[active].drawn = text[active]


(***************************************************************************)
(* doc/项目概述.md:234: clicking in the list on the left switches to that  *)
(* client.                                                                 *)
(***************************************************************************)
ClickSwitches == [][\A c \in ClientIds : Click(c) => active' = c]_vars
=============================================================================
