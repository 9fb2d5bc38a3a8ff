---------------------------- MODULE WebUIProofs ----------------------------
(***************************************************************************)
(* Proofs about the page, for any clients, any number of requests under    *)
(* way and any numbers the browser may give its intervals: one interval    *)
(* at most, no chart drawn on a canvas that is gone, and a refresh that    *)
(* keeps the selection and shows one answer in all it writes.              *)
(***************************************************************************)
EXTENDS WebUI, SequenceTheorems, WellFoundedInduction, TLAPS

-----------------------------------------------------------------------------
(* The invariant.                                                          *)

RowsOK == IsRows(server) /\ IsRows(clients) /\ IsRows(items)

NumbersOK ==
    /\ sent \in 0..MaxReports
    /\ restarts \in 0..MaxRestarts
    /\ phase \in {"side", "detail", "notice", "script", "open"}

(***************************************************************************)
(* A chart that the script may hold, or has forgotten.                     *)
(***************************************************************************)
ChartOK(chart) ==
    /\ chart \in Chart
    /\ chart.key # "dead"
    /\ chart.key = "live" => chart.drawn > 0

ChartsOK(cs, blocks) ==
    /\ cs \in [blocks -> Chart]
    /\ \A c \in blocks : ChartOK(cs[c])

TextOK(t) ==
    /\ DOMAIN t \subseteq ClientIds
    /\ \A c \in DOMAIN t : t[c] \in Reports

DetailOK ==
    /\ TextOK(text)
    /\ networks \in [DOMAIN text -> Reports]
    /\ ChartsOK(charts, DOMAIN text)
    /\ highlight \in ClientIds \union {Nothing}
    /\ active \in DOMAIN text \union {Nothing}
    /\ empty \in BOOLEAN

TimerOK ==
    /\ auto \in BOOLEAN
    /\ timer \in Timers \union {Nothing}
    /\ timers \subseteq Timers

FetchOK ==
    /\ fetches = [f \in Fetches |-> fetches[f]]
    /\ \A f \in Fetches :
         \/ fetches[f].state \in {"none", "asked"}
         \/ fetches[f].state = "answered" /\ IsRows(fetches[f].rows)

(***************************************************************************)
(* Until the script runs nothing is selected and nothing has been asked.   *)
(***************************************************************************)
LoadOK ==
    phase # "open" =>
      /\ active = Nothing
      /\ auto
      /\ timer = Nothing
      /\ timers = {}
      /\ \A f \in Fetches : fetches[f] = NoFetch

(***************************************************************************)
(* Clients are only ever added to the server's table while it runs: what   *)
(* the page has a detail of is still there, and so it is in every answer.  *)
(***************************************************************************)
HasDetails(rows) == DOMAIN text \subseteq IdsOf(rows)

KnownOK ==
    restarts = 0 =>
      /\ HasDetails(server)
      /\ \A f \in Fetches :
           fetches[f].state = "answered" => HasDetails(fetches[f].rows)

(***************************************************************************)
(* Reports are numbered upwards, so the network interfaces of a detail,    *)
(* which stay as the page was loaded, are never newer than what the server *)
(* has of the client then or later, nor than what an answer has.           *)
(***************************************************************************)
NoNewer(rows) ==
    \A c \in DOMAIN text :
      c \in IdsOf(rows) => networks[c] <= LatestOf(rows, c)

FreshOK ==
    /\ \A i \in DOMAIN server : server[i].latest <= sent
    /\ \A c \in DOMAIN text : networks[c] <= sent
    /\ NoNewer(server)
    /\ \A f \in Fetches :
         fetches[f].state = "answered" => NoNewer(fetches[f].rows)

Types == RowsOK /\ NumbersOK /\ DetailOK /\ TimerOK /\ FetchOK

PageInv ==
    /\ Types
    /\ LoadOK
    /\ OneInterval
    /\ KnownOK
    /\ FreshOK

-----------------------------------------------------------------------------
(* Rows.                                                                   *)

LEMMA RowsDef ==
    ASSUME NEW rows, IsRows(rows)
    PROVE  /\ rows \in Seq([id : ClientIds, latest : Reports])
           /\ Len(rows) \in Nat
           /\ DOMAIN rows = 1..Len(rows)
           /\ \A i \in DOMAIN rows : rows[i] \in [id : ClientIds, latest : Reports]
           /\ IdsOf(rows) \subseteq ClientIds
  <1>1. /\ rows \in Seq([id : ClientIds, latest : Reports])
        /\ Len(rows) \in Nat
        /\ DOMAIN rows = 1..Len(rows)
    BY DEF IsRows
  <1>2. \A i \in DOMAIN rows : rows[i] \in [id : ClientIds, latest : Reports]
    BY <1>1, ElementOfSeq
  <1>3. \A i \in DOMAIN rows : rows[i].id \in ClientIds
    BY <1>2
  <1> QED
    BY <1>1, <1>2, <1>3 DEF IdsOf

LEMMA NoRows == IsRows(<< >>) /\ IdsOf(<< >>) = {}
  <1>1. DOMAIN << >> = {}
    OBVIOUS
  <1> QED
    BY <1>1 DEF IsRows, IdsOf

LEMMA LatestType ==
    ASSUME NEW rows, IsRows(rows), NEW c \in IdsOf(rows)
    PROVE  LatestOf(rows, c) \in Reports
  <1>1. PICK i \in DOMAIN rows : rows[i].id = c
    BY DEF IdsOf
  <1> DEFINE k == CHOOSE j \in DOMAIN rows : rows[j].id = c
  <1>2. k \in DOMAIN rows
    BY <1>1
  <1>3. rows[k] \in [id : ClientIds, latest : Reports]
    BY <1>2, RowsDef
  <1> QED
    BY <1>3 DEF LatestOf

(***************************************************************************)
(* The row of a client is the only one with its identifier.                *)
(***************************************************************************)
LEMMA LatestOfRow ==
    ASSUME NEW rows, IsRows(rows), NEW i \in DOMAIN rows
    PROVE  LatestOf(rows, rows[i].id) = rows[i].latest
  <1> DEFINE k == CHOOSE j \in DOMAIN rows : rows[j].id = rows[i].id
  <1>1. k \in DOMAIN rows /\ rows[k].id = rows[i].id
    OBVIOUS
  <1>2. k = i
    BY <1>1 DEF IsRows
  <1> QED
    BY <1>2 DEF LatestOf

LEMMA HeadType ==
    ASSUME NEW rows, IsRows(rows), rows # << >>
    PROVE  rows[1].id \in IdsOf(rows) /\ rows[1].id \in ClientIds
  <1>1. 1 \in DOMAIN rows
    BY RowsDef, EmptySeq
  <1> QED
    BY <1>1, RowsDef DEF IdsOf

(***************************************************************************)
(* Among natural numbers there is a least one.                             *)
(***************************************************************************)
LEMMA LeastOf ==
    ASSUME NEW S, S \subseteq Nat, S # {}
    PROVE  \E i \in S : \A j \in S : i <= j
  <1>1. PICK i \in S : \A j \in S : <<j, i>> \notin OpToRel(<, Nat)
    BY NatLessThanWellFounded, WFMin
  <1>2. \A j \in S : ~ (j < i)
    BY <1>1, Zenon DEF OpToRel
  <1>3. \A j \in S : i <= j
    BY <1>2
  <1> QED
    BY <1>3

LEMMA ItemType ==
    ASSUME NEW rows, IsRows(rows), NEW c
    PROVE  ItemFor(rows, c) \in ClientIds \union {Nothing}
  <1> DEFINE match == {i \in DOMAIN rows : <<c, rows[i].id>> \in Inside}
             k == CHOOSE i \in match : \A j \in match : i <= j
  <1>1. CASE match = {}
    BY <1>1 DEF ItemFor
  <1>2. CASE match # {}
    <2>1. match \subseteq Nat
      BY RowsDef
    <2>2. \E i \in match : \A j \in match : i <= j
      BY <1>2, <2>1, LeastOf
    <2>3. k \in match
      BY <2>2
    <2>4. rows[k].id \in ClientIds
      BY <2>3, RowsDef
    <2> QED
      BY <1>2, <2>4 DEF ItemFor
  <1> QED
    BY <1>1, <1>2

-----------------------------------------------------------------------------
(* Charts.                                                                 *)

LEMMA ChartDrawn ==
    ASSUME NEW chart, ChartOK(chart), NEW latest \in Reports
    PROVE  ChartOK(CreateOrUpdate(chart, latest))
  <1>1. [drawn |-> latest, key |-> "live"] \in Chart /\ latest > 0
    BY SizesAssumption DEF Chart, Reports
  <1> QED
    BY <1>1 DEF ChartOK, CreateOrUpdate

LEMMA ChartForgotten ==
    ASSUME NEW chart, chart \in Chart
    PROVE  ChartOK(Forgotten(chart))
  BY DEF ChartOK, Chart, Forgotten

(***************************************************************************)
(* A chart whose canvas was renewed is drawn as a new one.                 *)
(***************************************************************************)
LEMMA ChartRenewed ==
    ASSUME NEW chart, chart \in Chart, NEW latest \in Reports
    PROVE  /\ ChartOK(CreateOrUpdate(Forgotten(Renewed(chart)), latest))
           /\ CreateOrUpdate(Forgotten(Renewed(chart)), latest).drawn = latest
  <1>1. Renewed(chart) \in Chart
    BY SizesAssumption DEF Renewed, Chart
  <1>2. Forgotten(Renewed(chart)) = [drawn |-> 0, key |-> "none"]
    BY DEF Renewed, Forgotten
  <1> QED
    BY <1>1, <1>2, ChartForgotten, ChartDrawn DEF CreateOrUpdate

(***************************************************************************)
(* What showDetail leaves behind.                                          *)
(***************************************************************************)
LEMMA ShowDetailType ==
    ASSUME DetailOK, NEW c, NEW rows, IsRows(rows), NEW bar, IsRows(bar),
           ShowDetail(c, rows, bar), UNCHANGED <<text, networks>>
    PROVE  DetailOK'
  <1>1. active' \in DOMAIN text \union {Nothing} /\ empty' \in BOOLEAN
    BY DEF ShowDetail
  <1>2. highlight' \in ClientIds \union {Nothing}
    BY ItemType DEF ShowDetail
  <1>3. ChartsOK(charts', DOMAIN text)
    <2>1. CASE c \in DOMAIN text \intersect IdsOf(rows)
      <3>1. LatestOf(rows, c) \in Reports
        BY <2>1, LatestType
      <3> DEFINE drawn == CreateOrUpdate(charts[c], LatestOf(rows, c))
      <3>2. ChartOK(drawn)
        BY <2>1, <3>1, ChartDrawn DEF DetailOK, ChartsOK
      <3>3. charts' = [charts EXCEPT ![c] = drawn]
        BY <2>1 DEF ShowDetail
      <3> HIDE DEF drawn
      <3> QED
        BY <3>2, <3>3 DEF DetailOK, ChartsOK, ChartOK
    <2>2. CASE c \notin DOMAIN text \intersect IdsOf(rows)
      BY <2>2 DEF ShowDetail, DetailOK
    <2> QED
      BY <2>1, <2>2
  <1> QED
    BY <1>1, <1>2, <1>3 DEF DetailOK

-----------------------------------------------------------------------------
(* The invariant holds at first.                                           *)

LEMMA InitPage == Init => PageInv
  <1> SUFFICES ASSUME Init PROVE PageInv
    OBVIOUS
  <1>1. /\ DOMAIN text = {}
        /\ DOMAIN charts = {} /\ charts = [c \in {} |-> 0]
        /\ networks = [c \in {} |-> 0]
    BY DEF Init, EmptyMap
  <1>2. RowsOK
    BY NoRows DEF Init, RowsOK
  <1>3. NumbersOK
    BY SizesAssumption DEF Init, NumbersOK
  <1>4. DetailOK
    BY <1>1 DEF Init, DetailOK, TextOK, ChartsOK
  <1>5. TimerOK
    BY DEF Init, TimerOK
  <1>6. FetchOK
    BY DEF Init, FetchOK, NoFetch
  <1>7. LoadOK
    BY DEF Init, LoadOK
  <1>8. OneInterval
    BY DEF Init, OneInterval
  <1>9. KnownOK
    BY <1>1 DEF Init, KnownOK, HasDetails, NoFetch
  <1>10. FreshOK
    <2>1. server = << >> /\ DOMAIN server = {}
      BY DEF Init
    <2>2. \A f \in Fetches : fetches[f].state = "none"
      BY DEF Init, NoFetch
    <2> QED
      BY <1>1, <2>1, <2>2 DEF FreshOK, NoNewer
  <1> QED
    BY <1>2, <1>3, <1>4, <1>5, <1>6, <1>7, <1>8, <1>9, <1>10 DEF PageInv, Types

-----------------------------------------------------------------------------
(* Steps of the server.                                                    *)

(***************************************************************************)
(* A report changes its client's row or appends one: the table stays one   *)
(* of rows, and loses nobody.                                              *)
(***************************************************************************)
LEMMA ReportRows ==
    ASSUME RowsOK, NumbersOK, NEW c \in ClientIds, Report(c)
    PROVE  IsRows(server') /\ IdsOf(server) \subseteq IdsOf(server')
  <1> DEFINE row == [id |-> c, latest |-> sent + 1]
             Row == [id : ClientIds, latest : Reports]
  <1>1. row \in Row
    BY SizesAssumption DEF NumbersOK, Report, Reports
  <1>2. IsRows(server)
    BY DEF RowsOK
  <1>3. CASE c \in IdsOf(server)
    <2>1. server' = [i \in DOMAIN server |->
                       IF server[i].id = c THEN row ELSE server[i]]
      BY <1>3 DEF Report
    <2>2. DOMAIN server' = DOMAIN server
      BY <2>1
    <2>3. \A i \in DOMAIN server : server'[i] \in Row /\ server'[i].id = server[i].id
      BY <1>1, <1>2, <2>1, RowsDef
    <2>4. server' \in Seq(Row)
      <3> HIDE DEF row, Row
      <3>1. Len(server) \in Nat /\ DOMAIN server = 1..Len(server)
        BY <1>2, RowsDef
      <3>2. server' \in [1..Len(server) -> Row]
        BY <2>1, <2>2, <2>3, <3>1
      <3> QED
        BY <3>1, <3>2, SeqDef
    <2>5. \A i, j \in DOMAIN server' : server'[i].id = server'[j].id => i = j
      BY <1>2, <2>2, <2>3 DEF IsRows
    <2>6. IsRows(server')
      BY <2>4, <2>5 DEF IsRows
    <2> QED
      BY <2>2, <2>3, <2>6 DEF IdsOf
  <1>4. CASE c \notin IdsOf(server)
    <2>1. server' = Append(server, row)
      BY <1>4 DEF Report
    <2>2. server \in Seq(Row) /\ DOMAIN server = 1..Len(server) /\ Len(server) \in Nat
      BY <1>2, RowsDef
    <2> HIDE DEF row, Row
    <2>3. /\ server' \in Seq(Row)
          /\ DOMAIN server' = 1..(Len(server) + 1)
          /\ \A i \in DOMAIN server : server'[i] = server[i]
          /\ server'[Len(server) + 1] = row
      BY <1>1, <2>1, <2>2, AppendProperties
    <2>4. row.id = c
      BY DEF row
    <2>5. \A i \in DOMAIN server : server[i].id # c
      BY <1>4 DEF IdsOf
    <2>6. \A i, j \in DOMAIN server' : server'[i].id = server'[j].id => i = j
      <3> SUFFICES ASSUME NEW i \in DOMAIN server', NEW j \in DOMAIN server',
                          server'[i].id = server'[j].id
                   PROVE  i = j
        OBVIOUS
      <3>1. \A k \in DOMAIN server' : k \in DOMAIN server \/ k = Len(server) + 1
        BY <2>2, <2>3
      <3>2. CASE i \in DOMAIN server /\ j \in DOMAIN server
        BY <1>2, <2>3, <3>2 DEF IsRows
      <3> QED
        BY <2>3, <2>4, <2>5, <3>1, <3>2
    <2>7. IsRows(server')
      BY <2>3, <2>6 DEF IsRows, Row
    <2>8. DOMAIN server \subseteq DOMAIN server'
      BY <2>2, <2>3
    <2> QED
      BY <2>3, <2>7, <2>8 DEF IdsOf
  <1> QED
    BY <1>3, <1>4

(***************************************************************************)
(* The newest report is the newest of all, and the others' rows are left.  *)
(***************************************************************************)
LEMMA ReportFresh ==
    ASSUME PageInv, NEW c \in ClientIds, Report(c)
    PROVE  FreshOK'
  <1> DEFINE row == [id |-> c, latest |-> sent + 1]
  <1>1. IsRows(server) /\ IsRows(server') /\ sent \in Nat /\ sent' = sent + 1
    BY ReportRows, SizesAssumption DEF PageInv, Types, RowsOK, NumbersOK, Report
  <1>2. UNCHANGED <<text, networks, fetches>>
    BY DEF Report, view
  <1>3. /\ networks \in [DOMAIN text -> Reports]
        /\ \A d \in DOMAIN text : networks[d] \in Int /\ networks[d] <= sent
    BY SizesAssumption DEF PageInv, Types, DetailOK, FreshOK, Reports
  <1>4. \A i \in DOMAIN server' :
          \/ server'[i] = row
          \/ i \in DOMAIN server /\ server'[i] = server[i]
    <2>1. CASE c \in IdsOf(server)
      BY <2>1 DEF Report
    <2>2. CASE c \notin IdsOf(server)
      <3>1. server' = Append(server, row)
        BY <2>2 DEF Report
      <3> HIDE DEF row
      <3>2. server \in Seq([id : ClientIds, latest : Reports])
        BY <1>1 DEF IsRows
      <3>3. /\ Len(server') = Len(server) + 1
            /\ \A i \in 1..Len(server) : server'[i] = server[i]
            /\ server'[Len(server) + 1] = row
        BY <3>1, <3>2, AppendProperties
      <3>4. /\ DOMAIN server = 1..Len(server) /\ Len(server) \in Nat
            /\ DOMAIN server' = 1..Len(server')
        BY <1>1, RowsDef
      <3> QED
        BY <3>3, <3>4
    <2> QED
      BY <2>1, <2>2
  <1>5. \A i \in DOMAIN server' : server'[i].latest <= sent + 1
    <2> SUFFICES ASSUME NEW i \in DOMAIN server' PROVE server'[i].latest <= sent + 1
      OBVIOUS
    <2>1. CASE server'[i] = row
      BY <1>1, <2>1
    <2>2. CASE i \in DOMAIN server /\ server'[i] = server[i]
      <3>1. server[i].latest \in Int
        BY <1>1, <2>2, RowsDef DEF Reports
      <3>2. server[i].latest <= sent
        BY <2>2 DEF PageInv, FreshOK
      <3> QED
        BY <1>1, <2>2, <3>1, <3>2
    <2> QED
      BY <1>4, <2>1, <2>2
  <1>6. NoNewer(server)'
    <2> SUFFICES ASSUME NEW d \in DOMAIN text, d \in IdsOf(server')
                 PROVE  networks[d] <= LatestOf(server', d)
      BY <1>2 DEF NoNewer
    <2>1. PICK i \in DOMAIN server' : server'[i].id = d
      BY DEF IdsOf
    <2>2. LatestOf(server', d) = server'[i].latest
      BY <1>1, <2>1, LatestOfRow
    <2>3. CASE server'[i] = row
      BY <1>1, <1>3, <2>2, <2>3
    <2>4. CASE i \in DOMAIN server /\ server'[i] = server[i]
      <3>1. d \in IdsOf(server) /\ LatestOf(server, d) = server[i].latest
        BY <1>1, <2>1, <2>4, LatestOfRow DEF IdsOf
      <3> QED
        BY <2>2, <2>4, <3>1 DEF PageInv, FreshOK, NoNewer
    <2> QED
      BY <1>4, <2>3, <2>4
  <1> QED
    BY <1>1, <1>2, <1>3, <1>5, <1>6 DEF PageInv, FreshOK, NoNewer

LEMMA ReportPage ==
    ASSUME PageInv, NEW c \in ClientIds, Report(c)
    PROVE  PageInv'
  <1> USE DEF Report, view
  <1>1. IsRows(server') /\ IdsOf(server) \subseteq IdsOf(server')
    BY ReportRows DEF PageInv, Types
  <1>2. RowsOK'
    BY <1>1 DEF PageInv, Types, RowsOK
  <1>3. NumbersOK'
    BY SizesAssumption DEF PageInv, Types, NumbersOK
  <1>4. DetailOK' /\ TimerOK' /\ FetchOK'
    BY DEF PageInv, Types, DetailOK, TimerOK, FetchOK
  <1>5. LoadOK' /\ OneInterval'
    BY DEF PageInv, LoadOK, OneInterval
  <1>6. KnownOK'
    BY <1>1 DEF PageInv, KnownOK, HasDetails
  <1> QED
    BY <1>2, <1>3, <1>4, <1>5, <1>6, ReportFresh DEF PageInv, Types

LEMMA RestartPage ==
    ASSUME PageInv, Restart
    PROVE  PageInv'
  <1> USE DEF Restart, view
  <1>1. RowsOK'
    BY NoRows DEF PageInv, Types, RowsOK
  <1>2. NumbersOK'
    BY SizesAssumption DEF PageInv, Types, NumbersOK
  <1>3. DetailOK' /\ TimerOK'
    BY DEF PageInv, Types, DetailOK, TimerOK
  <1>4. FetchOK'
    BY DEF PageInv, Types, FetchOK, NoFetch
  <1>5. LoadOK' /\ OneInterval'
    BY DEF PageInv, LoadOK, OneInterval
  <1>6. restarts' > 0
    BY DEF PageInv, Types, NumbersOK
  <1>7. KnownOK'
    BY <1>6 DEF KnownOK
  <1>8. FreshOK'
    <2>1. server' = << >> /\ DOMAIN server' = {} /\ IdsOf(server') = {}
      BY NoRows
    <2>2. \A f \in Fetches :
            fetches'[f].state = "answered" => fetches'[f] = fetches[f]
      BY DEF PageInv, Types, FetchOK, NoFetch
    <2>3. UNCHANGED <<text, networks, sent>>
      OBVIOUS
    <2> QED
      BY <2>1, <2>2, <2>3 DEF PageInv, FreshOK, NoNewer
  <1> QED
    BY <1>1, <1>2, <1>3, <1>4, <1>5, <1>7, <1>8 DEF PageInv, Types

LEMMA AnswerPage ==
    ASSUME PageInv, NEW f \in Fetches, Answer(f)
    PROVE  PageInv'
  <1> USE DEF Answer, view, world
  <1>1. RowsOK' /\ NumbersOK' /\ DetailOK' /\ TimerOK'
    BY DEF PageInv, Types, RowsOK, NumbersOK, DetailOK, TimerOK
  <1>2. phase = "open"
    BY DEF PageInv, LoadOK, NoFetch
  <1>3. fetches'[f].state = "answered" /\ fetches'[f].rows = server
    BY DEF PageInv, Types, FetchOK
  <1>4. \A g \in Fetches \ {f} : fetches'[g] = fetches[g]
    BY DEF PageInv, Types, FetchOK
  <1>5. FetchOK'
    BY <1>3, <1>4 DEF PageInv, Types, FetchOK, RowsOK
  <1>6. LoadOK' /\ OneInterval'
    BY <1>2 DEF PageInv, LoadOK, OneInterval
  <1>7. KnownOK'
    BY <1>3, <1>4 DEF PageInv, KnownOK, HasDetails
  <1>8. FreshOK'
    BY <1>3, <1>4 DEF PageInv, FreshOK, NoNewer
  <1> QED
    BY <1>1, <1>5, <1>6, <1>7, <1>8 DEF PageInv, Types

LEMMA LosePage ==
    ASSUME PageInv, NEW f \in Fetches, Lose(f)
    PROVE  PageInv'
  <1> USE DEF Lose, view, world
  <1>1. RowsOK' /\ NumbersOK' /\ DetailOK' /\ TimerOK'
    BY DEF PageInv, Types, RowsOK, NumbersOK, DetailOK, TimerOK
  <1>2. fetches'[f] = NoFetch /\ fetches'[f].state = "none"
    BY DEF PageInv, Types, FetchOK, NoFetch
  <1>3. \A g \in Fetches \ {f} : fetches'[g] = fetches[g]
    BY DEF PageInv, Types, FetchOK
  <1>4. FetchOK'
    BY <1>2, <1>3 DEF PageInv, Types, FetchOK
  <1>5. LoadOK' /\ OneInterval'
    BY <1>2, <1>3 DEF PageInv, LoadOK, OneInterval
  <1>6. KnownOK'
    BY <1>2, <1>3 DEF PageInv, KnownOK, HasDetails
  <1>7. FreshOK'
    BY <1>2, <1>3 DEF PageInv, FreshOK, NoNewer
  <1> QED
    BY <1>1, <1>4, <1>5, <1>6, <1>7 DEF PageInv, Types

-----------------------------------------------------------------------------
(* Steps of the page while it is open.                                     *)

LEMMA ClickPage ==
    ASSUME PageInv, NEW c \in ClientIds, Click(c)
    PROVE  PageInv'
  <1> USE DEF Click, world
  <1>1. RowsOK' /\ NumbersOK' /\ TimerOK' /\ FetchOK'
    BY DEF PageInv, Types, RowsOK, NumbersOK, TimerOK, FetchOK
  <1>2. DetailOK'
    BY ShowDetailType DEF PageInv, Types, RowsOK
  <1>3. LoadOK' /\ OneInterval'
    BY DEF PageInv, LoadOK, OneInterval
  <1>4. KnownOK' /\ FreshOK'
    BY DEF PageInv, KnownOK, HasDetails, FreshOK, NoNewer
  <1> QED
    BY <1>1, <1>2, <1>3, <1>4 DEF PageInv, Types

(***************************************************************************)
(* Starting where no interval runs leaves one, stopping leaves none.       *)
(***************************************************************************)
LEMMA StartsOne ==
    ASSUME timer = Nothing, timers = {}, Start
    PROVE  timer' \in Timers /\ timers' = {timer'} /\ timer' # Nothing
  BY NamesAssumption DEF Start

LEMMA TogglePage ==
    ASSUME PageInv, Toggle
    PROVE  PageInv'
  <1> USE DEF Toggle, world, view
  <1>1. RowsOK' /\ NumbersOK' /\ DetailOK' /\ FetchOK'
    BY DEF PageInv, Types, RowsOK, NumbersOK, DetailOK, FetchOK
  <1>2. auto \in BOOLEAN /\ auto' = ~ auto
    BY DEF PageInv, Types, TimerOK
  <1>3. TimerOK' /\ OneInterval'
    <2>1. CASE auto
      <3>1. timer' = Nothing /\ timers' = {}
        BY <2>1 DEF PageInv, OneInterval, Stop
      <3> QED
        BY <1>2, <2>1, <3>1 DEF TimerOK, OneInterval
    <2>2. CASE ~ auto
      <3>1. timer = Nothing /\ timers = {} /\ Start
        BY <2>2 DEF PageInv, OneInterval
      <3>2. timer' \in Timers /\ timers' = {timer'} /\ timer' # Nothing
        BY <3>1, StartsOne
      <3> QED
        BY <1>2, <2>2, <3>2 DEF TimerOK, OneInterval
    <2> QED
      BY <1>2, <2>1, <2>2
  <1>4. LoadOK'
    BY DEF PageInv, LoadOK
  <1>5. KnownOK' /\ FreshOK'
    BY DEF PageInv, KnownOK, HasDetails, FreshOK, NoNewer
  <1> QED
    BY <1>1, <1>3, <1>4, <1>5 DEF PageInv, Types

LEMMA RefreshPage ==
    ASSUME PageInv, Refresh
    PROVE  PageInv'
  <1> USE DEF Refresh, world, view
  <1>1. RowsOK' /\ NumbersOK' /\ DetailOK' /\ TimerOK'
    BY DEF PageInv, Types, RowsOK, NumbersOK, DetailOK, TimerOK
  <1>2. PICK f \in Fetches : fetches' = [fetches EXCEPT ![f] = [state |-> "asked"]]
    OBVIOUS
  <1>3. fetches'[f].state = "asked"
    BY <1>2 DEF PageInv, Types, FetchOK
  <1>4. \A g \in Fetches \ {f} : fetches'[g] = fetches[g]
    BY <1>2 DEF PageInv, Types, FetchOK
  <1>5. FetchOK'
    BY <1>2, <1>3, <1>4 DEF PageInv, Types, FetchOK
  <1>6. LoadOK' /\ OneInterval'
    BY DEF PageInv, LoadOK, OneInterval
  <1>7. KnownOK'
    BY <1>3, <1>4 DEF PageInv, KnownOK, HasDetails
  <1>8. FreshOK'
    BY <1>3, <1>4 DEF PageInv, FreshOK, NoNewer
  <1> QED
    BY <1>1, <1>5, <1>6, <1>7, <1>8 DEF PageInv, Types

(***************************************************************************)
(* The three ways an answer is applied: the selected client is in it, is   *)
(* gone, or there is nothing to select.                                    *)
(***************************************************************************)
Shown(rows) ==
    /\ active # Nothing
    /\ ~ Gone(rows)
    /\ text' = [text EXCEPT ![active] = LatestOf(rows, active)]
    /\ charts' = [c \in DOMAIN charts |->
                    IF c = active
                      THEN CreateOrUpdate(Forgotten(Renewed(charts[c])),
                                          LatestOf(rows, c))
                      ELSE Forgotten(charts[c])]
    /\ highlight' = Nothing
    /\ UNCHANGED <<active, empty>>

Replaced(rows) ==
    /\ active # Nothing
    /\ Gone(rows)
    /\ rows # << >>
    /\ ShowDetail(rows[1].id, rows, rows)
    /\ UNCHANGED text

NothingShown(rows) ==
    /\ active = Nothing \/ rows = << >>
    /\ highlight' = Nothing
    /\ UNCHANGED <<text, charts, active, empty>>

LEMMA DeliverCases ==
    ASSUME PageInv, NEW f \in Fetches, Deliver(f)
    PROVE  LET rows == fetches[f].rows IN
           /\ IsRows(rows)
           /\ clients' = rows /\ items' = rows
           /\ Shown(rows) \/ Replaced(rows) \/ NothingShown(rows)
  <1>1. IsRows(fetches[f].rows)
    BY DEF PageInv, Types, FetchOK, Deliver
  <1> QED
    BY <1>1 DEF Deliver, Shown, Replaced, NothingShown

(***************************************************************************)
(* The detail that stays shown has the answer's values and charts up to    *)
(* the same report, on a new canvas.                                       *)
(***************************************************************************)
LEMMA ShownDetail ==
    ASSUME DetailOK, NEW rows, IsRows(rows), Shown(rows), UNCHANGED networks
    PROVE  /\ DetailOK'
           /\ text'[active] = LatestOf(rows, active)
           /\ charts'[active].drawn = text'[active]
  <1>1. active \in IdsOf(rows) /\ active \in DOMAIN text
    BY DEF Shown, Gone, DetailOK
  <1>2. LatestOf(rows, active) \in Reports
    BY <1>1, LatestType
  <1>3. /\ text' = [text EXCEPT ![active] = LatestOf(rows, active)]
        /\ DOMAIN text' = DOMAIN text
        /\ text'[active] = LatestOf(rows, active)
    BY <1>1 DEF Shown
  <1>4. TextOK(text')
    BY <1>2, <1>3 DEF DetailOK, TextOK
  <1>5. DOMAIN charts = DOMAIN text /\ \A c \in DOMAIN text : charts[c] \in Chart
    BY DEF DetailOK, ChartsOK
  <1>6. DOMAIN charts' = DOMAIN text
    BY <1>5 DEF Shown
  <1>7. ChartOK(charts'[active]) /\ charts'[active].drawn = LatestOf(rows, active)
    BY <1>1, <1>2, <1>5, ChartRenewed DEF Shown
  <1>8. \A c \in DOMAIN text \ {active} : ChartOK(charts'[c])
    BY <1>5, ChartForgotten DEF Shown
  <1>9. ChartsOK(charts', DOMAIN text)
    <2>1. \A c \in DOMAIN text : ChartOK(charts'[c])
      BY <1>7, <1>8
    <2>2. charts' = [c \in DOMAIN text |-> charts'[c]]
      BY <1>5, <1>6 DEF Shown
    <2> QED
      BY <2>1, <2>2 DEF ChartsOK, ChartOK
  <1> QED
    BY <1>3, <1>4, <1>7, <1>9 DEF DetailOK, Shown

LEMMA DeliverPage ==
    ASSUME PageInv, NEW f \in Fetches, Deliver(f)
    PROVE  PageInv'
  <1> DEFINE rows == fetches[f].rows
  <1>1. /\ IsRows(rows)
        /\ clients' = rows /\ items' = rows
        /\ Shown(rows) \/ Replaced(rows) \/ NothingShown(rows)
    BY DeliverCases
  <1>2. /\ UNCHANGED <<server, sent, restarts, phase, networks, auto, timer, timers>>
        /\ fetches' = [fetches EXCEPT ![f] = NoFetch]
        /\ phase = "open"
    BY DEF Deliver, world
  <1> HIDE DEF rows
  <1>3. RowsOK' /\ NumbersOK' /\ TimerOK'
    BY <1>1, <1>2 DEF PageInv, Types, RowsOK, NumbersOK, TimerOK
  <1>4. DetailOK' /\ DOMAIN text' = DOMAIN text
    <2>1. CASE Shown(rows)
      BY <1>1, <1>2, <2>1, ShownDetail DEF PageInv, Types, Shown
    <2>2. CASE Replaced(rows)
      BY <1>1, <1>2, <2>2, ShowDetailType DEF PageInv, Types, Replaced
    <2>3. CASE NothingShown(rows)
      BY <1>2, <2>3 DEF PageInv, Types, NothingShown, DetailOK
    <2> QED
      BY <1>1, <2>1, <2>2, <2>3
  <1>5. fetches'[f] = NoFetch /\ fetches'[f].state = "none"
    BY <1>2 DEF PageInv, Types, FetchOK, NoFetch
  <1>6. \A g \in Fetches \ {f} : fetches'[g] = fetches[g]
    BY <1>2 DEF PageInv, Types, FetchOK
  <1>7. FetchOK'
    BY <1>2, <1>5, <1>6 DEF PageInv, Types, FetchOK
  <1>8. LoadOK' /\ OneInterval'
    BY <1>2 DEF PageInv, LoadOK, OneInterval
  <1>9. KnownOK'
    BY <1>2, <1>4, <1>5, <1>6 DEF PageInv, KnownOK, HasDetails
  <1>10. FreshOK'
    BY <1>2, <1>4, <1>5, <1>6 DEF PageInv, FreshOK, NoNewer
  <1> QED
    BY <1>3, <1>4, <1>7, <1>8, <1>9, <1>10 DEF PageInv, Types

-----------------------------------------------------------------------------
(* Steps of loading.                                                       *)

LEMMA LoadSidePage ==
    ASSUME PageInv, LoadSide
    PROVE  PageInv'
  <1> USE DEF LoadSide, world
  <1>1. RowsOK' /\ NumbersOK' /\ DetailOK' /\ TimerOK' /\ FetchOK'
    BY DEF PageInv, Types, RowsOK, NumbersOK, DetailOK, TimerOK, FetchOK
  <1>2. LoadOK' /\ OneInterval'
    BY DEF PageInv, LoadOK, OneInterval
  <1>3. KnownOK' /\ FreshOK'
    BY DEF PageInv, KnownOK, HasDetails, FreshOK, NoNewer
  <1> QED
    BY <1>1, <1>2, <1>3 DEF PageInv, Types

(***************************************************************************)
(* Every client of the table gets a detail, with its canvases still blank. *)
(***************************************************************************)
LEMMA LoadDetailPage ==
    ASSUME PageInv, LoadDetail
    PROVE  PageInv'
  <1> USE DEF LoadDetail, world
  <1>1. RowsOK' /\ NumbersOK' /\ TimerOK' /\ FetchOK'
    BY DEF PageInv, Types, RowsOK, NumbersOK, TimerOK, FetchOK
  <1>2. IsRows(server)
    BY DEF PageInv, Types, RowsOK
  <1>3. /\ DOMAIN text' = IdsOf(server) /\ TextOK(text')
        /\ networks' \in [DOMAIN text' -> Reports]
    BY <1>2, LatestType, RowsDef DEF TextOK
  <1>4. ChartsOK(charts', IdsOf(server))
    <2> DEFINE blank == [drawn |-> 0, key |-> "none"]
    <2>1. ChartOK(blank)
      BY SizesAssumption DEF ChartOK, Chart
    <2>2. charts' = [c \in IdsOf(server) |-> blank]
      OBVIOUS
    <2> HIDE DEF blank
    <2> QED
      BY <2>1, <2>2 DEF ChartsOK, ChartOK
  <1>5. active = Nothing
    BY DEF PageInv, LoadOK
  <1>6. DetailOK'
    BY <1>3, <1>4, <1>5 DEF PageInv, Types, DetailOK
  <1>7. LoadOK' /\ OneInterval'
    BY DEF PageInv, LoadOK, OneInterval
  <1>8. KnownOK'
    BY <1>3 DEF PageInv, KnownOK, LoadOK, HasDetails, NoFetch
  <1>9. FreshOK'
    <2>1. \A c \in IdsOf(server) :
            /\ networks'[c] = LatestOf(server, c)
            /\ networks'[c] \in Int
            /\ networks'[c] <= sent
      <3> SUFFICES ASSUME NEW c \in IdsOf(server)
                   PROVE  /\ networks'[c] = LatestOf(server, c)
                          /\ networks'[c] \in Int
                          /\ networks'[c] <= sent
        OBVIOUS
      <3>1. PICK i \in DOMAIN server : server[i].id = c
        BY DEF IdsOf
      <3>2. LatestOf(server, c) = server[i].latest
        BY <1>2, <3>1, LatestOfRow
      <3>3. networks'[c] = LatestOf(server, c) /\ LatestOf(server, c) \in Int
        BY <1>2, LatestType DEF Reports
      <3> QED
        BY <3>2, <3>3 DEF PageInv, FreshOK
    <2>2. NoNewer(server)'
      BY <1>3, <2>1 DEF NoNewer
    <2>3. \A f \in Fetches : fetches'[f].state = "none"
      BY DEF PageInv, LoadOK, NoFetch
    <2> QED
      BY <1>3, <2>1, <2>2, <2>3 DEF PageInv, FreshOK
  <1> QED
    BY <1>1, <1>6, <1>7, <1>8, <1>9 DEF PageInv, Types

LEMMA LoadNoticePage ==
    ASSUME PageInv, LoadNotice
    PROVE  PageInv'
  <1> USE DEF LoadNotice, world
  <1>1. RowsOK' /\ NumbersOK' /\ TimerOK' /\ FetchOK'
    BY DEF PageInv, Types, RowsOK, NumbersOK, TimerOK, FetchOK
  <1>2. DetailOK'
    <2>1. empty' \in BOOLEAN
      OBVIOUS
    <2> QED
      BY <2>1 DEF PageInv, Types, DetailOK
  <1>3. LoadOK' /\ OneInterval'
    BY DEF PageInv, LoadOK, OneInterval
  <1>4. KnownOK' /\ FreshOK'
    BY DEF PageInv, KnownOK, HasDetails, FreshOK, NoNewer
  <1> QED
    BY <1>1, <1>2, <1>3, <1>4 DEF PageInv, Types

LEMMA LoadScriptPage ==
    ASSUME PageInv, LoadScript
    PROVE  PageInv'
  <1> USE DEF LoadScript, world
  <1>1. RowsOK' /\ NumbersOK' /\ FetchOK'
    BY DEF PageInv, Types, RowsOK, NumbersOK, FetchOK
  <1>2. IsRows(server) /\ IsRows(items)
    BY DEF PageInv, Types, RowsOK
  <1>3. DetailOK'
    <2>1. CASE server # << >>
      <3>1. /\ ShowDetail(server[1].id, server, items)
            /\ UNCHANGED <<text, networks>>
        BY <2>1
      <3> QED
        BY <1>2, <3>1, ShowDetailType DEF PageInv, Types
    <2>2. CASE server = << >>
      BY <2>2 DEF PageInv, Types, DetailOK
    <2> QED
      BY <2>1, <2>2
  <1>4. timer' \in Timers /\ timers' = {timer'} /\ timer' # Nothing
    BY StartsOne DEF PageInv, LoadOK
  <1>5. auto /\ auto' = auto
    BY DEF PageInv, LoadOK
  <1>6. TimerOK' /\ OneInterval'
    BY <1>4, <1>5 DEF TimerOK, OneInterval
  <1>7. LoadOK'
    BY DEF LoadOK
  <1>8. KnownOK' /\ FreshOK'
    BY DEF PageInv, KnownOK, HasDetails, FreshOK, NoNewer
  <1> QED
    BY <1>1, <1>3, <1>6, <1>7, <1>8 DEF PageInv, Types

-----------------------------------------------------------------------------
(* Every step preserves the invariant.                                     *)

LEMMA NextPage == PageInv /\ [Next]_vars => PageInv'
  <1> SUFFICES ASSUME PageInv, [Next]_vars PROVE PageInv'
    OBVIOUS
  <1>1. ASSUME NEW c \in ClientIds, Report(c) PROVE PageInv'
    BY <1>1, ReportPage
  <1>2. ASSUME NEW c \in ClientIds, Click(c) PROVE PageInv'
    BY <1>2, ClickPage
  <1>3. CASE Restart
    BY <1>3, RestartPage
  <1>4. ASSUME NEW f \in Fetches, Answer(f) PROVE PageInv'
    BY <1>4, AnswerPage
  <1>5. ASSUME NEW f \in Fetches, Lose(f) PROVE PageInv'
    BY <1>5, LosePage
  <1>6. ASSUME NEW f \in Fetches, Deliver(f) PROVE PageInv'
    BY <1>6, DeliverPage
  <1>7. CASE Load
    BY <1>7, LoadSidePage, LoadDetailPage, LoadNoticePage, LoadScriptPage DEF Load
  <1>8. CASE Toggle
    BY <1>8, TogglePage
  <1>9. CASE Refresh
    BY <1>9, RefreshPage
  <1>10. CASE UNCHANGED vars
    <2> USE <1>10 DEF vars, world, view
    <2>1. Types'
      BY DEF PageInv, Types, RowsOK, NumbersOK, DetailOK, TimerOK, FetchOK
    <2>2. LoadOK' /\ OneInterval'
      BY DEF PageInv, LoadOK, OneInterval
    <2>3. KnownOK' /\ FreshOK'
      BY DEF PageInv, KnownOK, HasDetails, FreshOK, NoNewer
    <2> QED
      BY <2>1, <2>2, <2>3 DEF PageInv
  <1> QED
    BY <1>1, <1>2, <1>3, <1>4, <1>5, <1>6, <1>7, <1>8, <1>9, <1>10 DEF Next

LEMMA PageInvariant == Spec => []PageInv
  BY InitPage, NextPage, PTL DEF Spec

-----------------------------------------------------------------------------
(* Theorems.                                                               *)

(***************************************************************************)
(* However often the user presses the button, one interval runs while      *)
(* "Auto Refresh" is on and none while it is off.                          *)
(***************************************************************************)
THEOREM OneIntervalCorrect == Spec => []OneInterval
  <1>1. PageInv => OneInterval
    BY DEF PageInv
  <1> QED
    BY <1>1, PageInvariant, PTL

(***************************************************************************)
(* Every chart that loadCharts knows is on the page with data in it, and   *)
(* none that was destroyed with its canvas is ever updated again.          *)
(***************************************************************************)
THEOREM KnownChartsCorrect == Spec => []KnownChartsAreDrawn
  <1>1. PageInv => KnownChartsAreDrawn
    BY DEF PageInv, Types, KnownChartsAreDrawn, TypeOK, RowsOK, NumbersOK, DetailOK,
           TextOK, ChartsOK, ChartOK, TimerOK, FetchOK
  <1> QED
    BY <1>1, PageInvariant, PTL

(***************************************************************************)
(* A step that changes the script's clients runs the script for the first  *)
(* time, when nothing is selected yet, or applies an answer.               *)
(***************************************************************************)
LEMMA ClientsChange ==
    ASSUME PageInv, [Next]_vars, clients' # clients
    PROVE  \/ phase # "open" /\ active = Nothing
           \/ \E f \in Fetches : Deliver(f)
  <1>1. ASSUME NEW c \in ClientIds, Report(c) \/ Click(c) PROVE FALSE
    BY <1>1 DEF Report, Click, view
  <1>2. CASE Restart \/ Toggle \/ Refresh \/ UNCHANGED vars
    BY <1>2 DEF Restart, Toggle, Refresh, vars, view
  <1>3. ASSUME NEW f \in Fetches, Answer(f) \/ Lose(f) PROVE FALSE
    BY <1>3 DEF Answer, Lose, view
  <1>4. CASE Load
    BY <1>4 DEF Load, LoadSide, LoadDetail, LoadNotice, LoadScript, PageInv, LoadOK
  <1> QED
    BY <1>1, <1>2, <1>3, <1>4 DEF Next

(***************************************************************************)
(* A refresh leaves the selected client selected, unless the server was    *)
(* restarted and does not know it any more.                                *)
(***************************************************************************)
THEOREM RefreshKeepsSelectionCorrect == Spec => RefreshKeepsSelection
  <1> DEFINE Step == clients' # clients /\ active # Nothing =>
                       \/ active' = active
                       \/ restarts > 0 /\ active \notin IdsOf(clients')
  <1>1. PageInv /\ [Next]_vars => [Step]_vars
    <2> SUFFICES ASSUME PageInv, [Next]_vars, clients' # clients, active # Nothing
                 PROVE  \/ active' = active
                        \/ restarts > 0 /\ active \notin IdsOf(clients')
      OBVIOUS
    <2>1. PICK f \in Fetches : Deliver(f)
      BY ClientsChange
    <2> DEFINE rows == fetches[f].rows
    <2>2. /\ clients' = rows
          /\ Shown(rows) \/ Replaced(rows) \/ NothingShown(rows)
      BY <2>1, DeliverCases
    <2>3. CASE Replaced(rows)
      <3>1. active \notin IdsOf(rows) /\ active \in DOMAIN text
        BY <2>3 DEF Replaced, Gone, PageInv, Types, DetailOK
      <3>2. fetches[f].state = "answered"
        BY <2>1 DEF Deliver
      <3>3. restarts # 0
        BY <3>1, <3>2 DEF PageInv, KnownOK, HasDetails
      <3>4. restarts > 0
        BY <3>3, SizesAssumption DEF PageInv, Types, NumbersOK
      <3> QED
        BY <2>2, <3>1, <3>4
    <2> QED
      BY <2>2, <2>3 DEF Shown, NothingShown
  <1> QED
    BY <1>1, PageInvariant, PTL DEF Spec, RefreshKeepsSelection

(***************************************************************************)
(* A refresh shows one answer of the server in the sidebar and, when the   *)
(* selected client is in it, in that client's values and charts; only the  *)
(* network interfaces stay those of the page's loading, which are never    *)
(* newer than the values.                                                  *)
(***************************************************************************)
THEOREM RefreshIsWholeCorrect == Spec => RefreshIsWhole
  <1> DEFINE Step == phase = "open" /\ clients' # clients =>
                       /\ items' = clients'
                       /\ active \in IdsOf(clients') =>
                            /\ text'[active] = LatestOf(clients', active)
                            /\ charts'[active].drawn = text'[active]
                            /\ networks'[active] = networks[active]
                            /\ networks'[active] <= text'[active]
  <1>1. PageInv /\ [Next]_vars => [Step]_vars
    <2> SUFFICES ASSUME PageInv, [Next]_vars, phase = "open", clients' # clients
                 PROVE  Step
      OBVIOUS
    <2>1. PICK f \in Fetches : Deliver(f)
      BY ClientsChange
    <2> DEFINE rows == fetches[f].rows
    <2>2. /\ IsRows(rows)
          /\ clients' = rows /\ items' = rows
          /\ Shown(rows) \/ Replaced(rows) \/ NothingShown(rows)
      BY <2>1, DeliverCases
    <2>3. ASSUME active \in IdsOf(rows) PROVE Shown(rows)
      <3>1. active # Nothing /\ rows # << >>
        BY <2>2, <2>3, NoRows, RowsDef, NamesAssumption
      <3> QED
        BY <2>2, <2>3, <3>1 DEF Replaced, Gone, NothingShown
    <2>4. ASSUME active \in IdsOf(rows)
          PROVE  /\ text'[active] = LatestOf(rows, active)
                 /\ charts'[active].drawn = text'[active]
                 /\ networks'[active] = networks[active]
                 /\ networks'[active] <= text'[active]
      <3>1. UNCHANGED networks /\ fetches[f].state = "answered"
        BY <2>1 DEF Deliver
      <3>2. /\ text'[active] = LatestOf(rows, active)
            /\ charts'[active].drawn = text'[active]
        BY <2>2, <2>3, <2>4, <3>1, ShownDetail DEF PageInv, Types
      <3>3. active \in DOMAIN text
        BY <2>3, <2>4 DEF Shown, PageInv, Types, DetailOK
      <3>4. networks[active] <= LatestOf(rows, active)
        BY <2>4, <3>1, <3>3 DEF PageInv, FreshOK, NoNewer
      <3> QED
        BY <3>1, <3>2, <3>4
    <2> QED
      BY <2>2, <2>4
  <1> QED
    BY <1>1, PageInvariant, PTL DEF Spec, RefreshIsWhole
=============================================================================
