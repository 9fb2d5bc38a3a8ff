---------------------------- MODULE MonitorStore ----------------------------
(***************************************************************************)
(* What the monitoring server promises, apart from how it does it: a map   *)
(* from client identifier to the sequence of reports received from it, of  *)
(* which a viewer sees the last HISTORY_SIZE.  A report takes effect, and  *)
(* a view is taken, at one instant between the moment its session becomes  *)
(* active and the moment the session ends, so that a view contains every   *)
(* report whose session had ended before the view's began.                 *)
(*                                                                         *)
(* Both servers, CServer and GoServer, implement this specification.       *)
(***************************************************************************)
EXTENDS Naturals, Sequences, FiniteSets

CONSTANTS
    Sessions,       \* who talks to the server
    ClientIds,      \* the identifiers monitored machines report under
    Reports,        \* the reports they may send
    Times,          \* the instants a report may be stamped with
    MAX_CLIENTS,    \* how many identifiers the store has room for
    HISTORY_SIZE    \* how many reports of one identifier a viewer sees

VARIABLES
    log,      \* the reports stored for each identifier, oldest first
    session   \* what each session is doing

storeVars == <<log, session>>

Idle == [op |-> "idle"]

Known == {c \in ClientIds : log[c] # << >>}

(***************************************************************************)
(* The last HISTORY_SIZE elements of a log.                                *)
(***************************************************************************)
Window(s) ==
    LET h == IF Len(s) < HISTORY_SIZE THEN Len(s) ELSE HISTORY_SIZE
    IN  [k \in 1..h |-> s[Len(s) - h + k]]

(***************************************************************************)
(* For each known identifier, its newest report and its window as the      *)
(* three parallel series the charts are drawn from.                        *)
(***************************************************************************)
View ==
    [c \in Known |->
        LET w == Window(log[c])
        IN  [latest |-> w[Len(w)].report,
             load   |-> [k \in DOMAIN w |-> w[k].report],
             mem    |-> [k \in DOMAIN w |-> w[k].report],
             time   |-> [k \in DOMAIN w |-> w[k].time]]]

-----------------------------------------------------------------------------

Init ==
    /\ log = [c \in ClientIds |-> << >>]
    /\ session = [s \in Sessions |-> Idle]

Begin(s) ==
    /\ session[s] = Idle
    /\ \E q \in [op : {"report"}, id : ClientIds, report : Reports]
                  \union {[op |-> "query"]} :
          session' = [session EXCEPT ![s] = q]
    /\ UNCHANGED log

(***************************************************************************)
(* A report is stored when its identifier is known or there is room for a  *)
(* new one; its stamp is no older than the one before it.                  *)
(***************************************************************************)
Store(s) ==
    /\ session[s].op = "report"
    /\ LET c == session[s].id IN
         /\ c \in Known \/ Cardinality(Known) < MAX_CLIENTS
         /\ \E now \in Times :
              /\ log[c] # << >> => now >= log[c][Len(log[c])].time
              /\ log' = [log EXCEPT ![c] =
                           Append(@, [report |-> session[s].report, time |-> now])]
    /\ session' = [session EXCEPT ![s] = [op |-> "stored"]]

(***************************************************************************)
(* Only a new identifier that finds the store full is turned away.         *)
(***************************************************************************)
Drop(s) ==
    /\ session[s].op = "report"
    /\ session[s].id \notin Known
    /\ Cardinality(Known) = MAX_CLIENTS
    /\ session' = [session EXCEPT ![s] = [op |-> "dropped"]]
    /\ UNCHANGED log

Answer(s) ==
    /\ session[s].op = "query"
    /\ session' = [session EXCEPT ![s] = [op |-> "answered", view |-> View]]
    /\ UNCHANGED log

Finish(s) ==
    /\ session[s].op \in {"stored", "dropped", "answered"}
    /\ session' = [session EXCEPT ![s] = Idle]
    /\ UNCHANGED log

Next ==
    \E s \in Sessions : Begin(s) \/ Store(s) \/ Drop(s) \/ Answer(s) \/ Finish(s)

Spec == Init /\ [][Next]_storeVars
=============================================================================
