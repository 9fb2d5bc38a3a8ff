------------------------------- MODULE Agents -------------------------------
(***************************************************************************)
(* The monitored machines and the servers they report to: the main loop of *)
(* C/client.c against servers that lose everything when they stop.         *)
(*                                                                         *)
(* A client collects, and sends the report to one URL after another, each  *)
(* over a connection of its own; it waits for an answer as long as the     *)
(* connection lasts, and whatever comes of it, goes on to the next URL.    *)
(* On the other end a thread stores the report and answers, whether or not *)
(* the client is still there.  How the threads of one server share its     *)
(* table is the subject of CServer: here a report is stored in one step,   *)
(* as in MonitorStore.                                                     *)
(*                                                                         *)
(* A browser may leave while its answer is being sent.  handle_request     *)
(* sends in two calls and SIGPIPE is not ignored: the second may end the   *)
(* server process.  systemd starts it again, empty.                        *)
(***************************************************************************)
EXTENDS Integers, Sequences, FiniteSets

CONSTANTS
    Agents,        \* the machines a client runs on
    Servers,       \* the servers
    Urls,          \* config.urls, the same for all: a sequence of servers
    Responsive,    \* the servers whose threads are not held up for ever
    ClientIds,     \* client_id values
    IdsOf(_),      \* those a client may start with: one, or what rand() gives
    Viewers,       \* connections of browsers
    MAX_CLIENTS,   \* common.h
    HISTORY_SIZE,  \* common.h
    MaxReports,    \* bound: reports told apart; later ones share this number
    MaxStops,      \* bound: how often servers are stopped
    MaxDeaths,     \* bound: how often clients are stopped
    MaxVisits      \* bound: how often browsers connect

ASSUME SizesAssumption ==
    /\ MAX_CLIENTS \in Nat \ {0}
    /\ HISTORY_SIZE \in Nat \ {0}
    /\ MaxReports \in Nat \ {0}
    /\ MaxStops \in Nat
    /\ MaxDeaths \in Nat
    /\ MaxVisits \in Nat

ASSUME NamesAssumption ==
    /\ Servers # {}
    /\ Urls \in Seq(Servers)
    /\ Responsive \subseteq Servers
    /\ \A a \in Agents : IdsOf(a) # {} /\ IdsOf(a) \subseteq ClientIds

VARIABLES
    up,         \* whether each server runs
    store,      \* what each server holds: client_id -> its last reports
    threads,    \* the server threads that have received a report
    agent,      \* each client process
    made,       \* reports collected so far
    abandoned,  \* history variable: reports not waited for until answered
    visit,      \* each browser connection
    stops, deaths, visits    \* how often these happened

counters == <<made, stops, deaths, visits>>
vars == <<up, store, threads, agent, abandoned, visit, counters>>

-----------------------------------------------------------------------------
(* Types.                                                                  *)

Serials == 1..MaxReports

Entry == [agent : Agents, report : Serials]

Thread ==
    [agent : Agents, id : ClientIds, report : Serials, server : Servers,
     state : {"got", "stored"}]

Agent ==
    [pc     : {"dead", "collect", "send", "wait", "sleep"},
     id     : ClientIds,
     report : Serials,
     next   : 1..(Len(Urls) + 1),
     wire   : {"none", "open", "ok", "lost"}]

Visit ==
    [server : Servers, state : {"none", "asked", "headed"}, gone : BOOLEAN]

TypeOK ==
    /\ up \in [Servers -> BOOLEAN]
    /\ \A s \in Servers :
         /\ DOMAIN store[s] \subseteq ClientIds
         /\ Cardinality(DOMAIN store[s]) <= MAX_CLIENTS
         /\ \A c \in DOMAIN store[s] :
              store[s][c] \in Seq(Entry) /\ Len(store[s][c]) \in 1..HISTORY_SIZE
    /\ threads \subseteq Thread
    /\ agent \in [Agents -> Agent]
    /\ made \in 0..MaxReports
    /\ abandoned \subseteq Serials
    /\ visit \in [Viewers -> Visit]

EmptyMap == [c \in {} |-> << >>]

Init ==
    /\ up = [s \in Servers |-> TRUE]
    /\ store = [s \in Servers |-> EmptyMap]
    /\ threads = {}
    /\ agent = [a \in Agents |->
         [pc |-> "dead", id |-> CHOOSE c \in IdsOf(a) : TRUE,
          report |-> 1, next |-> 1, wire |-> "none"]]
    /\ made = 0
    /\ abandoned = {}
    /\ visit = [v \in Viewers |->
         [server |-> CHOOSE s \in Servers : TRUE, state |-> "none", gone |-> FALSE]]
    /\ stops = 0
    /\ deaths = 0
    /\ visits = 0

-----------------------------------------------------------------------------
(* The client.                                                             *)

(***************************************************************************)
(* main: --id, or generate_client_id, which is seeded with the time in     *)
(* seconds and so may give two machines the same identifier.               *)
(***************************************************************************)
StartAgent(a) ==
    /\ agent[a].pc = "dead"
    /\ \E c \in IdsOf(a) :
         agent' = [agent EXCEPT ![a].pc = "collect", ![a].id = c]
    /\ UNCHANGED <<up, store, threads, abandoned, visit, counters>>

(***************************************************************************)
(* The process is stopped; a report it was waiting on is on its own.       *)
(***************************************************************************)
Abandon(a) ==
    IF agent[a].wire = "open" THEN abandoned \union {agent[a].report} ELSE abandoned

StopAgent(a) ==
    /\ agent[a].pc # "dead"
    /\ deaths < MaxDeaths
    /\ deaths' = deaths + 1
    /\ agent' = [agent EXCEPT ![a].pc = "dead", ![a].wire = "none"]
    /\ abandoned' = Abandon(a)
    /\ UNCHANGED <<up, store, threads, visit, made, stops, visits>>

(***************************************************************************)
(* get_system_info and build_json, at the top of the loop.                 *)
(***************************************************************************)
Collect(a) ==
    /\ agent[a].pc = "collect"
    /\ made' = IF made < MaxReports THEN made + 1 ELSE made
    /\ agent' = [agent EXCEPT ![a].pc = "send", ![a].report = made', ![a].next = 1]
    /\ UNCHANGED <<up, store, threads, abandoned, visit, stops, deaths, visits>>

\* Seeded fault: the client goes on without waiting for an answer.
Send_Hastily(a) ==
    /\ agent[a].pc = "send"
    /\ agent[a].next <= Len(Urls)
    /\ LET s == Urls[agent[a].next] IN
         threads' = IF up[s]
                      THEN threads \union
                        {[agent |-> a, id |-> agent[a].id, report |-> agent[a].report,
                          server |-> s, state |-> "got"]}
                      ELSE threads
    /\ agent' = [agent EXCEPT ![a].next = @ + 1]
    /\ UNCHANGED <<up, store, abandoned, visit, counters>>

(***************************************************************************)
(* send_http_post up to its recv.  A server that is down refuses.          *)
(***************************************************************************)
Send(a) ==
    /\ agent[a].pc = "send"
    /\ agent[a].next <= Len(Urls)
    /\ LET s == Urls[agent[a].next] IN
         \/ /\ up[s]
            /\ threads' = threads \union
                 {[agent |-> a, id |-> agent[a].id, report |-> agent[a].report,
                   server |-> s, state |-> "got"]}
            /\ agent' = [agent EXCEPT ![a].pc = "wait", ![a].wire = "open"]
         \/ /\ ~ up[s]
            /\ agent' = [agent EXCEPT ![a].next = @ + 1]
            /\ UNCHANGED threads
    /\ UNCHANGED <<up, store, abandoned, visit, counters>>

\* Seeded fault: a report that was not acknowledged is sent again.
NextUrl_Retry(a) == IF agent[a].wire = "ok" THEN agent[a].next + 1 ELSE agent[a].next

(***************************************************************************)
(* A failure is printed, if anything; the report is not sent again.        *)
(***************************************************************************)
NextUrl(a) == agent[a].next + 1

\* Seeded fault: recv is called until an answer comes.
Result_Insists(a) ==
    /\ agent[a].pc = "wait"
    /\ agent[a].wire = "ok"
    /\ agent' = [agent EXCEPT ![a].pc = "send", ![a].wire = "none",
                              ![a].next = NextUrl(a)]
    /\ UNCHANGED <<up, store, threads, abandoned, visit, counters>>

(***************************************************************************)
(* recv returns: with an answer, or because the connection is gone.        *)
(***************************************************************************)
Result(a) ==
    /\ agent[a].pc = "wait"
    /\ agent[a].wire \in {"ok", "lost"}
    /\ agent' = [agent EXCEPT ![a].pc = "send", ![a].wire = "none",
                              ![a].next = NextUrl(a)]
    /\ UNCHANGED <<up, store, threads, abandoned, visit, counters>>

Sleep(a) ==
    /\ agent[a].pc = "send"
    /\ agent[a].next > Len(Urls)
    /\ agent' = [agent EXCEPT ![a].pc = "sleep"]
    /\ UNCHANGED <<up, store, threads, abandoned, visit, counters>>

Wake(a) ==
    /\ agent[a].pc = "sleep"
    /\ agent' = [agent EXCEPT ![a].pc = "collect"]
    /\ UNCHANGED <<up, store, threads, abandoned, visit, counters>>

-----------------------------------------------------------------------------
(* The server.                                                             *)

HasRoom(s, c) ==
    c \in DOMAIN store[s] \/ Cardinality(DOMAIN store[s]) < MAX_CLIENTS

Push(reports, e) ==
    Append(IF Len(reports) >= HISTORY_SIZE THEN Tail(reports) ELSE reports, e)

Reports(s, c) == IF c \in DOMAIN store[s] THEN store[s][c] ELSE << >>

(***************************************************************************)
(* handle_client's critical section.                                       *)
(***************************************************************************)
Store(th) ==
    /\ th.state = "got"
    /\ threads' = (threads \ {th}) \union {[th EXCEPT !.state = "stored"]}
    /\ LET s == th.server
           e == [agent |-> th.agent, report |-> th.report]
       IN  store' =
             IF HasRoom(s, th.id)
               THEN [store EXCEPT ![s] =
                       [c \in DOMAIN @ \union {th.id} |->
                          IF c = th.id THEN Push(Reports(s, c), e) ELSE @[c]]]
               ELSE store
    /\ UNCHANGED <<up, agent, abandoned, visit, counters>>

(***************************************************************************)
(* The client of a thread is still waiting for its answer.                 *)
(***************************************************************************)
IsWaiting(th) ==
    LET a == agent[th.agent] IN
      /\ a.wire = "open"
      /\ a.report = th.report
      /\ Urls[a.next] = th.server

Reply(th) ==
    /\ th.state = "stored"
    /\ threads' = threads \ {th}
    /\ agent' = IF IsWaiting(th) THEN [agent EXCEPT ![th.agent].wire = "ok"] ELSE agent
    /\ UNCHANGED <<up, store, abandoned, visit, counters>>

(***************************************************************************)
(* The connection breaks: before the server has received the report, or    *)
(* later; then its thread does not notice.                                 *)
(***************************************************************************)
Lose(a) ==
    /\ agent[a].wire = "open"
    /\ agent' = [agent EXCEPT ![a].wire = "lost"]
    /\ \/ /\ abandoned' = Abandon(a)
          /\ UNCHANGED threads
       \/ /\ \E th \in threads :
               /\ IsWaiting(th) /\ th.agent = a /\ th.state = "got"
               /\ threads' = threads \ {th}
          /\ UNCHANGED abandoned
    /\ UNCHANGED <<up, store, visit, counters>>

(***************************************************************************)
(* The process ends: its memory, its threads and its connections are gone. *)
(***************************************************************************)
Ends(s) ==
    /\ up' = [up EXCEPT ![s] = FALSE]
    /\ store' = [store EXCEPT ![s] = EmptyMap]
    /\ threads' = {th \in threads : th.server # s}
    /\ agent' = [a \in Agents |->
                   IF agent[a].wire = "open" /\ Urls[agent[a].next] = s
                     THEN [agent[a] EXCEPT !.wire = "lost"]
                     ELSE agent[a]]
    /\ visit' = [v \in Viewers |->
                   IF visit[v].server = s
                     THEN [visit[v] EXCEPT !.state = "none"]
                     ELSE visit[v]]

Stop(s) ==
    /\ up[s]
    /\ stops < MaxStops
    /\ stops' = stops + 1
    /\ Ends(s)
    /\ UNCHANGED <<made, abandoned, deaths, visits>>

StartServer(s) ==
    /\ ~ up[s]
    /\ up' = [up EXCEPT ![s] = TRUE]
    /\ UNCHANGED <<store, threads, agent, abandoned, visit, counters>>

-----------------------------------------------------------------------------
(* A browser's connection: /data or the page.                              *)

Ask(v, s) ==
    /\ visit[v].state = "none"
    /\ up[s]
    /\ visits < MaxVisits
    /\ visits' = visits + 1
    /\ visit' = [visit EXCEPT ![v] = [server |-> s, state |-> "asked", gone |-> FALSE]]
    /\ UNCHANGED <<up, store, threads, agent, abandoned, made, stops, deaths>>

Leave(v) ==
    /\ visit[v].state # "none"
    /\ ~ visit[v].gone
    /\ visit' = [visit EXCEPT ![v].gone = TRUE]
    /\ UNCHANGED <<up, store, threads, agent, abandoned, counters>>

SendHeader(v) ==
    /\ visit[v].state = "asked"
    /\ visit' = [visit EXCEPT ![v].state = "headed"]
    /\ UNCHANGED <<up, store, threads, agent, abandoned, counters>>

(***************************************************************************)
(* The second send.  When the peer has left and its reset has come, it     *)
(* raises SIGPIPE.                                                         *)
(***************************************************************************)
SendBody(v) ==
    /\ visit[v].state = "headed"
    /\ \/ /\ visit' = [visit EXCEPT ![v].state = "none"]
          /\ UNCHANGED <<up, store, threads, agent>>
       \/ /\ visit[v].gone
          /\ Ends(visit[v].server)
    /\ UNCHANGED <<abandoned, counters>>

-----------------------------------------------------------------------------
(* The specification.                                                      *)

Work(a) == Collect(a) \/ Send(a) \/ Result(a) \/ Sleep(a) \/ Wake(a)

ServeAgent(s, a) ==
    \E th \in threads :
      /\ th.server = s /\ th.agent = a
      /\ Store(th) \/ Reply(th)

ServeViewer(s, v) == visit[v].server = s /\ (SendHeader(v) \/ SendBody(v))

Next ==
    \/ \E a \in Agents : StartAgent(a) \/ StopAgent(a) \/ Work(a) \/ Lose(a)
    \/ \E s \in Servers :
         \/ Stop(s) \/ StartServer(s)
         \/ \E a \in Agents : ServeAgent(s, a)
         \/ \E v \in Viewers : Ask(v, s) \/ ServeViewer(s, v)
    \/ \E v \in Viewers : Leave(v)

Spec == Init /\ [][Next]_vars

(***************************************************************************)
(* A client that runs goes on when it can, and systemd restarts a server   *)
(* (doc/部署指南.md:101, Restart=always).  A server that is up need not    *)
(* answer unless it is Responsive: nothing on either side has a timeout.   *)
(***************************************************************************)
FairSpec ==
    /\ Spec
    /\ \A a \in Agents : WF_vars(Work(a))
    /\ \A s \in Servers : WF_vars(StartServer(s))
    /\ \A s \in Responsive, a \in Agents : WF_vars(ServeAgent(s, a))

-----------------------------------------------------------------------------
(* Properties.                                                             *)

(***************************************************************************)
(* A report is stored by a server at most once, although the client cannot *)
(* know of one without an answer whether it was: nothing is sent again.    *)
(* (A URL that the command line gives twice is another matter.)            *)
(***************************************************************************)
Same(e, f) == e.agent = f.agent /\ e.report = f.report /\ e.report < MaxReports

StoredOnce ==
    /\ TypeOK
    /\ \A s \in Servers : \A c \in DOMAIN store[s] :
         LET r == store[s][c] IN
           \A j, k \in DOMAIN r : Same(r[j], r[k]) => j = k

(***************************************************************************)
(* Reports of one machine are stored in the order they were collected in,  *)
(* although each has a connection and a thread of its own.  Only one whose *)
(* answer was not waited for may be overtaken.                             *)
(***************************************************************************)
StoredInOrder ==
    \A s \in Servers : \A c \in DOMAIN store[s] :
      LET r == store[s][c] IN
        \A j, k \in DOMAIN r :
          j < k /\ r[j].agent = r[k].agent /\ r[j].report > r[k].report
            => r[k].report \in abandoned

Known(s, c) == c \in DOMAIN store[s]

(***************************************************************************)
(* The machines come back by themselves: whatever was stopped before, once *)
(* a client and the servers stay up and connections are not lost, every    *)
(* server comes to know the client for good, unless it has no room.        *)
(***************************************************************************)
Runs(a) == agent[a].pc # "dead"

Settled(a) ==
    /\ <>[]Runs(a)
    /\ <>[][\A b \in Agents : ~ Lose(b)]_vars

BecomesKnown ==
    \A a \in Agents, s \in Servers :
      Settled(a) /\ <>[]up[s] /\ <>[]HasRoom(s, agent[a].id)
        => <>[]Known(s, agent[a].id)
=============================================================================
