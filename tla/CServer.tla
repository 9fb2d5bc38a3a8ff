------------------------------ MODULE CServer ------------------------------
(***************************************************************************)
(* The C server, C/server.c: one detached thread per connection over a     *)
(* table of clients guarded by one mutex.                                  *)
(*                                                                         *)
(* A thread receives a request (handle_client), and either stores the      *)
(* report a POST carries or answers through handle_request.  Only the      *)
(* critical sections touch the table, except for the two reads of          *)
(* client_count that generate_html makes between its three sections.       *)
(* A step of the model is a step between two points where another thread   *)
(* or the clock can be observed.                                           *)
(*                                                                         *)
(* Time is the server's time(), which only moves forward here.  One run of *)
(* the server is modelled: the table lives in memory and starts empty.     *)
(***************************************************************************)
EXTENDS Integers, Sequences, FiniteSets

CONSTANTS
    Threads,          \* the connections served at the same time
    ClientIds,        \* values of a report's client_id
    EmptyId,          \* the client_id of a slot that was never used: ""
    NoBody,           \* a request without a body
    BadBody,          \* a body json_parse_string rejects
    NoThread,         \* the owner of a free mutex
    Requests,         \* the requests a peer may send
    MAX_CLIENTS,      \* common.h
    HISTORY_SIZE,     \* common.h
    OFFLINE_TIMEOUT,  \* common.h, in ticks
    MaxTime,          \* bound: ticks of the clock
    MaxReports        \* bound: reports sent during a run

(***************************************************************************)
(* A path is the set of its segments: handle_request only asks whether it  *)
(* is "/" and whether it contains "/index.html" or "/data".                *)
(***************************************************************************)
Segments == {"index.html", "data", "put"}

RequestType ==
    [method : {"GET", "POST", "PUT"},
     path   : SUBSET Segments,
     body   : ClientIds \union {NoBody, BadBody}]

ASSUME SizesAssumption ==
    /\ MAX_CLIENTS \in Nat \ {0}
    /\ HISTORY_SIZE \in Nat \ {0}
    /\ OFFLINE_TIMEOUT \in Nat
    /\ MaxTime \in Nat
    /\ MaxReports \in Nat

ASSUME NamesAssumption ==
    /\ NoThread \notin Threads
    /\ NoBody \notin ClientIds
    /\ BadBody \notin ClientIds
    /\ Requests \subseteq RequestType

VARIABLES
    now,           \* time(NULL)
    mutex,         \* server.mutex: its owner, or NoThread
    client_count,  \* server.client_count
    clients,       \* server.clients
    sent,          \* reports sent so far; the next one carries sent + 1
    log,           \* history variable: what was stored under each client_id
    pc,            \* where each thread is
    req,           \* the request it serves
    report,        \* the number of the report in the body, 0 if there is none
    task,          \* what the thread locks the mutex for
    found,         \* handle_client's found; 0 for -1
    cursor,        \* the index of the loop over the clients
    page,          \* the rows written into each section of the answer
    notice,        \* whether a section said that there are no clients
    reply          \* what is sent back

table == <<client_count, clients, log>>
locals == <<task, found, cursor, page, notice, reply>>
vars == <<now, mutex, client_count, clients, sent, log, pc, req, report, locals>>

-----------------------------------------------------------------------------
(* Types.                                                                  *)

Slots == 1..MAX_CLIENTS
Positions == 1..HISTORY_SIZE
Serials == 0..MaxReports
Times == 0..MaxTime

(***************************************************************************)
(* ClientHistory.  Of the ClientInfo in latest_info two fields matter: the *)
(* client_id, and the values, which all come from one report and stand     *)
(* here as its number.                                                     *)
(***************************************************************************)
ClientHistory ==
    [client_id     : ClientIds \union {EmptyId},
     latest        : Serials,
     last_seen     : Times,
     history_count : 0..HISTORY_SIZE,
     load_history  : [Positions -> Serials],
     mem_history   : [Positions -> Serials],
     time_history  : [Positions -> Times]]

Entry == [report : Serials, time : Times]

Sections == {"side", "detail", "script", "data"}

Row ==
    [id     : ClientIds \union {EmptyId},
     online : BOOLEAN,
     latest : Serials,
     load   : Seq(Serials),
     mem    : Seq(Serials),
     time   : Seq(Times)]

(***************************************************************************)
(* The places where a thread holds the mutex.                              *)
(***************************************************************************)
Critical == {"find", "store", "push", "scan", "unlock"}

Places == Critical \union {"idle", "recv", "body", "route", "lock", "check", "send"}

Replies == {"none", "ok", "redirect", "page", "data", "notfound"}

TypeOK ==
    /\ now \in Times
    /\ mutex \in Threads \union {NoThread}
    /\ client_count \in 0..MAX_CLIENTS
    /\ clients \in [Slots -> ClientHistory]
    /\ sent \in Serials
    /\ log \in [ClientIds -> Seq(Entry)]
    /\ pc \in [Threads -> Places]
    /\ req \in [Threads -> RequestType]
    /\ report \in [Threads -> Serials]
    /\ task \in [Threads -> Sections \union {"put", "none"}]
    /\ found \in [Threads -> 0..MAX_CLIENTS]
    /\ cursor \in [Threads -> 1..(MAX_CLIENTS + 1)]
    /\ page \in [Threads -> [Sections -> Seq(Row)]]
    /\ notice \in [Threads -> [{"side", "detail"} -> BOOLEAN]]
    /\ reply \in [Threads -> Replies]

-----------------------------------------------------------------------------
(* The initial state.                                                      *)

(***************************************************************************)
(* server is a global: all its bytes start as zero.                        *)
(***************************************************************************)
ZeroSlot ==
    [client_id     |-> EmptyId,
     latest        |-> 0,
     last_seen     |-> 0,
     history_count |-> 0,
     load_history  |-> [k \in Positions |-> 0],
     mem_history   |-> [k \in Positions |-> 0],
     time_history  |-> [k \in Positions |-> 0]]

NoRequest == [method |-> "GET", path |-> {}, body |-> NoBody]
NoPage == [s \in Sections |-> << >>]
NoNotice == [s \in {"side", "detail"} |-> FALSE]

Init ==
    /\ now = 0
    /\ mutex = NoThread
    /\ client_count = 0
    /\ clients = [i \in Slots |-> ZeroSlot]
    /\ sent = 0
    /\ log = [c \in ClientIds |-> << >>]
    /\ pc = [t \in Threads |-> "idle"]
    /\ req = [t \in Threads |-> NoRequest]
    /\ report = [t \in Threads |-> 0]
    /\ task = [t \in Threads |-> "none"]
    /\ found = [t \in Threads |-> 0]
    /\ cursor = [t \in Threads |-> 1]
    /\ page = [t \in Threads |-> NoPage]
    /\ notice = [t \in Threads |-> NoNotice]
    /\ reply = [t \in Threads |-> "none"]

-----------------------------------------------------------------------------
(* The clock and the connection.                                           *)

GoTo(t, place) == pc' = [pc EXCEPT ![t] = place]

Tick ==
    /\ now < MaxTime
    /\ now' = now + 1
    /\ UNCHANGED <<mutex, table, sent, pc, req, report, locals>>

(***************************************************************************)
(* main accepts a connection and starts a thread for it.  The peer's       *)
(* request is on its way; a report in it gets the next number.             *)
(***************************************************************************)
Accept(t, r) ==
    /\ pc[t] = "idle"
    /\ GoTo(t, "recv")
    /\ req' = [req EXCEPT ![t] = r]
    /\ IF r.body \in ClientIds
         THEN /\ sent < MaxReports
              /\ sent' = sent + 1
              /\ report' = [report EXCEPT ![t] = sent + 1]
         ELSE /\ report' = [report EXCEPT ![t] = 0]
              /\ UNCHANGED sent
    /\ UNCHANGED <<now, mutex, table, locals>>

(***************************************************************************)
(* The thread returns; its stack is gone.                                  *)
(***************************************************************************)
Close(t) ==
    /\ GoTo(t, "idle")
    /\ req' = [req EXCEPT ![t] = NoRequest]
    /\ report' = [report EXCEPT ![t] = 0]
    /\ task' = [task EXCEPT ![t] = "none"]
    /\ found' = [found EXCEPT ![t] = 0]
    /\ cursor' = [cursor EXCEPT ![t] = 1]
    /\ page' = [page EXCEPT ![t] = NoPage]
    /\ notice' = [notice EXCEPT ![t] = NoNotice]
    /\ reply' = [reply EXCEPT ![t] = "none"]
    /\ UNCHANGED <<now, mutex, table, sent>>

(***************************************************************************)
(* The first recv fails, or brings no complete request line.               *)
(***************************************************************************)
RecvNothing(t) ==
    /\ pc[t] = "recv"
    /\ Close(t)

(***************************************************************************)
(* The first recv brings the request line.  The body is looked for only if *)
(* it also brings the whole header of a POST with a Content-Length;        *)
(* otherwise the request is handled as one without a body.                 *)
(***************************************************************************)
RecvHeader(t) ==
    /\ pc[t] = "recv"
    /\ \/ GoTo(t, "route")
       \/ /\ req[t].method = "POST"
          /\ req[t].body # NoBody
          /\ GoTo(t, "body")
    /\ UNCHANGED <<now, mutex, table, sent, req, report, locals>>

(***************************************************************************)
(* The body loop ends with the bytes it got: all of them, a part that does *)
(* not parse, or none.  A body that does not parse is answered like one    *)
(* that was stored.                                                        *)
(***************************************************************************)
RecvBody(t) ==
    /\ pc[t] = "body"
    /\ \/ /\ req[t].body \in ClientIds
          /\ GoTo(t, "lock")
          /\ task' = [task EXCEPT ![t] = "put"]
          /\ UNCHANGED reply
       \/ /\ GoTo(t, "send")
          /\ reply' = [reply EXCEPT ![t] = "ok"]
          /\ UNCHANGED task
       \/ /\ GoTo(t, "route")
          /\ UNCHANGED <<task, reply>>
    /\ UNCHANGED <<now, mutex, table, sent, req, report, found, cursor, page, notice>>

(***************************************************************************)
(* handle_request: main refuses an empty url_prefix, so "/" is always      *)
(* redirected; "/index.html" is tested before "/data".                     *)
(***************************************************************************)
IsRoot(r) == r.path = {}
IsIndex(r) == "index.html" \in r.path
IsData(r) == ~ IsIndex(r) /\ "data" \in r.path

Route(t) ==
    /\ pc[t] = "route"
    /\ \/ /\ IsIndex(req[t]) \/ IsData(req[t])
          /\ GoTo(t, "lock")
          /\ task' = [task EXCEPT ![t] = IF IsIndex(req[t]) THEN "side" ELSE "data"]
          /\ UNCHANGED reply
       \/ /\ ~ IsIndex(req[t]) /\ ~ IsData(req[t])
          /\ GoTo(t, "send")
          /\ reply' = [reply EXCEPT ![t] =
                         IF IsRoot(req[t]) THEN "redirect" ELSE "notfound"]
          /\ UNCHANGED task
    /\ UNCHANGED <<now, mutex, table, sent, req, report, found, cursor, page, notice>>

-----------------------------------------------------------------------------
(* The mutex.                                                              *)

\* Seeded fault: the section is entered without waiting for the mutex.
MutexFree_Ignored == TRUE

MutexFree == mutex = NoThread

Lock(t) ==
    /\ pc[t] = "lock"
    /\ MutexFree
    /\ mutex' = t
    /\ GoTo(t, IF task[t] = "put" THEN "find" ELSE "scan")
    /\ cursor' = [cursor EXCEPT ![t] = 1]
    /\ UNCHANGED <<now, table, sent, req, report, task, found, page, notice, reply>>

(***************************************************************************)
(* After the sidebar and after the details generate_html looks at          *)
(* client_count once more, without the mutex.                              *)
(***************************************************************************)
Unlock(t) ==
    /\ pc[t] = "unlock"
    /\ mutex' = NoThread
    /\ IF task[t] \in {"side", "detail"}
         THEN /\ GoTo(t, "check")
              /\ UNCHANGED reply
         ELSE /\ GoTo(t, "send")
              /\ reply' = [reply EXCEPT ![t] =
                             CASE task[t] = "put" -> "ok"
                               [] task[t] = "data" -> "data"
                               [] OTHER -> "page"]
    /\ UNCHANGED <<now, table, sent, req, report, task, found, cursor, page, notice>>

-----------------------------------------------------------------------------
(* Storing a report.                                                       *)

\* Seeded fault: the search misses the last slot.
Lookup_OffByOne(id) == {i \in 1..(client_count - 1) : clients[i].client_id = id}

(***************************************************************************)
(* The slots in use whose client_id compares equal.                        *)
(***************************************************************************)
Lookup(id) == {i \in 1..client_count : clients[i].client_id = id}

\* Seeded fault: the last slot is never given out.
HasRoom_OffByOne == client_count < MAX_CLIENTS - 1

HasRoom == client_count < MAX_CLIENTS

\* Seeded fault: the new client takes the last slot in use.
NewSlot_Reused == IF client_count = 0 THEN 1 ELSE client_count

NewSlot == client_count + 1

(***************************************************************************)
(* The slot of the report's client: the first that matches, or a new one   *)
(* with an empty history, or none when the table is full.                  *)
(***************************************************************************)
PutFind(t) ==
    /\ pc[t] = "find"
    /\ LET same == Lookup(req[t].body) IN
         \/ /\ \E i \in same :
                 /\ \A j \in same : i <= j
                 /\ found' = [found EXCEPT ![t] = i]
            /\ GoTo(t, "store")
            /\ UNCHANGED table
         \/ /\ same = {} /\ HasRoom
            /\ client_count' = client_count + 1
            /\ found' = [found EXCEPT ![t] = NewSlot]
            /\ clients' = [clients EXCEPT ![NewSlot].history_count = 0]
            /\ GoTo(t, "store")
            /\ UNCHANGED log
         \/ /\ same = {} /\ ~ HasRoom
            /\ found' = [found EXCEPT ![t] = 0]
            /\ GoTo(t, "unlock")
            /\ UNCHANGED table
    /\ UNCHANGED <<now, mutex, sent, req, report, task, cursor, page, notice, reply>>

\* Seeded fault: last_seen is only set when the client is new.
PutStore_SeenOnce(t) ==
    /\ pc[t] = "store"
    /\ clients' = [clients EXCEPT ![found[t]] =
                     [@ EXCEPT !.last_seen = IF clients[found[t]].history_count = 0
                                               THEN now ELSE @,
                               !.client_id = req[t].body,
                               !.latest = report[t]]]
    /\ GoTo(t, "push")
    /\ UNCHANGED <<now, mutex, client_count, log, sent, req, report, locals>>

PutStore(t) ==
    /\ pc[t] = "store"
    /\ clients' = [clients EXCEPT ![found[t]] =
                     [@ EXCEPT !.last_seen = now,
                               !.client_id = req[t].body,
                               !.latest = report[t]]]
    /\ GoTo(t, "push")
    /\ UNCHANGED <<now, mutex, client_count, log, sent, req, report, locals>>

\* Seeded fault: the oldest value is not moved out.
Shifted_Missing(a) == a

(***************************************************************************)
(* memmove(a, a + 1, HISTORY_SIZE - 1): the last position keeps its value. *)
(***************************************************************************)
Shifted(a) == [k \in Positions |-> IF k < HISTORY_SIZE THEN a[k + 1] ELSE a[k]]

\* Seeded fault: the count goes on beyond HISTORY_SIZE.
Pushed_NoLimit(ch, value, time) ==
    LET count == ch.history_count + 1
    IN  [ch EXCEPT
           !.history_count = count,
           !.load_history = [@ EXCEPT ![count] = value],
           !.mem_history = [@ EXCEPT ![count] = value],
           !.time_history = [@ EXCEPT ![count] = time]]

(***************************************************************************)
(* A slot after a value was pushed into its three histories.  The time is  *)
(* asked for again: it may have moved since last_seen was set.             *)
(***************************************************************************)
Pushed(ch, value, time) ==
    LET full == ch.history_count >= HISTORY_SIZE
        count == IF full THEN ch.history_count ELSE ch.history_count + 1
        Room(a) == IF full THEN Shifted(a) ELSE a
    IN  [ch EXCEPT
           !.history_count = count,
           !.load_history = [Room(@) EXCEPT ![count] = value],
           !.mem_history = [Room(@) EXCEPT ![count] = value],
           !.time_history = [Room(@) EXCEPT ![count] = time]]

PutPush(t) ==
    /\ pc[t] = "push"
    /\ clients' = [clients EXCEPT ![found[t]] = Pushed(@, report[t], now)]
    /\ log' = [log EXCEPT ![req[t].body] =
                 Append(@, [report |-> report[t], time |-> now])]
    /\ GoTo(t, "unlock")
    /\ UNCHANGED <<now, mutex, client_count, sent, req, report, locals>>

-----------------------------------------------------------------------------
(* Reading the table: the three sections of the page, and /data.           *)

IsOnline(ch) == now - ch.last_seen < OFFLINE_TIMEOUT

\* Seeded fault: the loop over the histories stops one short.
Held_OneShort(ch, a) == [k \in 1..(ch.history_count - 1) |-> a[k]]

Held(ch, a) == [k \in 1..ch.history_count |-> a[k]]

(***************************************************************************)
(* What a section shows of one client: all of them its identity, status    *)
(* and newest report, the page's script and /data its histories too.       *)
(***************************************************************************)
RowOf(section, ch) ==
    LET Series(a) == IF section \in {"script", "data"} THEN Held(ch, a) ELSE << >>
    IN  [id     |-> ch.client_id,
         online |-> IsOnline(ch),
         latest |-> ch.latest,
         load   |-> Series(ch.load_history),
         mem    |-> Series(ch.mem_history),
         time   |-> Series(ch.time_history)]

Scan(t) ==
    /\ pc[t] = "scan"
    /\ cursor[t] <= client_count
    /\ page' = [page EXCEPT ![t][task[t]] =
                  Append(@, RowOf(task[t], clients[cursor[t]]))]
    /\ cursor' = [cursor EXCEPT ![t] = @ + 1]
    /\ UNCHANGED <<now, mutex, table, sent, pc, req, report, task, found, notice, reply>>

ScanEnd(t) ==
    /\ pc[t] = "scan"
    /\ cursor[t] > client_count
    /\ GoTo(t, "unlock")
    /\ UNCHANGED <<now, mutex, table, sent, req, report, locals>>

NextSection(section) == IF section = "side" THEN "detail" ELSE "script"

\* Seeded fault: the test is made before the section it speaks of.
Check_Early(t) ==
    /\ pc[t] = "check"
    /\ notice' = [notice EXCEPT ![t][NextSection(task[t])] = (client_count = 0)]
    /\ task' = [task EXCEPT ![t] = NextSection(task[t])]
    /\ GoTo(t, "lock")
    /\ UNCHANGED <<now, mutex, table, sent, req, report, found, cursor, page, reply>>

(***************************************************************************)
(* The reads outside the mutex.  int client_count is read in one piece;    *)
(* the value is whatever the table holds at that moment.                   *)
(***************************************************************************)
Check(t) ==
    /\ pc[t] = "check"
    /\ notice' = [notice EXCEPT ![t][task[t]] = (client_count = 0)]
    /\ task' = [task EXCEPT ![t] = NextSection(task[t])]
    /\ GoTo(t, "lock")
    /\ UNCHANGED <<now, mutex, table, sent, req, report, found, cursor, page, reply>>

\* Seeded fault: an "ok" whose length disagrees is sent again and again.
Send_Again(t) ==
    /\ pc[t] = "send"
    /\ IF reply[t] = "ok" THEN UNCHANGED vars ELSE Close(t)

(***************************************************************************)
(* The response is sent and the connection closed.                         *)
(***************************************************************************)
Send(t) ==
    /\ pc[t] = "send"
    /\ Close(t)

-----------------------------------------------------------------------------
(* The specification.                                                      *)

Serve(t) ==
    \/ Lock(t) \/ Unlock(t)
    \/ PutFind(t) \/ PutStore(t) \/ PutPush(t)
    \/ Scan(t) \/ ScanEnd(t) \/ Check(t)
    \/ Route(t) \/ Send(t)

Receive(t) == RecvNothing(t) \/ RecvHeader(t) \/ RecvBody(t)

Next ==
    \/ Tick
    \/ \E t \in Threads :
         \/ \E r \in Requests : Accept(t, r)
         \/ Receive(t)
         \/ Serve(t)

Spec == Init /\ [][Next]_vars

(***************************************************************************)
(* The scheduler runs every thread that is not blocked.  pthread_mutex is  *)
(* not fair, so a thread waiting for it gets only weak fairness; recv has  *)
(* no timeout and gets none.                                               *)
(***************************************************************************)
FairSpec == Spec /\ \A t \in Threads : WF_vars(Serve(t))

-----------------------------------------------------------------------------
(* Properties.                                                             *)

(***************************************************************************)
(* A thread is inside one of the five critical sections exactly when it    *)
(* owns server.mutex, on every path through handle_client, handle_request  *)
(* and generate_html.                                                      *)
(***************************************************************************)
MutualExclusion == \A t \in Threads : pc[t] \in Critical <=> mutex = t

(***************************************************************************)
(* A slot counts once its first report was pushed; the slot a thread is    *)
(* still filling does not.                                                 *)
(***************************************************************************)
Registered == {i \in 1..client_count : clients[i].history_count > 0}

(***************************************************************************)
(* No client_id has two slots, however many first reports of it arrive     *)
(* together: the search and the allocation are one critical section.       *)
(***************************************************************************)
UniqueClients ==
    \A i, j \in Registered : clients[i].client_id = clients[j].client_id => i = j

(***************************************************************************)
(* The three arrays of a slot hold the newest entries of s, oldest first.  *)
(***************************************************************************)
IsWindowOf(ch, s) ==
    /\ ch.history_count = IF Len(s) < HISTORY_SIZE THEN Len(s) ELSE HISTORY_SIZE
    /\ \A k \in 1..ch.history_count :
         LET e == s[Len(s) - ch.history_count + k] IN
           /\ ch.load_history[k] = e.report
           /\ ch.mem_history[k] = e.report
           /\ ch.time_history[k] = e.time

TableIsWindows ==
    /\ \A i \in Registered :
         /\ clients[i].client_id \in ClientIds
         /\ IsWindowOf(clients[i], log[clients[i].client_id])
    /\ \A c \in ClientIds :
         log[c] # << >> => \E i \in Registered : clients[i].client_id = c

(***************************************************************************)
(* The slot of a client holds the newest HISTORY_SIZE reports stored for   *)
(* it, oldest first, the three arrays aligned and no index beyond their    *)
(* ends (TypeOK); and a client_id with a stored report has a slot.         *)
(***************************************************************************)
HistoryIsWindow == TypeOK /\ TableIsWindows

(***************************************************************************)
(* The slot a thread is in the middle of updating.                         *)
(***************************************************************************)
Updating(i) == \E t \in Threads : pc[t] = "push" /\ found[t] = i

(***************************************************************************)
(* The times of a history never decrease, and last_seen, read before the   *)
(* newest of them by another call of time(), lies between the last two.    *)
(***************************************************************************)
TimesOrdered ==
    \A i \in Registered :
      LET ch == clients[i]
          h == ch.history_count
      IN  /\ \A k \in 1..(h - 1) : ch.time_history[k] <= ch.time_history[k + 1]
          /\ ~ Updating(i) => /\ ch.last_seen <= ch.time_history[h]
                              /\ h > 1 => ch.time_history[h - 1] <= ch.last_seen

(***************************************************************************)
(* A whole, well-formed report is answered "ok" without being stored only  *)
(* when the table is full of other clients; this stays so while the answer *)
(* is on its way.                                                          *)
(***************************************************************************)
DroppedOnlyWhenFull ==
    \A t \in Threads :
      pc[t] \in {"unlock", "send"} /\ task[t] = "put" /\ found[t] = 0
        => /\ client_count = MAX_CLIENTS
           /\ \A i \in Slots : clients[i].client_id # req[t].body

(***************************************************************************)
(* While a thread scans the table, every row it has written still is what  *)
(* the table says, but for the status, which depends on the clock.         *)
(***************************************************************************)
ScanIsCurrent ==
    \A t \in Threads :
      pc[t] = "scan" \/ (pc[t] = "unlock" /\ task[t] # "put")
        => LET rows == page[t][task[t]] IN
             /\ Len(rows) = cursor[t] - 1
             /\ \A i \in 1..Len(rows) :
                  \E seen \in BOOLEAN :
                    rows[i] = [RowOf(task[t], clients[i]) EXCEPT !.online = seen]

(***************************************************************************)
(* Where report n stands in the log of client c.                           *)
(***************************************************************************)
Place(c, n) == CHOOSE k \in DOMAIN log[c] : log[c][k].report = n

(***************************************************************************)
(* The three sections of a page are taken at three moments, but a later    *)
(* section never knows less than an earlier one: it has the same clients   *)
(* at the same places, possibly more after them, and none with an older    *)
(* newest report.                                                          *)
(***************************************************************************)
NotOlder(early, late) ==
    /\ Len(early) <= Len(late)
    /\ \A i \in 1..Len(early) :
         /\ early[i].id = late[i].id
         /\ Place(early[i].id, early[i].latest) <= Place(late[i].id, late[i].latest)

PageGoesForward ==
    \A t \in Threads :
      pc[t] = "send" /\ reply[t] = "page" =>
        /\ NotOlder(page[t]["side"], page[t]["detail"])
        /\ NotOlder(page[t]["detail"], page[t]["script"])

(***************************************************************************)
(* "No clients connected" and the visible empty state are only written     *)
(* under a section without clients, although client_count is read outside  *)
(* the critical section that wrote it.                                     *)
(***************************************************************************)
NoticeIsHonest ==
    \A t \in Threads, s \in {"side", "detail"} :
      notice[t][s] => page[t][s] = << >>

(***************************************************************************)
(* A client once stored is never forgotten, and its slot never passes to   *)
(* another one: an open page always finds the client it shows in the next  *)
(* /data answer.                                                           *)
(***************************************************************************)
SlotsAreStable ==
    [][\A i \in Registered :
         /\ i \in Registered'
         /\ clients'[i].client_id = clients[i].client_id]_vars

(***************************************************************************)
(* The promise of the server: MonitorStore.  A report takes effect when    *)
(* its values are pushed, a /data answer when its scan ends.  The page     *)
(* and the requests that store nothing are not sessions of the store.      *)
(***************************************************************************)
ViewOf(rows) ==
    [c \in {rows[i].id : i \in DOMAIN rows} |->
        LET i == CHOOSE i \in DOMAIN rows : rows[i].id = c
        IN  [f \in {"latest", "load", "mem", "time"} |-> rows[i][f]]]

SessionOf(t) ==
    CASE task[t] = "put" /\ pc[t] \in {"lock", "find", "store", "push"} ->
           [op |-> "report", id |-> req[t].body, report |-> report[t]]
      [] task[t] = "put" /\ pc[t] \in {"unlock", "send"} ->
           [op |-> IF found[t] = 0 THEN "dropped" ELSE "stored"]
      [] task[t] = "data" /\ pc[t] \in {"lock", "scan"} ->
           [op |-> "query"]
      [] task[t] = "data" /\ pc[t] \in {"unlock", "send"} ->
           [op |-> "answered", view |-> ViewOf(page[t]["data"])]
      [] OTHER -> [op |-> "idle"]

Store == INSTANCE MonitorStore WITH
    Sessions <- Threads,
    Reports  <- Serials,
    session  <- [t \in Threads |-> SessionOf(t)]

ImplementsStore == Store!Spec

(***************************************************************************)
(* Once connections stop arriving, every thread that has its request and   *)
(* needs the table finishes: no path leaves the mutex locked.  (While they *)
(* keep arriving the mutex may always go to another thread.)               *)
(***************************************************************************)
Arrival == \E t \in Threads, r \in Requests : Accept(t, r)

EventuallyAnswered ==
    <>[][~ Arrival]_vars =>
      \A t \in Threads : (pc[t] = "lock") ~> (pc[t] = "idle")
=============================================================================
