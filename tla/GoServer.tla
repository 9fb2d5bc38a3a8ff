------------------------------ MODULE GoServer ------------------------------
(***************************************************************************)
(* The Go server, server/main.go: one goroutine per request over a map of  *)
(* client histories guarded by a sync.RWMutex.                             *)
(*                                                                         *)
(* What distinguishes it from the C server is how a view leaves the lock:  *)
(* getClientInfo returns the history slices themselves, not copies, and    *)
(* handleData and handleIndex read them after the lock is released, while  *)
(* handlePut may be trimming and appending to the same backing arrays.     *)
(* Slices are therefore modelled as Go implements them: a header (offset,  *)
(* length, capacity) over an array of a heap.                              *)
(***************************************************************************)
EXTENDS Integers, Sequences, FiniteSets

CONSTANTS
    Threads,         \* the requests served at the same time
    ClientIds,       \* values of a report's client_id
    NoBody,          \* a request without a body
    BadBody,         \* a body json.Unmarshal rejects, or that was cut off
    NoThread,        \* no writer
    Requests,        \* the requests a peer may send
    HISTORY_SIZE,    \* historySize
    OFFLINE_TIMEOUT, \* offlineTimeout, in ticks
    MaxCap,          \* bound: the largest capacity append allocates
    MaxTime,         \* bound: ticks of the clock
    MaxReports       \* bound: reports sent during a run

Paths == {"/", "put", "index.html", "data", "other"}

RequestType ==
    [method : {"GET", "POST"},
     path   : Paths,
     body   : ClientIds \union {NoBody, BadBody}]

ASSUME SizesAssumption ==
    /\ HISTORY_SIZE \in Nat \ {0}
    /\ OFFLINE_TIMEOUT \in Nat
    /\ MaxCap \in Nat
    /\ MaxCap >= HISTORY_SIZE
    /\ MaxTime \in Nat
    /\ MaxReports \in Nat

ASSUME NamesAssumption ==
    /\ NoThread \notin Threads
    /\ NoBody \notin ClientIds
    /\ BadBody \notin ClientIds
    /\ Requests \subseteq RequestType

VARIABLES
    now,      \* time.Now()
    writer,   \* the goroutine that called mu.Lock and has not unlocked
    readers,  \* the goroutines that hold mu.RLock
    rwait,    \* the goroutines whose RLock waits for the writer
    clients,  \* server.clients: its domain is the set of keys
    heap,     \* the arrays ever allocated for each client's slices
    sent,     \* reports sent so far; the next one carries sent + 1
    log,      \* history variable: what was stored under each client_id
    pc,       \* where each goroutine is
    req,      \* the request it serves
    report,   \* the number of the report in the body, 0 if there is none
    result,   \* what getClientInfo returned to it
    seen,     \* history variable: what result's slices held at that moment
    written,  \* what it has encoded into the response
    reply     \* the response's status

rwmutex == <<writer, readers, rwait>>
store == <<clients, heap, log>>
locals == <<result, seen, written, reply>>
vars == <<now, rwmutex, store, sent, pc, req, report, locals>>

-----------------------------------------------------------------------------
(* Slices.                                                                 *)

Series == {"load", "mem", "time"}

(***************************************************************************)
(* A slice header.  array is the number of its backing array among those   *)
(* allocated for the same client and series.                               *)
(***************************************************************************)
Slice == [array : Nat, offset : Nat, len : 0..HISTORY_SIZE, cap : 0..MaxCap]

(***************************************************************************)
(* make(T, 0, HISTORY_SIZE)                                                *)
(***************************************************************************)
NewSlice == [array |-> 1, offset |-> 0, len |-> 0, cap |-> HISTORY_SIZE]
NewArrays == << [k \in 1..HISTORY_SIZE |-> 0] >>

Contents(slice, arrays) ==
    [k \in 1..slice.len |-> arrays[slice.array][slice.offset + k]]

\* Seeded fault: the comparison lets one element too many stay.
Trimmed_Late(slice) ==
    IF slice.len > HISTORY_SIZE
      THEN [slice EXCEPT !.offset = @ + 1, !.len = @ - 1, !.cap = @ - 1]
      ELSE slice

\* Seeded fault: s[:len(s)-1] for s[1:], the newest element makes way.
Trimmed_Newest(slice) ==
    IF slice.len >= HISTORY_SIZE THEN [slice EXCEPT !.len = @ - 1] ELSE slice

(***************************************************************************)
(* s = s[1:] when s is full                                                *)
(***************************************************************************)
Trimmed(slice) ==
    IF slice.len >= HISTORY_SIZE
      THEN [slice EXCEPT !.offset = @ + 1, !.len = @ - 1, !.cap = @ - 1]
      ELSE slice

(***************************************************************************)
(* append(s, v): in place when there is room behind s, otherwise into a    *)
(* new array of capacity newcap, to which the elements are copied.         *)
(***************************************************************************)
AppendSlice(slice, newcap) ==
    IF slice.len < slice.cap
      THEN [slice EXCEPT !.len = @ + 1]
      ELSE [array |-> slice.array + 1, offset |-> 0, len |-> slice.len + 1, cap |-> newcap]

AppendArrays(slice, arrays, v, newcap) ==
    IF slice.len < slice.cap
      THEN [arrays EXCEPT ![slice.array][slice.offset + slice.len + 1] = v]
      ELSE Append(arrays,
             [k \in 1..newcap |->
                IF k <= slice.len THEN arrays[slice.array][slice.offset + k]
                ELSE IF k = slice.len + 1 THEN v ELSE 0])

(***************************************************************************)
(* The capacities append may choose: at least what is needed, and as much  *)
(* more as the runtime's growth and rounding give.                         *)
(***************************************************************************)
Capacities(slice) == IF slice.len < slice.cap THEN {slice.cap} ELSE (slice.len + 1)..MaxCap

-----------------------------------------------------------------------------
(* Types.                                                                  *)

Serials == 0..MaxReports
Times == 0..MaxTime

ClientHistory == [last_seen : Times, latest : Serials, history : [Series -> Slice]]

Entry == [report : Serials, time : Times]

(***************************************************************************)
(* What a view says of one client: result holds slices where seen and      *)
(* written hold their elements.                                            *)
(***************************************************************************)
RowType == [online : BOOLEAN, latest : Serials, history : [Series -> Slice]]

Places ==
    {"idle", "recv", "lock", "drain", "store", "unlock",
     "rlock", "rwait", "collect", "runlock", "encode", "send"} \union Series

Replies == {"none", "ok", "bad", "method", "redirect", "empty", "page", "data"}

TypeOK ==
    /\ now \in Times
    /\ writer \in Threads \union {NoThread}
    /\ readers \subseteq Threads
    /\ rwait \subseteq Threads
    /\ DOMAIN clients \subseteq ClientIds
    /\ \A c \in DOMAIN clients : clients[c] \in ClientHistory
    /\ DOMAIN heap = DOMAIN clients
    /\ \A c \in DOMAIN clients, s \in Series :
         LET slice == clients[c].history[s] IN
           /\ slice.len <= slice.cap
           /\ slice.offset + slice.cap = Len(heap[c][s][slice.array])
    /\ sent \in Serials
    /\ log \in [ClientIds -> Seq(Entry)]
    /\ pc \in [Threads -> Places]
    /\ req \in [Threads -> RequestType]
    /\ report \in [Threads -> Serials]
    /\ \A t \in Threads : \A c \in DOMAIN result[t] : result[t][c] \in RowType
    /\ reply \in [Threads -> Replies]

-----------------------------------------------------------------------------
(* The initial state.                                                      *)

NoRequest == [method |-> "GET", path |-> "/", body |-> NoBody]
EmptyMap == [c \in {} |-> 0]

Init ==
    /\ now = 0
    /\ writer = NoThread
    /\ readers = {}
    /\ rwait = {}
    /\ clients = EmptyMap
    /\ heap = EmptyMap
    /\ sent = 0
    /\ log = [c \in ClientIds |-> << >>]
    /\ pc = [t \in Threads |-> "idle"]
    /\ req = [t \in Threads |-> NoRequest]
    /\ report = [t \in Threads |-> 0]
    /\ result = [t \in Threads |-> EmptyMap]
    /\ seen = [t \in Threads |-> EmptyMap]
    /\ written = [t \in Threads |-> EmptyMap]
    /\ reply = [t \in Threads |-> "none"]

-----------------------------------------------------------------------------
(* The clock and the connection.                                           *)

GoTo(t, place) == pc' = [pc EXCEPT ![t] = place]

Answer(t, status) == GoTo(t, "send") /\ reply' = [reply EXCEPT ![t] = status]

Tick ==
    /\ now < MaxTime
    /\ now' = now + 1
    /\ UNCHANGED <<rwmutex, store, sent, pc, req, report, locals>>

(***************************************************************************)
(* net/http accepts a connection and reads the request's header.           *)
(***************************************************************************)
Accept(t, r) ==
    /\ pc[t] = "idle"
    /\ GoTo(t, "recv")
    /\ req' = [req EXCEPT ![t] = r]
    /\ IF r.body \in ClientIds
         THEN /\ sent < MaxReports
              /\ sent' = sent + 1
              /\ report' = [report EXCEPT ![t] = sent + 1]
         ELSE /\ report' = [report EXCEPT ![t] = 0]
              /\ UNCHANGED sent
    /\ UNCHANGED <<now, rwmutex, store, locals>>

(***************************************************************************)
(* handlePut up to the lock: the method, the body, json.Unmarshal.  A body *)
(* that arrived only in part is an invalid one: ReadAll's error is ignored *)
(* and what was read does not parse.                                       *)
(***************************************************************************)
HandlePut(t) ==
    /\ pc[t] = "recv"
    /\ req[t].path = "put"
    /\ \/ /\ req[t].method # "POST"
          /\ Answer(t, "method")
       \/ /\ req[t].method = "POST"
          /\ req[t].body \in ClientIds
          /\ GoTo(t, "lock")
          /\ UNCHANGED reply
       \/ /\ req[t].method = "POST"
          /\ Answer(t, "bad")
    /\ UNCHANGED <<now, rwmutex, store, sent, req, report, result, seen, written>>

(***************************************************************************)
(* handleIndex parses its template first, handleData nothing; both call    *)
(* getClientInfo.                                                          *)
(***************************************************************************)
HandleView(t) ==
    /\ pc[t] = "recv"
    /\ req[t].path \in {"index.html", "data"}
    /\ GoTo(t, "rlock")
    /\ UNCHANGED <<now, rwmutex, store, sent, req, report, locals>>

(***************************************************************************)
(* The handler of "/" gets every path that has no other: the root is       *)
(* redirected, the others get an empty 200.                                *)
(***************************************************************************)
HandleRoot(t) ==
    /\ pc[t] = "recv"
    /\ req[t].path \in {"/", "other"}
    /\ Answer(t, IF req[t].path = "/" THEN "redirect" ELSE "empty")
    /\ UNCHANGED <<now, rwmutex, store, sent, req, report, result, seen, written>>

Send(t) ==
    /\ pc[t] = "send"
    /\ GoTo(t, "idle")
    /\ req' = [req EXCEPT ![t] = NoRequest]
    /\ report' = [report EXCEPT ![t] = 0]
    /\ result' = [result EXCEPT ![t] = EmptyMap]
    /\ seen' = [seen EXCEPT ![t] = EmptyMap]
    /\ written' = [written EXCEPT ![t] = EmptyMap]
    /\ reply' = [reply EXCEPT ![t] = "none"]
    /\ UNCHANGED <<now, rwmutex, store, sent>>

-----------------------------------------------------------------------------
(* sync.RWMutex: a writer that called Lock keeps new readers out, waits    *)
(* for those inside, and on Unlock lets all waiting readers in before the  *)
(* next writer.                                                            *)

Lock(t) ==
    /\ pc[t] = "lock"
    /\ writer = NoThread
    /\ writer' = t
    /\ GoTo(t, "drain")
    /\ UNCHANGED <<now, readers, rwait, store, sent, req, report, locals>>

Drained == readers = {}

LockGranted(t) ==
    /\ pc[t] = "drain"
    /\ Drained
    /\ GoTo(t, "store")
    /\ UNCHANGED <<now, rwmutex, store, sent, req, report, locals>>

Unlock(t) ==
    /\ pc[t] = "unlock"
    /\ writer' = NoThread
    /\ readers' = readers \union rwait
    /\ rwait' = {}
    /\ Answer(t, "ok")
    /\ UNCHANGED <<now, store, sent, req, report, result, seen, written>>

RLock(t) ==
    /\ pc[t] = "rlock"
    /\ \/ /\ writer = NoThread
          /\ readers' = readers \union {t}
          /\ GoTo(t, "collect")
          /\ UNCHANGED rwait
       \/ /\ writer # NoThread
          /\ rwait' = rwait \union {t}
          /\ GoTo(t, "rwait")
          /\ UNCHANGED readers
    /\ UNCHANGED <<now, writer, store, sent, req, report, locals>>

RLockGranted(t) ==
    /\ pc[t] = "rwait"
    /\ t \in readers
    /\ GoTo(t, "collect")
    /\ UNCHANGED <<now, rwmutex, store, sent, req, report, locals>>

\* Seeded fault: the deferred RUnlock is missing.
RUnlock_Forgotten(t) ==
    /\ pc[t] = "runlock"
    /\ GoTo(t, "encode")
    /\ UNCHANGED <<now, rwmutex, store, sent, req, report, locals>>

RUnlock(t) ==
    /\ pc[t] = "runlock"
    /\ readers' = readers \ {t}
    /\ GoTo(t, "encode")
    /\ UNCHANGED <<now, writer, rwait, store, sent, req, report, locals>>

-----------------------------------------------------------------------------
(* Storing a report.                                                       *)

With(map, c, v) == [d \in DOMAIN map \union {c} |-> IF d = c THEN v ELSE map[d]]

\* Seeded fault: the test for an existing entry is missing.
PutStore_Resets(t) ==
    /\ pc[t] = "store"
    /\ LET c == req[t].body IN
         /\ clients' = With(clients, c,
              [last_seen |-> now, latest |-> report[t],
               history |-> [s \in Series |-> NewSlice]])
         /\ heap' = With(heap, c, [s \in Series |-> NewArrays])
    /\ GoTo(t, "load")
    /\ UNCHANGED <<now, rwmutex, sent, log, req, report, locals>>

(***************************************************************************)
(* The client's history, made empty if the map has none, and its newest    *)
(* report.                                                                 *)
(***************************************************************************)
PutStore(t) ==
    /\ pc[t] = "store"
    /\ LET c == req[t].body
           old == c \in DOMAIN clients
       IN  /\ clients' = With(clients, c,
                [last_seen |-> now,
                 latest    |-> report[t],
                 history   |-> IF old THEN clients[c].history
                               ELSE [s \in Series |-> NewSlice]])
           /\ heap' = IF old THEN heap
                      ELSE With(heap, c, [s \in Series |-> NewArrays])
    /\ GoTo(t, "load")
    /\ UNCHANGED <<now, rwmutex, sent, log, req, report, locals>>

AfterPush == [load |-> "mem", mem |-> "time", time |-> "unlock"]

(***************************************************************************)
(* The three slices are trimmed and appended to one after the other, under *)
(* the lock; the goroutine is at the one whose turn it is.  Each grows on  *)
(* its own: their elements differ in size, and so may the capacities.      *)
(***************************************************************************)
PutPush(t) ==
    /\ pc[t] \in Series
    /\ LET c == req[t].body
           s == pc[t]
           old == Trimmed(clients[c].history[s])
           value == IF s = "time" THEN now ELSE report[t]
       IN  /\ \E newcap \in Capacities(old) :
                /\ clients' = [clients EXCEPT ![c].history[s] = AppendSlice(old, newcap)]
                /\ heap' = [heap EXCEPT ![c][s] =
                              AppendArrays(old, heap[c][s], value, newcap)]
           /\ log' = IF s = "time"
                       THEN [log EXCEPT ![c] =
                               Append(@, [report |-> report[t], time |-> now])]
                       ELSE log
    /\ GoTo(t, AfterPush[pc[t]])
    /\ UNCHANGED <<now, rwmutex, sent, req, report, locals>>

-----------------------------------------------------------------------------
(* Reading.                                                                *)

Elements(row, arrays) ==
    [online  |-> row.online,
     latest  |-> row.latest,
     history |-> [s \in Series |-> Contents(row.history[s], arrays[s])]]

(***************************************************************************)
(* getClientInfo's loop, under the read lock and with one time.Now().      *)
(***************************************************************************)
Collect(t) ==
    /\ pc[t] = "collect"
    /\ LET rows == [c \in DOMAIN clients |->
                      [online  |-> now - clients[c].last_seen < OFFLINE_TIMEOUT,
                       latest  |-> clients[c].latest,
                       history |-> clients[c].history]]
       IN  /\ result' = [result EXCEPT ![t] = rows]
           /\ seen' = [seen EXCEPT ![t] =
                         [c \in DOMAIN rows |-> Elements(rows[c], heap[c])]]
    /\ GoTo(t, "runlock")
    /\ UNCHANGED <<now, rwmutex, store, sent, req, report, written, reply>>

(***************************************************************************)
(* The encoder, or the template, reads the slices of one client after      *)
(* another from the heap as it is by then.                                 *)
(***************************************************************************)
Encode(t) ==
    /\ pc[t] = "encode"
    /\ \/ \E c \in DOMAIN result[t] \ DOMAIN written[t] :
            /\ written' = [written EXCEPT ![t] =
                             With(@, c, Elements(result[t][c], heap[c]))]
            /\ UNCHANGED <<pc, reply>>
       \/ /\ DOMAIN written[t] = DOMAIN result[t]
          /\ Answer(t, IF req[t].path = "data" THEN "data" ELSE "page")
          /\ UNCHANGED written
    /\ UNCHANGED <<now, rwmutex, store, sent, req, report, result, seen>>

-----------------------------------------------------------------------------
(* The specification.                                                      *)

Serve(t) ==
    \/ LockGranted(t) \/ PutStore(t) \/ PutPush(t) \/ Unlock(t)
    \/ RLock(t) \/ RLockGranted(t) \/ Collect(t) \/ RUnlock(t) \/ Encode(t)
    \/ Send(t)

Receive(t) == HandlePut(t) \/ HandleView(t) \/ HandleRoot(t)

Next ==
    \/ Tick
    \/ \E t \in Threads :
         \/ \E r \in Requests : Accept(t, r)
         \/ Receive(t)
         \/ Lock(t)
         \/ Serve(t)

Spec == Init /\ [][Next]_vars

-----------------------------------------------------------------------------
(* Properties.                                                             *)

(***************************************************************************)
(* Between critical sections the three slices of every client hold the     *)
(* newest HISTORY_SIZE reports stored for it, aligned, wherever append has *)
(* moved them; and every client with a stored report is in the map.        *)
(***************************************************************************)
WindowOf(l, field) ==
    LET h == IF Len(l) < HISTORY_SIZE THEN Len(l) ELSE HISTORY_SIZE
    IN  [k \in 1..h |-> l[Len(l) - h + k][field]]

HistoriesAreWindows ==
    /\ TypeOK
    /\ (\A t \in Threads : pc[t] \notin {"store"} \union Series) =>
         /\ DOMAIN clients = {c \in ClientIds : log[c] # << >>}
         /\ \A c \in DOMAIN clients, s \in Series :
              Contents(clients[c].history[s], heap[c][s])
                = WindowOf(log[c], IF s = "time" THEN "time" ELSE "report")

(***************************************************************************)
(* getClientInfo gives its slices away without copying them: what a        *)
(* response is encoded from after the lock was released still is what was  *)
(* there under the lock.                                                   *)
(***************************************************************************)
EncodedIsSnapshot ==
    \A t \in Threads : \A c \in DOMAIN written[t] : written[t][c] = seen[t][c]

(***************************************************************************)
(* No data race on the histories: the element an append is about to write  *)
(* in place is outside every slice a response is being encoded from.       *)
(***************************************************************************)
Cells(slice) == {<<slice.array, slice.offset + k>> : k \in 1..slice.len}

WritesMissReaders ==
    \A w, r \in Threads :
      pc[w] \in Series /\ pc[r] = "encode" /\ req[w].body \in DOMAIN result[r] =>
        LET slice == Trimmed(clients[req[w].body].history[pc[w]]) IN
          slice.len < slice.cap =>
            <<slice.array, slice.offset + slice.len + 1>>
              \notin Cells(result[r][req[w].body].history[pc[w]])

(***************************************************************************)
(* The promise of the server, the same as the C server's but without a     *)
(* limit on the clients: a report takes effect with its last append, a     *)
(* /data answer when getClientInfo runs, though it is encoded later.       *)
(***************************************************************************)
ViewOf(rows) ==
    [c \in DOMAIN rows |->
       [f \in {"latest"} \union Series |->
          IF f = "latest" THEN rows[c].latest ELSE rows[c].history[f]]]

SessionOf(t) ==
    CASE pc[t] \in {"lock", "drain", "store"} \union Series ->
           [op |-> "report", id |-> req[t].body, report |-> report[t]]
      [] pc[t] = "unlock" \/ reply[t] = "ok" ->
           [op |-> "stored"]
      [] req[t].path = "data" /\ pc[t] \in {"rlock", "rwait", "collect"} ->
           [op |-> "query"]
      [] req[t].path = "data" /\ pc[t] \in {"runlock", "encode"} ->
           [op |-> "answered", view |-> ViewOf(seen[t])]
      [] req[t].path = "data" /\ pc[t] = "send" ->
           [op |-> "answered", view |-> ViewOf(written[t])]
      [] OTHER -> [op |-> "idle"]

Store == INSTANCE MonitorStore WITH
    Sessions    <- Threads,
    Reports     <- Serials,
    MAX_CLIENTS <- Cardinality(ClientIds),
    session     <- [t \in Threads |-> SessionOf(t)]

ImplementsStore == Store!Spec

(***************************************************************************)
(* The handlers use the lock as RWMutex has it: they change the map only   *)
(* between Lock and Unlock, read it only between RLock and RUnlock, take   *)
(* the lock once and give it back before they answer.  So what RWMutex     *)
(* says of requests that wait holds of the server's, if the runtime runs   *)
(* every goroutine that is not blocked: none blocks under the lock.        *)
(***************************************************************************)
PlaceOf(t) ==
    CASE pc[t] \in {"lock", "drain", "rlock", "rwait"} -> pc[t]
      [] pc[t] \in {"store", "unlock"} \union Series -> "write"
      [] pc[t] \in {"collect", "runlock"} -> "read"
      [] OTHER -> "out"

Mutex == INSTANCE RWMutex WITH at <- [t \in Threads |-> PlaceOf(t)]

ImplementsMutex == Mutex!Spec
=============================================================================
