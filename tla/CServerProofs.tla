--------------------------- MODULE CServerProofs ---------------------------
(***************************************************************************)
(* Proofs about the C server, for every number of threads, clients, slots  *)
(* and history positions.                                                  *)
(*                                                                         *)
(* First its types, its mutex, its table, and what becomes of a slot from  *)
(* one step to the next.                                                   *)
(*                                                                         *)
(* Then what answers say of the table: a section under way agrees with     *)
(* it, the notices written outside the mutex tell the truth, and the       *)
(* sections of a page never go back in time.                               *)
(*                                                                         *)
(* Last that the server implements MonitorStore: its reports take effect   *)
(* with their pushes, are turned away by the search, its views when the    *)
(* scan ends, and every other step changes nothing the store promises.     *)
(***************************************************************************)
EXTENDS CServer, SequenceTheorems, FiniteSetTheorems, TLAPS

(***************************************************************************)
(* What a thread's locals are at each place of handle_client: found is a   *)
(* slot in use while a report is stored, the loop over the clients has not *)
(* left the table, and a report is only stored from a body that parsed.    *)
(***************************************************************************)
ControlOK ==
    \A t \in Threads :
      /\ pc[t] \in {"idle", "recv", "body", "route"} => task[t] = "none"
      /\ pc[t] = "find" => task[t] = "put"
      /\ pc[t] \in {"store", "push"} => task[t] = "put" /\ found[t] \in 1..client_count
      /\ pc[t] \in {"lock", "unlock"} => task[t] # "none"
      /\ pc[t] = "scan" => task[t] \in Sections /\ cursor[t] <= client_count + 1
      /\ pc[t] = "check" => task[t] \in {"side", "detail"}
      /\ task[t] = "put" => req[t].body \in ClientIds

TypeInv == TypeOK /\ ControlOK

LEMMA ShiftedType ==
    ASSUME NEW S, NEW a \in [Positions -> S]
    PROVE  Shifted(a) \in [Positions -> S]
  BY SizesAssumption DEF Shifted, Positions

(***************************************************************************)
(* Pushing keeps the shape of a slot, and never leaves it empty.           *)
(***************************************************************************)
LEMMA PushedType ==
    ASSUME NEW ch \in ClientHistory, NEW v \in Serials, NEW tm \in Times
    PROVE  /\ Pushed(ch, v, tm) \in ClientHistory
           /\ Pushed(ch, v, tm).history_count \in Positions
           /\ Pushed(ch, v, tm).client_id = ch.client_id
  <1> DEFINE full == ch.history_count >= HISTORY_SIZE
             count == IF full THEN ch.history_count ELSE ch.history_count + 1
             Room(a) == IF full THEN Shifted(a) ELSE a
  <1>1. count \in Positions
    BY SizesAssumption DEF ClientHistory, Positions
  <1>2. /\ Room(ch.load_history) \in [Positions -> Serials]
        /\ Room(ch.mem_history) \in [Positions -> Serials]
        /\ Room(ch.time_history) \in [Positions -> Times]
    BY ShiftedType DEF ClientHistory
  <1>3. /\ [Room(ch.load_history) EXCEPT ![count] = v] \in [Positions -> Serials]
        /\ [Room(ch.mem_history) EXCEPT ![count] = v] \in [Positions -> Serials]
        /\ [Room(ch.time_history) EXCEPT ![count] = tm] \in [Positions -> Times]
    <2> HIDE DEF count, Room
    <2> QED BY <1>1, <1>2
  <1>4. Pushed(ch, v, tm) =
          [ch EXCEPT !.history_count = count,
                     !.load_history = [Room(ch.load_history) EXCEPT ![count] = v],
                     !.mem_history = [Room(ch.mem_history) EXCEPT ![count] = v],
                     !.time_history = [Room(ch.time_history) EXCEPT ![count] = tm]]
    BY DEF Pushed, ClientHistory
  <1>5. count \in 0..HISTORY_SIZE
    BY <1>1, SizesAssumption DEF Positions
  <1> HIDE DEF count, Room
  <1> QED BY <1>1, <1>3, <1>4, <1>5 DEF ClientHistory

LEMMA RowType ==
    ASSUME TypeOK, NEW section \in Sections, NEW ch \in ClientHistory
    PROVE  RowOf(section, ch) \in Row
  <1>1. IsOnline(ch) \in BOOLEAN
    BY DEF IsOnline
  <1>2. 1..ch.history_count \subseteq Positions
    BY SizesAssumption DEF ClientHistory, Positions
  <1>3. ASSUME NEW S, NEW a \in [Positions -> S]
        PROVE  Held(ch, a) \in Seq(S)
    <2>1. ch.history_count \in Nat
      BY SizesAssumption DEF ClientHistory
    <2>2. Held(ch, a) \in [1..ch.history_count -> S]
      BY <1>2 DEF Held
    <2> QED BY <2>1, <2>2, SeqDef
  <1>4. \A S : << >> \in Seq(S)
    OBVIOUS
  <1> QED BY <1>1, <1>3, <1>4 DEF RowOf, Row, ClientHistory

-----------------------------------------------------------------------------
(* Types and control.                                                      *)

LEMMA InitType == Init => TypeInv
  <1> SUFFICES ASSUME Init PROVE TypeInv
    OBVIOUS
  <1>1. ZeroSlot \in ClientHistory
    BY SizesAssumption DEF ZeroSlot, ClientHistory, Serials, Times
  <1>2. NoRequest \in RequestType
    BY DEF NoRequest, RequestType
  <1>3. NoPage \in [Sections -> Seq(Row)]
    BY DEF NoPage
  <1>4. TypeOK
    BY <1>1, <1>2, <1>3, SizesAssumption
    DEF Init, TypeOK, Places, Critical, Replies, Serials, Times, NoNotice
  <1>5. ControlOK
    BY DEF Init, ControlOK
  <1> QED BY <1>4, <1>5 DEF TypeInv

(***************************************************************************)
(* The end of a thread, whatever ends it.                                  *)
(***************************************************************************)
LEMMA CloseType ==
    ASSUME TypeInv, NEW t \in Threads, Close(t)
    PROVE  TypeInv'
  <1>1. /\ NoRequest \in RequestType
        /\ NoPage \in [Sections -> Seq(Row)]
        /\ NoNotice \in [{"side", "detail"} -> BOOLEAN]
    BY DEF NoRequest, RequestType, NoPage, NoNotice
  <1>2. TypeOK'
    BY <1>1, SizesAssumption
    DEF TypeInv, TypeOK, Close, GoTo, table, Places, Critical, Replies, Serials
  <1>3. ControlOK'
    BY DEF TypeInv, TypeOK, ControlOK, Close, GoTo, table
  <1> QED BY <1>2, <1>3 DEF TypeInv

(***************************************************************************)
(* The three outcomes of looking for the slot of a report.                 *)
(***************************************************************************)
LEMMA PutFindCases ==
    ASSUME TypeOK, NEW t \in Threads, PutFind(t)
    PROVE  \/ /\ \E i \in 1..client_count :
                  /\ i \in Slots
                  /\ clients[i].client_id = req[t].body
                  /\ found' = [found EXCEPT ![t] = i]
              /\ pc' = [pc EXCEPT ![t] = "store"]
              /\ UNCHANGED <<clients, client_count, log>>
           \/ /\ \A i \in 1..client_count : clients[i].client_id # req[t].body
              /\ client_count + 1 \in Slots
              /\ client_count' = client_count + 1
              /\ found' = [found EXCEPT ![t] = client_count + 1]
              /\ clients' = [clients EXCEPT ![client_count + 1].history_count = 0]
              /\ pc' = [pc EXCEPT ![t] = "store"]
              /\ log' = log
           \/ /\ \A i \in 1..client_count : clients[i].client_id # req[t].body
              /\ client_count = MAX_CLIENTS
              /\ found' = [found EXCEPT ![t] = 0]
              /\ pc' = [pc EXCEPT ![t] = "unlock"]
              /\ UNCHANGED <<clients, client_count, log>>
  <1>1. client_count \in Nat /\ 1..client_count \subseteq Slots
    BY SizesAssumption DEF TypeOK, Slots
  <1>2. CASE Lookup(req[t].body) # {}
    BY <1>1, <1>2 DEF PutFind, Lookup, GoTo, table
  <1>3. CASE Lookup(req[t].body) = {} /\ HasRoom
    BY <1>1, <1>3, SizesAssumption DEF PutFind, Lookup, HasRoom, NewSlot, GoTo, Slots
  <1>4. CASE Lookup(req[t].body) = {} /\ ~ HasRoom
    BY <1>1, <1>4, SizesAssumption DEF PutFind, Lookup, HasRoom, GoTo, table, TypeOK
  <1> QED BY <1>2, <1>3, <1>4

LEMMA NextType == TypeInv /\ [Next]_vars => TypeInv'
  <1> SUFFICES ASSUME TypeInv, [Next]_vars PROVE TypeInv'
    OBVIOUS
  <1> USE DEF TypeInv
  <1>1. CASE Tick
    <2>1. TypeOK'
      BY <1>1, SizesAssumption DEF TypeOK, Tick, table, locals, Times
    <2>2. ControlOK'
      BY <1>1 DEF ControlOK, Tick, table, locals
    <2> QED BY <2>1, <2>2
  <1>2. ASSUME NEW t \in Threads, NEW r \in Requests, Accept(t, r)
        PROVE  TypeInv'
    <2>1. TypeOK'
      <3>1. r \in RequestType
        BY NamesAssumption
      <3>2. sent' \in Serials /\ report' \in [Threads -> Serials]
        <4>1. CASE r.body \in ClientIds
          <5>1. sent + 1 \in Serials
            BY <1>2, <4>1, SizesAssumption DEF TypeOK, Accept, Serials
          <5> QED BY <1>2, <4>1, <5>1 DEF TypeOK, Accept
        <4>2. CASE r.body \notin ClientIds
          <5>1. 0 \in Serials
            BY SizesAssumption DEF Serials
          <5> QED BY <1>2, <4>2, <5>1, ZenonT(60) DEF TypeOK, Accept
        <4> QED BY <4>1, <4>2
      <3> QED
        BY <1>2, <3>1, <3>2 DEF TypeOK, Accept, GoTo, table, locals, Places
    <2>2. ControlOK'
      BY <1>2 DEF TypeOK, ControlOK, Accept, GoTo, table, locals
    <2> QED BY <2>1, <2>2
  <1>3. ASSUME NEW t \in Threads, RecvNothing(t)
        PROVE  TypeInv'
    BY <1>3, CloseType DEF RecvNothing
  <1>4. ASSUME NEW t \in Threads, RecvHeader(t)
        PROVE  TypeInv'
    <2>1. TypeOK'
      BY <1>4 DEF TypeOK, RecvHeader, GoTo, table, locals, Places
    <2>2. ControlOK'
      BY <1>4 DEF TypeOK, ControlOK, RecvHeader, GoTo, table, locals
    <2> QED BY <2>1, <2>2
  <1>5. ASSUME NEW t \in Threads, RecvBody(t)
        PROVE  TypeInv'
    <2>1. TypeOK'
      BY <1>5 DEF TypeOK, RecvBody, GoTo, table, Places, Replies
    <2>2. ControlOK'
      BY <1>5 DEF TypeOK, ControlOK, RecvBody, GoTo, table
    <2> QED BY <2>1, <2>2
  <1>6. ASSUME NEW t \in Threads, Route(t)
        PROVE  TypeInv'
    <2>1. TypeOK'
      BY <1>6 DEF TypeOK, Route, GoTo, table, Places, Replies, Sections
    <2>2. ControlOK'
      BY <1>6 DEF TypeOK, ControlOK, Route, GoTo, table
    <2> QED BY <2>1, <2>2
  <1>7. ASSUME NEW t \in Threads, Send(t)
        PROVE  TypeInv'
    BY <1>7, CloseType DEF Send
  <1>8. ASSUME NEW t \in Threads, Lock(t)
        PROVE  TypeInv'
    <2>1. TypeOK'
      BY <1>8, SizesAssumption DEF TypeOK, Lock, GoTo, table, Places, Critical
    <2>2. ControlOK'
      <3>1. /\ pc'[t] = (IF task[t] = "put" THEN "find" ELSE "scan")
            /\ \A u \in Threads \ {t} : pc'[u] = pc[u] /\ cursor'[u] = cursor[u]
            /\ cursor'[t] = 1
        BY <1>8 DEF TypeOK, Lock, GoTo
      <3>2. task[t] \in Sections \union {"put"}
        BY <1>8 DEF TypeOK, ControlOK, Lock
      <3>3. 1 <= client_count + 1
        BY SizesAssumption DEF TypeOK
      <3> QED
        BY <1>8, <3>1, <3>2, <3>3 DEF ControlOK, Lock, table
    <2> QED BY <2>1, <2>2
  <1>9. ASSUME NEW t \in Threads, Unlock(t)
        PROVE  TypeInv'
    <2>1. TypeOK'
      BY <1>9 DEF TypeOK, Unlock, GoTo, table, Places, Replies
    <2>2. ControlOK'
      BY <1>9 DEF TypeOK, ControlOK, Unlock, GoTo, table
    <2> QED BY <2>1, <2>2
  <1>10. ASSUME NEW t \in Threads, PutFind(t)
         PROVE  TypeInv'
    <2>1. client_count' \in 0..MAX_CLIENTS /\ found' \in [Threads -> 0..MAX_CLIENTS]
      <3>1. TypeOK
        OBVIOUS
      <3>2. \A i \in Slots \union {0} : [found EXCEPT ![t] = i] \in [Threads -> 0..MAX_CLIENTS]
        BY SizesAssumption DEF TypeOK, Slots
      <3>3. client_count + 1 \in Slots => client_count + 1 \in 0..MAX_CLIENTS
        BY SizesAssumption DEF TypeOK, Slots
      <3>4. client_count \in 0..MAX_CLIENTS
        BY DEF TypeOK
      <3> QED
        BY <1>10, <3>1, <3>2, <3>3, <3>4, PutFindCases
    <2>2. clients' \in [Slots -> ClientHistory]
      <3>1. ASSUME NEW ch \in ClientHistory
            PROVE  [ch EXCEPT !.history_count = 0] \in ClientHistory
        BY SizesAssumption DEF ClientHistory
      <3>2. ASSUME NEW i \in Slots
            PROVE  [clients EXCEPT ![i].history_count = 0] \in [Slots -> ClientHistory]
        BY <3>1 DEF TypeOK
      <3>3. TypeOK /\ clients \in [Slots -> ClientHistory]
        BY DEF TypeOK
      <3> QED
        BY <1>10, <3>2, <3>3, PutFindCases
    <2>3. TypeOK'
      BY <1>10, <2>1, <2>2 DEF TypeOK, PutFind, GoTo, table, Places, Critical
    <2>4. ControlOK'
      <3>1. /\ client_count' \in Nat /\ client_count' >= client_count
            /\ pc'[t] = "store" => found'[t] \in 1..client_count'
        BY <1>10, PutFindCases DEF TypeOK
      <3>2. /\ pc'[t] \in {"store", "unlock"}
            /\ \A u \in Threads \ {t} : pc'[u] = pc[u] /\ found'[u] = found[u]
        BY <1>10 DEF PutFind, GoTo, TypeOK
      <3> QED
        BY <1>10, <3>1, <3>2 DEF TypeOK, ControlOK, PutFind
    <2> QED BY <2>3, <2>4
  <1>11. ASSUME NEW t \in Threads, PutStore(t)
         PROVE  TypeInv'
    <2>1. TypeOK'
      <3>1. found[t] \in Slots /\ req[t].body \in ClientIds
        BY <1>11 DEF PutStore, ControlOK, TypeOK, Slots
      <3>2. ASSUME NEW ch \in ClientHistory
            PROVE  [ch EXCEPT !.last_seen = now, !.client_id = req[t].body,
                              !.latest = report[t]] \in ClientHistory
        BY <3>1 DEF ClientHistory, TypeOK
      <3>3. clients' \in [Slots -> ClientHistory]
        BY <1>11, <3>1, <3>2, Zenon DEF PutStore, TypeOK
      <3> QED
        BY <1>11, <3>3 DEF TypeOK, PutStore, GoTo, table, locals, Places, Critical
    <2>2. ControlOK'
      BY <1>11 DEF TypeOK, ControlOK, PutStore, GoTo, table, locals
    <2> QED BY <2>1, <2>2
  <1>12. ASSUME NEW t \in Threads, PutPush(t)
         PROVE  TypeInv'
    <2>1. TypeOK'
      <3>1. found[t] \in Slots /\ req[t].body \in ClientIds
        BY <1>12 DEF PutPush, ControlOK, TypeOK, Slots
      <3>2. Pushed(clients[found[t]], report[t], now) \in ClientHistory
        BY <3>1, PushedType DEF TypeOK
      <3>3. [report |-> report[t], time |-> now] \in Entry
        BY DEF TypeOK, Entry
      <3> QED
        BY <1>12, <3>1, <3>2, <3>3
        DEF TypeOK, PutPush, GoTo, table, locals, Places, Critical
    <2>2. ControlOK'
      BY <1>12 DEF TypeOK, ControlOK, PutPush, GoTo, locals
    <2> QED BY <2>1, <2>2
  <1>13. ASSUME NEW t \in Threads, Scan(t)
         PROVE  TypeInv'
    <2>1. TypeOK'
      <3>1. task[t] \in Sections /\ cursor[t] \in Slots
        BY <1>13, SizesAssumption DEF Scan, ControlOK, TypeOK, Slots
      <3>2. RowOf(task[t], clients[cursor[t]]) \in Row
        BY <3>1, RowType DEF TypeOK
      <3>3. cursor[t] + 1 \in 1..(MAX_CLIENTS + 1)
        BY <3>1, SizesAssumption DEF Slots
      <3>4. page' \in [Threads -> [Sections -> Seq(Row)]]
        BY <1>13, <3>1, <3>2 DEF TypeOK, Scan
      <3> QED
        BY <1>13, <3>3, <3>4 DEF TypeOK, Scan, table
    <2>2. ControlOK'
      BY <1>13, SMTT(30) DEF TypeOK, ControlOK, Scan, table
    <2> QED BY <2>1, <2>2
  <1>14. ASSUME NEW t \in Threads, ScanEnd(t)
         PROVE  TypeInv'
    <2>1. TypeOK'
      BY <1>14 DEF TypeOK, ScanEnd, GoTo, table, locals, Places, Critical
    <2>2. ControlOK'
      BY <1>14 DEF TypeOK, ControlOK, ScanEnd, GoTo, table, locals, Sections
    <2> QED BY <2>1, <2>2
  <1>15. ASSUME NEW t \in Threads, Check(t)
         PROVE  TypeInv'
    <2>1. TypeOK'
      BY <1>15 DEF TypeOK, ControlOK, Check, NextSection, GoTo, table, Places, Sections
    <2>2. ControlOK'
      BY <1>15 DEF TypeOK, ControlOK, Check, NextSection, GoTo, table
    <2> QED BY <2>1, <2>2
  <1>16. CASE UNCHANGED vars
    <2>1. TypeOK'
      BY <1>16 DEF TypeOK, vars, locals
    <2>2. ControlOK'
      BY <1>16 DEF ControlOK, vars, locals
    <2> QED BY <2>1, <2>2
  <1> QED
    BY <1>1, <1>2, <1>3, <1>4, <1>5, <1>6, <1>7, <1>8, <1>9, <1>10, <1>11, <1>12,
       <1>13, <1>14, <1>15, <1>16
    DEF Next, Receive, Serve

(***************************************************************************)
(* Every variable keeps its type: in particular no index leaves the table  *)
(* or a history, and no log names a report that was not sent.              *)
(***************************************************************************)
THEOREM TypeCorrect == Spec => []TypeOK
  <1>1. Spec => []TypeInv
    BY InitType, NextType, PTL DEF Spec
  <1>2. TypeInv => TypeOK
    BY DEF TypeInv
  <1> QED BY <1>1, <1>2, PTL

-----------------------------------------------------------------------------
(* The mutex.                                                              *)

LEMMA NextMutex == TypeInv /\ MutualExclusion /\ [Next]_vars => MutualExclusion'
  <1> SUFFICES ASSUME TypeInv, MutualExclusion, [Next]_vars PROVE MutualExclusion'
    OBVIOUS
  <1> USE NamesAssumption DEF TypeInv, MutualExclusion, Critical
  <1>1. CASE Tick
    BY <1>1 DEF Tick
  <1>2. ASSUME NEW t \in Threads, NEW r \in Requests, Accept(t, r)
        PROVE  MutualExclusion'
    BY <1>2 DEF Accept, GoTo, TypeOK
  <1>3. ASSUME NEW t \in Threads, Receive(t)
        PROVE  MutualExclusion'
    BY <1>3 DEF Receive, RecvNothing, RecvHeader, RecvBody, Close, GoTo, TypeOK
  <1>4. ASSUME NEW t \in Threads, Route(t) \/ Send(t) \/ Check(t)
        PROVE  MutualExclusion'
    BY <1>4 DEF Route, Send, Check, Close, GoTo, TypeOK
  <1>5. ASSUME NEW t \in Threads, Lock(t)
        PROVE  MutualExclusion'
    BY <1>5 DEF Lock, MutexFree, GoTo, TypeOK
  <1>6. ASSUME NEW t \in Threads, Unlock(t)
        PROVE  MutualExclusion'
    BY <1>6 DEF Unlock, GoTo, TypeOK
  <1>7. ASSUME NEW t \in Threads, PutFind(t)
        PROVE  MutualExclusion'
    BY <1>7 DEF PutFind, GoTo, TypeOK
  <1>8. ASSUME NEW t \in Threads, PutStore(t) \/ PutPush(t)
        PROVE  MutualExclusion'
    BY <1>8 DEF PutStore, PutPush, GoTo, TypeOK
  <1>9. ASSUME NEW t \in Threads, Scan(t) \/ ScanEnd(t)
        PROVE  MutualExclusion'
    BY <1>9 DEF Scan, ScanEnd, GoTo, TypeOK
  <1>10. CASE UNCHANGED vars
    BY <1>10 DEF vars
  <1> QED
    BY <1>1, <1>2, <1>3, <1>4, <1>5, <1>6, <1>7, <1>8, <1>9, <1>10 DEF Next, Serve

LEMMA InitMutex == Init => MutualExclusion
  BY NamesAssumption DEF Init, MutualExclusion, Critical

(***************************************************************************)
(* A thread is in a critical section exactly when it owns the mutex, so    *)
(* never two of them are.                                                  *)
(***************************************************************************)
THEOREM MutexCorrect == Spec => []MutualExclusion
  <1>1. Init => TypeInv /\ MutualExclusion
    BY InitType, InitMutex
  <1>2. TypeInv /\ MutualExclusion /\ [Next]_vars => (TypeInv /\ MutualExclusion)'
    BY NextType, NextMutex
  <1> QED BY <1>1, <1>2, PTL DEF Spec

-----------------------------------------------------------------------------
(* Pushing into a history.                                                 *)

LEMMA PushedFields ==
    ASSUME NEW ch \in ClientHistory, NEW v \in Serials, NEW tm \in Times
    PROVE  LET full == ch.history_count >= HISTORY_SIZE
               count == IF full THEN ch.history_count ELSE ch.history_count + 1
               ph == Pushed(ch, v, tm)
           IN  /\ ph.history_count = count
               /\ \A k \in 1..count :
                    LET old == IF full THEN k + 1 ELSE k IN
                      /\ ph.load_history[k] = IF k = count THEN v ELSE ch.load_history[old]
                      /\ ph.mem_history[k] = IF k = count THEN v ELSE ch.mem_history[old]
                      /\ ph.time_history[k] = IF k = count THEN tm ELSE ch.time_history[old]
  <1> DEFINE full == ch.history_count >= HISTORY_SIZE
             count == IF full THEN ch.history_count ELSE ch.history_count + 1
             Room(a) == IF full THEN Shifted(a) ELSE a
             ph == Pushed(ch, v, tm)
  <1>1. count \in Positions /\ 1..count \subseteq Positions
    BY SizesAssumption DEF ClientHistory, Positions
  <1>2. ASSUME NEW S, NEW a \in [Positions -> S], NEW x \in S, NEW k \in 1..count
        PROVE  [Room(a) EXCEPT ![count] = x][k] =
                 IF k = count THEN x ELSE a[IF full THEN k + 1 ELSE k]
    <2>1. Room(a) \in [Positions -> S]
      BY ShiftedType
    <2>2. k # count => Room(a)[k] = a[IF full THEN k + 1 ELSE k]
      BY <1>1, SizesAssumption DEF Shifted, Positions, ClientHistory
    <2> HIDE DEF Room, count
    <2> QED BY <1>1, <2>1, <2>2
  <1>3. /\ ph.history_count = count
        /\ ph.load_history = [Room(ch.load_history) EXCEPT ![count] = v]
        /\ ph.mem_history = [Room(ch.mem_history) EXCEPT ![count] = v]
        /\ ph.time_history = [Room(ch.time_history) EXCEPT ![count] = tm]
    BY DEF Pushed, ClientHistory
  <1>4. /\ ch.load_history \in [Positions -> Serials]
        /\ ch.mem_history \in [Positions -> Serials]
        /\ ch.time_history \in [Positions -> Times]
    BY DEF ClientHistory
  <1>5. ASSUME NEW k \in 1..count
        PROVE  LET old == IF full THEN k + 1 ELSE k IN
                 /\ ph.load_history[k] = IF k = count THEN v ELSE ch.load_history[old]
                 /\ ph.mem_history[k] = IF k = count THEN v ELSE ch.mem_history[old]
                 /\ ph.time_history[k] = IF k = count THEN tm ELSE ch.time_history[old]
    <2> DEFINE Put(a, x) == [Room(a) EXCEPT ![count] = x]
               old == IF full THEN k + 1 ELSE k
    <2>1. \A S : \A a \in [Positions -> S] : \A x \in S :
            Put(a, x)[k] = IF k = count THEN x ELSE a[old]
      BY <1>2
    <2>2. /\ ph.load_history = Put(ch.load_history, v)
          /\ ph.mem_history = Put(ch.mem_history, v)
          /\ ph.time_history = Put(ch.time_history, tm)
      BY <1>3
    <2> HIDE DEF ph, count, old, Put
    <2>3. ph.load_history[k] = IF k = count THEN v ELSE ch.load_history[old]
      BY <1>4, <2>1, <2>2
    <2>4. ph.mem_history[k] = IF k = count THEN v ELSE ch.mem_history[old]
      BY <1>4, <2>1, <2>2
    <2>5. ph.time_history[k] = IF k = count THEN tm ELSE ch.time_history[old]
      BY <1>4, <2>1, <2>2
    <2> QED BY <2>3, <2>4, <2>5 DEF old
  <1> QED BY <1>3, <1>5

(***************************************************************************)
(* Pushing an entry into a window of a log gives the window of the log     *)
(* with that entry: the arrays drop their oldest element exactly when the  *)
(* log is longer than they are.                                            *)
(***************************************************************************)
LEMMA PushedWindow ==
    ASSUME NEW ch \in ClientHistory, NEW v \in Serials, NEW tm \in Times,
           NEW s \in Seq(Entry), IsWindowOf(ch, s)
    PROVE  IsWindowOf(Pushed(ch, v, tm), Append(s, [report |-> v, time |-> tm]))
  <1> DEFINE e == [report |-> v, time |-> tm]
             full == ch.history_count >= HISTORY_SIZE
             count == IF full THEN ch.history_count ELSE ch.history_count + 1
             ph == Pushed(ch, v, tm)
             h == ch.history_count
             n == Len(s)
  <1>1. n \in Nat /\ h \in 0..HISTORY_SIZE /\ h = IF n < HISTORY_SIZE THEN n ELSE HISTORY_SIZE
    BY DEF IsWindowOf, ClientHistory
  <1>2. /\ Len(Append(s, e)) = n + 1
        /\ \A i \in 1..n : Append(s, e)[i] = s[i]
        /\ Append(s, e)[n + 1] = e
    BY DEF Entry
  <1>3. ph.history_count = IF n + 1 < HISTORY_SIZE THEN n + 1 ELSE HISTORY_SIZE
    BY <1>1, PushedFields, SizesAssumption
  <1>4. ph.history_count = count
    BY PushedFields
  <1>5. ASSUME NEW k \in 1..count
        PROVE  LET x == Append(s, e)[n + 1 - count + k] IN
                 /\ ph.load_history[k] = x.report
                 /\ ph.mem_history[k] = x.report
                 /\ ph.time_history[k] = x.time
    <2> DEFINE old == IF full THEN k + 1 ELSE k
    <2>1. /\ ph.load_history[k] = IF k = count THEN v ELSE ch.load_history[old]
          /\ ph.mem_history[k] = IF k = count THEN v ELSE ch.mem_history[old]
          /\ ph.time_history[k] = IF k = count THEN tm ELSE ch.time_history[old]
      BY PushedFields
    <2>2. CASE k = count
      <3>1. n + 1 - count + k = n + 1
        BY <1>1, <2>2, SizesAssumption
      <3> HIDE DEF ph, old
      <3> QED BY <1>2, <2>1, <2>2, <3>1
    <2>3. CASE k # count
      <3>1. old \in 1..h /\ n + 1 - count + k = n - h + old /\ n - h + old \in 1..n
        <4>1. n \in Nat /\ h \in Nat /\ HISTORY_SIZE \in Nat \ {0} /\ h <= n
          BY <1>1, SizesAssumption
        <4>2. \/ h = HISTORY_SIZE /\ count = h /\ old = k + 1
              \/ h = n /\ count = h + 1 /\ old = k
          BY <1>1, SizesAssumption
        <4>3. k \in Nat /\ 1 <= k /\ k < count
          BY <4>1, <4>2, <2>3
        <4> HIDE DEF n, h, count, old
        <4> QED BY <4>1, <4>2, <4>3
      <3>2. /\ ch.load_history[old] = s[n - h + old].report
            /\ ch.mem_history[old] = s[n - h + old].report
            /\ ch.time_history[old] = s[n - h + old].time
        BY <3>1 DEF IsWindowOf
      <3> HIDE DEF ph, old, n, h
      <3> QED BY <1>2, <2>1, <2>3, <3>1, <3>2
    <2> QED BY <2>2, <2>3
  <1>6. ASSUME NEW k \in 1..ph.history_count
        PROVE
          LET x == Append(s, e)[Len(Append(s, e)) - ph.history_count + k] IN
            /\ ph.load_history[k] = x.report
            /\ ph.mem_history[k] = x.report
            /\ ph.time_history[k] = x.time
    <2>1. k \in 1..count
      BY <1>4
    <2>2. Len(Append(s, e)) - ph.history_count + k = n + 1 - count + k
      <3>1. n \in Nat /\ count \in Nat /\ k \in Nat
        BY <1>1, <2>1, SizesAssumption
      <3> HIDE DEF ph, count, e, n
      <3> QED BY <1>2, <1>4, <3>1
    <2> HIDE DEF ph, count, e, n
    <2> QED BY <1>5, <2>1, <2>2
  <1>7. ph.history_count = IF Len(Append(s, e)) < HISTORY_SIZE
                             THEN Len(Append(s, e)) ELSE HISTORY_SIZE
    BY <1>2, <1>3
  <1> QED BY <1>6, <1>7 DEF IsWindowOf

-----------------------------------------------------------------------------
(* The table.                                                              *)

InUse == 1..client_count

Filling(i) == \E t \in Threads : pc[t] = "store" /\ found[t] = i

(***************************************************************************)
(* Two slots in use have different client_ids, unless one of them was just *)
(* given out and has none yet; a slot without history belongs to a thread  *)
(* that is about to push its first report.                                 *)
(***************************************************************************)
SlotsOK ==
    /\ \A i, j \in InUse :
         clients[i].client_id = clients[j].client_id => i = j \/ Filling(i) \/ Filling(j)
    /\ \A i \in InUse :
         clients[i].history_count = 0
           => \E t \in Threads : pc[t] \in {"store", "push"} /\ found[t] = i

(***************************************************************************)
(* The search a thread made still holds while it stores: no other slot has *)
(* its client_id, and its own has it, once it has one.                     *)
(***************************************************************************)
SearchOK ==
    \A t \in Threads :
      /\ pc[t] = "store" =>
           /\ \A j \in InUse : j # found[t] => clients[j].client_id # req[t].body
           /\ \/ clients[found[t]].history_count = 0
              \/ clients[found[t]].client_id = req[t].body
      /\ pc[t] = "push" => clients[found[t]].client_id = req[t].body

TableInv == SlotsOK /\ SearchOK /\ TableIsWindows

Inv == TypeInv /\ MutualExclusion /\ TableInv

(***************************************************************************)
(* A thread that stores keeps every other thread away from the table.      *)
(***************************************************************************)
LEMMA OneInside ==
    ASSUME MutualExclusion, NEW t \in Threads, pc[t] \in Critical,
           NEW u \in Threads, pc[u] \in Critical
    PROVE  u = t
  BY DEF MutualExclusion

(***************************************************************************)
(* A step that leaves the table alone, and moves no thread into or out of  *)
(* the two places where a slot is updated, preserves the invariant.        *)
(***************************************************************************)
LEMMA TableFrame ==
    ASSUME TableInv, UNCHANGED table,
           \A t \in Threads :
             \/ pc'[t] = pc[t] /\ found'[t] = found[t] /\ req'[t] = req[t]
             \/ pc[t] \notin {"store", "push"} /\ pc'[t] \notin {"store", "push"}
    PROVE  TableInv'
  <1>1. SlotsOK'
    BY DEF TableInv, SlotsOK, InUse, Filling, table
  <1>2. SearchOK'
    BY DEF TableInv, SearchOK, InUse, table
  <1>3. TableIsWindows'
    BY DEF TableInv, TableIsWindows, Registered, IsWindowOf, table
  <1> QED BY <1>1, <1>2, <1>3 DEF TableInv

(***************************************************************************)
(* The windows only depend on the log and on the registered slots.         *)
(***************************************************************************)
LEMMA WindowFrame ==
    ASSUME TableIsWindows, log' = log, Registered' = Registered,
           \A i \in Registered :
             /\ clients'[i].client_id = clients[i].client_id
             /\ clients'[i].history_count = clients[i].history_count
             /\ clients'[i].load_history = clients[i].load_history
             /\ clients'[i].mem_history = clients[i].mem_history
             /\ clients'[i].time_history = clients[i].time_history
    PROVE  TableIsWindows'
  <1>1. ASSUME NEW i \in Registered
        PROVE  /\ clients'[i].client_id \in ClientIds
               /\ IsWindowOf(clients'[i], log'[clients'[i].client_id])
    <2>1. IsWindowOf(clients[i], log[clients[i].client_id])
      BY DEF TableIsWindows
    <2>2. /\ log'[clients'[i].client_id] = log[clients[i].client_id]
          /\ clients'[i].client_id \in ClientIds
      BY DEF TableIsWindows
    <2> DEFINE s == log[clients[i].client_id]
    <2>3. IsWindowOf(clients'[i], s)
      <3>1. IsWindowOf(clients[i], s)
        BY <2>1
      <3> HIDE DEF s
      <3> QED BY <3>1 DEF IsWindowOf
    <2> QED BY <2>2, <2>3
  <1>2. ASSUME NEW c \in ClientIds, log'[c] # << >>
        PROVE  \E i \in Registered' : clients'[i].client_id = c
    BY <1>2 DEF TableIsWindows
  <1> QED BY <1>1, <1>2 DEF TableIsWindows, IsWindowOf

LEMMA FindTable ==
    ASSUME Inv, NEW t \in Threads, PutFind(t)
    PROVE  TableInv'
  <1> USE DEF Inv, TypeInv
  <1>1. /\ pc[t] = "find" /\ pc \in [Threads -> Places] /\ found \in [Threads -> 0..MAX_CLIENTS]
        /\ req' = req /\ clients \in [Slots -> ClientHistory] /\ client_count \in Nat
    BY DEF PutFind, TypeOK
  <1>2. \A u \in Threads : pc[u] \notin {"store", "push"}
    BY <1>1, OneInside DEF Critical
  <1>3. \A i \in InUse : ~ Filling(i) /\ clients[i].history_count # 0
    BY <1>2 DEF TableInv, SlotsOK, Filling
  <1>4. ASSUME NEW i \in InUse, clients[i].client_id = req[t].body,
               found' = [found EXCEPT ![t] = i], pc' = [pc EXCEPT ![t] = "store"],
               UNCHANGED <<clients, client_count, log>>
        PROVE  TableInv'
    <2>1. SlotsOK'
      BY <1>3, <1>4 DEF TableInv, SlotsOK, InUse
    <2>2. SearchOK'
      BY <1>1, <1>2, <1>3, <1>4 DEF TableInv, SlotsOK, SearchOK, InUse
    <2>3. TableIsWindows'
      BY <1>4 DEF TableInv, TableIsWindows, Registered, IsWindowOf
    <2> QED BY <2>1, <2>2, <2>3 DEF TableInv
  <1>5. ASSUME \A i \in InUse : clients[i].client_id # req[t].body,
               client_count + 1 \in Slots, client_count' = client_count + 1,
               found' = [found EXCEPT ![t] = client_count + 1],
               clients' = [clients EXCEPT ![client_count + 1].history_count = 0],
               pc' = [pc EXCEPT ![t] = "store"], log' = log
        PROVE  TableInv'
    <2>1. /\ InUse' = InUse \union {client_count + 1}
          /\ client_count + 1 \notin InUse
          /\ InUse \subseteq Slots
      BY <1>1, <1>5, SizesAssumption DEF InUse, Slots, TypeOK
    <2>2. /\ \A i \in InUse : clients'[i] = clients[i]
          /\ clients'[client_count + 1].history_count = 0
      BY <1>1, <1>5, <2>1 DEF ClientHistory
    <2>3. pc'[t] = "store" /\ found'[t] = client_count + 1
      BY <1>1, <1>5
    <2>4. SlotsOK'
      <3>1. ASSUME NEW i, i = client_count + 1
            PROVE  Filling(i)'
        BY <2>3, <3>1 DEF Filling
      <3>2. ASSUME NEW i \in InUse', NEW j \in InUse',
                   clients'[i].client_id = clients'[j].client_id
            PROVE  i = j \/ Filling(i)' \/ Filling(j)'
        <4>1. CASE i \in InUse /\ j \in InUse
          BY <1>3, <2>2, <3>2, <4>1 DEF TableInv, SlotsOK
        <4>2. CASE i = client_count + 1 \/ j = client_count + 1
          BY <3>1, <4>2
        <4> QED BY <2>1, <4>1, <4>2
      <3>3. ASSUME NEW i \in InUse', clients'[i].history_count = 0
            PROVE  \E u \in Threads : pc'[u] \in {"store", "push"} /\ found'[u] = i
        BY <1>3, <2>1, <2>2, <2>3, <3>3
      <3> QED BY <3>2, <3>3 DEF SlotsOK
    <2>5. SearchOK'
      BY <1>1, <1>2, <1>5, <2>1, <2>2, <2>3 DEF SearchOK
    <2>6. TableIsWindows'
      <3>1. Registered' = Registered
        BY <2>1, <2>2 DEF Registered, InUse
      <3>2. \A i \in Registered : clients'[i] = clients[i]
        BY <2>2 DEF Registered, InUse
      <3> QED
        BY <1>5, <3>1, <3>2, WindowFrame DEF TableInv
    <2> QED BY <2>4, <2>5, <2>6 DEF TableInv
  <1>6. ASSUME pc' = [pc EXCEPT ![t] = "unlock"], found' = [found EXCEPT ![t] = 0],
               UNCHANGED <<clients, client_count, log>>
        PROVE  TableInv'
    BY <1>1, <1>2, <1>6, TableFrame DEF table
  <1>7. TypeOK
    OBVIOUS
  <1> QED BY <1>4, <1>5, <1>6, <1>7, PutFindCases DEF InUse

LEMMA StoreTable ==
    ASSUME Inv, NEW t \in Threads, PutStore(t)
    PROVE  TableInv'
  <1> USE DEF Inv, TypeInv
  <1> DEFINE f == found[t]
  <1>1. /\ pc[t] = "store" /\ pc \in [Threads -> Places]
        /\ pc' = [pc EXCEPT ![t] = "push"]
        /\ UNCHANGED <<client_count, log, found, req>>
        /\ clients \in [Slots -> ClientHistory]
    BY DEF PutStore, TypeOK, GoTo, locals
  <1>2. f \in InUse /\ InUse \subseteq Slots /\ req[t].body \in ClientIds
    BY <1>1, SizesAssumption DEF ControlOK, InUse, Slots, TypeOK
  <1>3. \A u \in Threads : u # t => pc[u] \notin {"store", "push"}
    BY <1>1, OneInside DEF Critical
  <1>4. /\ \A i \in InUse : i # f => clients'[i] = clients[i]
        /\ clients'[f].client_id = req[t].body
        /\ clients'[f].history_count = clients[f].history_count
        /\ clients'[f].load_history = clients[f].load_history
        /\ clients'[f].mem_history = clients[f].mem_history
        /\ clients'[f].time_history = clients[f].time_history
    BY <1>1, <1>2 DEF PutStore, ClientHistory
  <1>5. InUse' = InUse
    BY <1>1 DEF InUse
  <1>6. \A j \in InUse : j # f => clients[j].client_id # req[t].body
    BY <1>1 DEF TableInv, SearchOK
  <1>7. \A i \in InUse : i # f => ~ Filling(i) /\ clients[i].history_count # 0
    BY <1>3 DEF TableInv, SlotsOK, Filling
  <1>8. SlotsOK'
    <2>1. ASSUME NEW i \in InUse, NEW j \in InUse,
                 clients'[i].client_id = clients'[j].client_id, i # j
          PROVE  FALSE
      BY <1>4, <1>6, <1>7, <2>1 DEF TableInv, SlotsOK
    <2>2. ASSUME NEW i \in InUse, clients'[i].history_count = 0
          PROVE  \E u \in Threads : pc'[u] \in {"store", "push"} /\ found'[u] = i
      BY <1>1, <1>4, <1>7, <2>2
    <2> QED BY <1>5, <2>1, <2>2 DEF SlotsOK
  <1>9. SearchOK'
    BY <1>1, <1>3, <1>4 DEF SearchOK
  <1>10. TableIsWindows'
    <2>1. Registered' = Registered
      BY <1>4, <1>5 DEF Registered, InUse
    <2>2. \A i \in Registered : clients'[i].client_id = clients[i].client_id
      BY <1>1, <1>4 DEF Registered, InUse, TableInv, SearchOK
    <2>3. \A i \in Registered : /\ clients'[i].history_count = clients[i].history_count
                                /\ clients'[i].load_history = clients[i].load_history
                                /\ clients'[i].mem_history = clients[i].mem_history
                                /\ clients'[i].time_history = clients[i].time_history
      BY <1>4 DEF Registered, InUse
    <2> QED
      BY <1>1, <2>1, <2>2, <2>3, WindowFrame DEF TableInv
  <1> QED BY <1>8, <1>9, <1>10 DEF TableInv

LEMMA PushTable ==
    ASSUME Inv, NEW t \in Threads, PutPush(t)
    PROVE  TableInv'
  <1> USE DEF Inv, TypeInv
  <1> DEFINE f == found[t]
             c == req[t].body
             e == [report |-> report[t], time |-> now]
  <1>1. /\ pc[t] = "push" /\ pc \in [Threads -> Places]
        /\ pc' = [pc EXCEPT ![t] = "unlock"]
        /\ UNCHANGED <<client_count, found, req>>
        /\ clients \in [Slots -> ClientHistory]
        /\ log \in [ClientIds -> Seq(Entry)]
        /\ report[t] \in Serials /\ now \in Times /\ e \in Entry
    BY DEF PutPush, TypeOK, GoTo, locals, Entry
  <1>2. f \in InUse /\ InUse \subseteq Slots /\ f \in Slots /\ c \in ClientIds
    BY <1>1, SizesAssumption DEF ControlOK, InUse, Slots, TypeOK
  <1>3. /\ \A u \in Threads : u # t => pc[u] \notin {"store", "push"}
        /\ \A i \in InUse : ~ Filling(i)
    BY <1>1, OneInside DEF Critical, Filling
  <1>4. /\ clients' = [clients EXCEPT ![f] = Pushed(clients[f], report[t], now)]
        /\ log' = [log EXCEPT ![c] = Append(log[c], e)]
    BY DEF PutPush
  <1>5. /\ clients'[f] = Pushed(clients[f], report[t], now)
        /\ clients'[f].client_id = c
        /\ clients'[f].history_count > 0
        /\ clients[f].client_id = c
    <2>1. clients'[f] = Pushed(clients[f], report[t], now) /\ clients[f] \in ClientHistory
      BY <1>1, <1>2, <1>4
    <2>2. clients[f].client_id = c
      BY <1>1 DEF TableInv, SearchOK
    <2> HIDE DEF f, c
    <2> QED BY <1>1, <2>1, <2>2, PushedType, SizesAssumption DEF Positions
  <1>6. \A i \in InUse : i # f => clients'[i] = clients[i] /\ clients[i].history_count # 0
    BY <1>1, <1>2, <1>3, <1>4 DEF TableInv, SlotsOK
  <1>7. \A i \in InUse : i # f => clients[i].client_id # c
    BY <1>2, <1>3, <1>5 DEF TableInv, SlotsOK
  <1>8. InUse' = InUse
    BY <1>1 DEF InUse
  <1>9. SlotsOK'
    <2>1. ASSUME NEW i \in InUse, NEW j \in InUse,
                 clients'[i].client_id = clients'[j].client_id, i # j
          PROVE  FALSE
      BY <1>3, <1>5, <1>6, <1>7, <2>1 DEF TableInv, SlotsOK
    <2>2. \A i \in InUse : clients'[i].history_count # 0
      BY <1>5, <1>6
    <2> QED BY <1>8, <2>1, <2>2 DEF SlotsOK
  <1>10. SearchOK'
    BY <1>1, <1>3 DEF SearchOK
  <1>11. TableIsWindows'
    <2>1. \A i \in InUse : i \in Registered' /\ (i # f => i \in Registered)
      <3>1. \A i \in InUse : clients'[i].history_count > 0
        <4>1. \A i \in InUse : clients[i].history_count \in Nat
          BY <1>1, <1>2, SizesAssumption DEF ClientHistory
        <4> QED BY <1>5, <1>6, <4>1
      <3> QED BY <1>6, <1>8, <3>1 DEF Registered, InUse
    <2>2. Registered' \subseteq InUse
      BY <1>8 DEF Registered, InUse
    <2>3. ASSUME NEW i \in InUse
          PROVE  /\ clients'[i].client_id \in ClientIds
                 /\ IsWindowOf(clients'[i], log'[clients'[i].client_id])
      <3>1. CASE i = f
        <4>1. IsWindowOf(clients[f], log[c])
          <5>1. CASE f \in Registered
            BY <1>5, <5>1 DEF TableInv, TableIsWindows
          <5>2. CASE f \notin Registered
            <6>1. clients[f].history_count = 0
              BY <1>1, <1>2, <5>2, SizesAssumption DEF Registered, InUse, ClientHistory
            <6>2. log[c] = << >>
              BY <1>2, <1>5, <1>7, <5>2 DEF TableInv, TableIsWindows, Registered, InUse
            <6> QED BY <6>1, <6>2, SizesAssumption DEF IsWindowOf
          <5> QED BY <5>1, <5>2
        <4>2. IsWindowOf(clients'[f], Append(log[c], e))
          BY <1>1, <1>2, <1>5, <4>1, PushedWindow
        <4>3. log'[c] = Append(log[c], e)
          BY <1>1, <1>2, <1>4
        <4> HIDE DEF f, c, e
        <4> QED BY <1>2, <1>5, <3>1, <4>2, <4>3
      <3>2. CASE i # f
        <4>1. clients'[i] = clients[i] /\ clients[i].client_id # c /\ i \in Registered
          BY <1>6, <1>7, <2>1, <3>2
        <4>2. clients[i].client_id \in ClientIds
          BY <4>1 DEF TableInv, TableIsWindows
        <4>3. log'[clients[i].client_id] = log[clients[i].client_id]
          BY <1>1, <1>4, <4>1, <4>2
        <4>4. IsWindowOf(clients[i], log[clients[i].client_id])
          BY <4>1 DEF TableInv, TableIsWindows
        <4> QED BY <4>1, <4>2, <4>3, <4>4
      <3> QED BY <3>1, <3>2
    <2>4. ASSUME NEW d \in ClientIds, log'[d] # << >>
          PROVE  \E i \in Registered' : clients'[i].client_id = d
      <3>1. CASE d = c
        BY <1>2, <1>5, <2>1, <3>1
      <3>2. CASE d # c
        <4>1. log[d] # << >>
          BY <1>1, <1>4, <2>4, <3>2
        <4>2. PICK i \in Registered : clients[i].client_id = d
          BY <4>1 DEF TableInv, TableIsWindows
        <4>3. i \in InUse /\ i # f
          BY <1>5, <3>2, <4>2 DEF Registered, InUse
        <4> QED BY <1>6, <2>1, <4>2, <4>3
      <3> QED BY <3>1, <3>2
    <2> QED BY <2>2, <2>3, <2>4 DEF TableIsWindows
  <1> QED BY <1>9, <1>10, <1>11 DEF TableInv

(***************************************************************************)
(* Every other step leaves the table alone.                                *)
(***************************************************************************)
LEMMA NextTable == Inv /\ [Next]_vars => TableInv'
  <1> SUFFICES ASSUME Inv, [Next]_vars PROVE TableInv'
    OBVIOUS
  <1> USE DEF Inv, TypeInv
  <1>1. pc \in [Threads -> Places] /\ found \in [Threads -> 0..MAX_CLIENTS] /\ TableInv
    BY DEF TypeOK
  <1>2. CASE Tick
    BY <1>1, <1>2, TableFrame DEF Tick, locals
  <1>3. ASSUME NEW t \in Threads, NEW r \in Requests, Accept(t, r)
        PROVE  TableInv'
    BY <1>1, <1>3, TableFrame DEF Accept, GoTo, locals, TypeOK
  <1>4. ASSUME NEW t \in Threads, RecvHeader(t) \/ RecvBody(t) \/ Route(t) \/ Check(t)
        PROVE  TableInv'
    BY <1>1, <1>4, TableFrame DEF RecvHeader, RecvBody, Route, Check, GoTo, locals
  <1>5. ASSUME NEW t \in Threads, RecvNothing(t) \/ Send(t)
        PROVE  TableInv'
    BY <1>1, <1>5, TableFrame DEF RecvNothing, Send, Close, GoTo, TypeOK
  <1>6. ASSUME NEW t \in Threads, Lock(t) \/ Unlock(t)
        PROVE  TableInv'
    BY <1>1, <1>6, TableFrame DEF Lock, Unlock, GoTo
  <1>7. ASSUME NEW t \in Threads, Scan(t) \/ ScanEnd(t)
        PROVE  TableInv'
    BY <1>1, <1>7, TableFrame DEF Scan, ScanEnd, GoTo, locals
  <1>8. CASE UNCHANGED vars
    BY <1>1, <1>8, TableFrame DEF vars, table, locals
  <1> QED
    BY <1>2, <1>3, <1>4, <1>5, <1>6, <1>7, <1>8, FindTable, StoreTable, PushTable
    DEF Next, Receive, Serve

LEMMA InitTable == Init => TableInv
  BY DEF Init, TableInv, SlotsOK, SearchOK, TableIsWindows, Registered, InUse

LEMMA InvCorrect == Spec => []Inv
  <1>1. Init => Inv
    BY InitType, InitMutex, InitTable DEF Inv
  <1>2. Inv /\ [Next]_vars => Inv'
    BY NextType, NextMutex, NextTable DEF Inv
  <1> QED BY <1>1, <1>2, PTL DEF Spec

LEMMA OneSlotEach ==
    ASSUME Inv, NEW i \in Registered, NEW j \in Registered,
           clients[i].client_id = clients[j].client_id
    PROVE  i = j
  <1> SUFFICES ASSUME i # j PROVE FALSE
    OBVIOUS
  <1>1. /\ i \in InUse /\ j \in InUse
        /\ clients[i].history_count # 0 /\ clients[j].history_count # 0
    BY DEF Registered, InUse
  <1>2. ~ Filling(i)
    BY <1>1 DEF Inv, TableInv, SearchOK, Filling
  <1>3. ~ Filling(j)
    BY <1>1 DEF Inv, TableInv, SearchOK, Filling
  <1> QED BY <1>1, <1>2, <1>3 DEF Inv, TableInv, SlotsOK

(***************************************************************************)
(* However many first reports of a client arrive together, it gets one     *)
(* slot of the table.                                                      *)
(***************************************************************************)
THEOREM UniqueClientsCorrect == Spec => []UniqueClients
  <1>1. Inv => UniqueClients
    BY OneSlotEach DEF UniqueClients
  <1> QED BY <1>1, InvCorrect, PTL

(***************************************************************************)
(* The histories of a slot are the newest HISTORY_SIZE reports stored for  *)
(* its client, in order and aligned; and no client with a stored report is *)
(* missing from the table.                                                 *)
(***************************************************************************)
THEOREM HistoryCorrect == Spec => []HistoryIsWindow
  <1>1. Inv => HistoryIsWindow
    BY DEF Inv, TypeInv, TableInv, HistoryIsWindow
  <1> QED BY <1>1, InvCorrect, PTL

-----------------------------------------------------------------------------
(* Slots stay with their clients.                                          *)

SlotKept(i) ==
    /\ i \in Registered'
    /\ clients'[i].client_id = clients[i].client_id

LEMMA FindKeeps ==
    ASSUME Inv, NEW t \in Threads, PutFind(t), NEW i \in Registered
    PROVE  SlotKept(i) /\ clients'[i] = clients[i]
  <1>1. TypeOK /\ i \in 1..client_count /\ clients[i].history_count > 0
    BY DEF Inv, TypeInv, Registered
  <1>2. clients \in [Slots -> ClientHistory] /\ client_count \in 0..MAX_CLIENTS
    BY <1>1 DEF TypeOK
  <1>3. i \in 1..client_count' /\ clients'[i] = clients[i]
    BY <1>1, <1>2, PutFindCases, SizesAssumption DEF Slots
  <1> QED BY <1>1, <1>3 DEF SlotKept, Registered

LEMMA StoreKeeps ==
    ASSUME Inv, NEW t \in Threads, PutStore(t), NEW i \in Registered
    PROVE  /\ SlotKept(i)
           /\ clients'[i].history_count = clients[i].history_count
           /\ clients'[i].time_history = clients[i].time_history
           /\ i # found[t] => clients'[i] = clients[i]
           /\ i = found[t] => clients'[i].last_seen = now
  <1> USE DEF Inv, TypeInv
  <1>1. /\ pc[t] = "store" /\ client_count' = client_count
        /\ clients' = [clients EXCEPT ![found[t]] =
                         [clients[found[t]] EXCEPT !.last_seen = now,
                                                   !.client_id = req[t].body,
                                                   !.latest = report[t]]]
    BY DEF PutStore
  <1>2. i \in 1..client_count /\ i \in Slots /\ clients[i].history_count > 0
    BY SizesAssumption DEF Registered, TypeOK, Slots
  <1>3. clients \in [Slots -> ClientHistory]
    BY DEF TypeOK
  <1>4. i = found[t] => clients[i].client_id = req[t].body
    BY <1>1, <1>2 DEF TableInv, SearchOK
  <1>5. /\ clients'[i].client_id = clients[i].client_id
        /\ clients'[i].history_count = clients[i].history_count
        /\ clients'[i].time_history = clients[i].time_history
        /\ i # found[t] => clients'[i] = clients[i]
        /\ i = found[t] => clients'[i].last_seen = now
    BY <1>1, <1>2, <1>3, <1>4 DEF ClientHistory
  <1> QED BY <1>1, <1>2, <1>5 DEF SlotKept, Registered

LEMMA PushKeeps ==
    ASSUME Inv, NEW t \in Threads, PutPush(t), NEW i \in Registered
    PROVE  SlotKept(i) /\ (i # found[t] => clients'[i] = clients[i])
  <1> USE DEF Inv, TypeInv
  <1>1. /\ client_count' = client_count
        /\ clients' = [clients EXCEPT ![found[t]] = Pushed(clients[found[t]], report[t], now)]
    BY DEF PutPush
  <1>2. i \in 1..client_count /\ i \in Slots /\ clients[i].history_count > 0
    BY SizesAssumption DEF Registered, TypeOK, Slots
  <1>3. /\ clients \in [Slots -> ClientHistory]
        /\ report[t] \in Serials /\ now \in Times
    BY DEF TypeOK
  <1>4. CASE i # found[t]
    BY <1>1, <1>2, <1>3, <1>4 DEF SlotKept, Registered
  <1>5. CASE i = found[t]
    <2>1. clients[i] \in ClientHistory /\ clients'[i] = Pushed(clients[i], report[t], now)
      BY <1>1, <1>2, <1>3, <1>5
    <2>2. clients'[i].history_count > 0 /\ clients'[i].client_id = clients[i].client_id
      BY <1>3, <2>1, PushedType, SizesAssumption DEF Positions
    <2> QED BY <1>1, <1>2, <1>5, <2>2 DEF SlotKept, Registered
  <1> QED BY <1>4, <1>5

(***************************************************************************)
(* The three steps above are the only ones that write to the table.        *)
(***************************************************************************)
LEMMA TableWriters ==
    ASSUME [Next]_vars
    PROVE  \/ UNCHANGED table
           \/ \E t \in Threads : PutFind(t) \/ PutStore(t) \/ PutPush(t)
  BY DEF Next, Receive, Serve, Tick, Accept, RecvNothing, RecvHeader, RecvBody, Close, Route,
         Lock, Unlock, Scan, ScanEnd, Check, Send, vars, table

LEMMA SlotsKept ==
    ASSUME Inv, [Next]_vars, NEW i \in Registered
    PROVE  SlotKept(i)
  <1>1. CASE UNCHANGED table
    BY <1>1 DEF SlotKept, Registered, table
  <1> QED BY <1>1, TableWriters, FindKeeps, StoreKeeps, PushKeeps

(***************************************************************************)
(* A client once stored keeps its slot for as long as the server runs,     *)
(* whatever reports and pages come in between: handle_client removes       *)
(* nothing and gives no slot out twice.                                    *)
(***************************************************************************)
THEOREM SlotsStableCorrect == Spec => SlotsAreStable
  <1>1. Inv /\ [Next]_vars
          => [\A i \in Registered :
                /\ i \in Registered'
                /\ clients'[i].client_id = clients[i].client_id]_vars
    BY SlotsKept DEF SlotKept
  <1> QED BY <1>1, InvCorrect, PTL DEF Spec, SlotsAreStable

-----------------------------------------------------------------------------
(* Reports that are turned away.                                           *)

Dropped(t) == pc[t] \in {"unlock", "send"} /\ task[t] = "put" /\ found[t] = 0

(***************************************************************************)
(* At the moment a report is turned away no slot is being filled, because  *)
(* its thread holds the mutex: every slot of the table is registered.      *)
(***************************************************************************)
FullOfOthers(t) ==
    /\ client_count = MAX_CLIENTS
    /\ \A i \in Slots : i \in Registered /\ clients[i].client_id # req[t].body

DroppedInv == \A t \in Threads : Dropped(t) => FullOfOthers(t)

LEMMA FullStaysFull ==
    ASSUME Inv, Inv', [Next]_vars, NEW t \in Threads, FullOfOthers(t), req'[t] = req[t]
    PROVE  FullOfOthers(t)'
  <1>1. MAX_CLIENTS \in Nat \ {0} /\ client_count' \in 0..MAX_CLIENTS
    BY SizesAssumption DEF Inv, TypeInv, TypeOK
  <1>2. ASSUME NEW i \in Slots
        PROVE  i \in Registered' /\ clients'[i].client_id # req'[t].body
    BY <1>2, SlotsKept DEF FullOfOthers, SlotKept
  <1>3. MAX_CLIENTS \in Slots
    BY <1>1 DEF Slots
  <1>4. MAX_CLIENTS \in 1..client_count'
    BY <1>2, <1>3 DEF Registered
  <1> QED BY <1>1, <1>2, <1>4 DEF FullOfOthers

(***************************************************************************)
(* The search that finds nothing is the only way to be turned away, and    *)
(* what it saw lasts until the answer was sent.                            *)
(***************************************************************************)
LEMMA NewlyDropped ==
    ASSUME Inv, [Next]_vars, NEW t \in Threads, Dropped(t)'
    PROVE  \/ Dropped(t) /\ req'[t] = req[t]
           \/ PutFind(t)
  <1> USE DEF Inv, TypeInv, Dropped
  <1>1. /\ pc \in [Threads -> Places] /\ found \in [Threads -> 0..MAX_CLIENTS]
        /\ task \in [Threads -> Sections \union {"put", "none"}]
        /\ req \in [Threads -> RequestType]
    BY DEF TypeOK
  <1>2. CASE Tick
    BY <1>2 DEF Tick, locals
  <1>3. ASSUME NEW u \in Threads, NEW r \in Requests, Accept(u, r)
        PROVE  Dropped(t) /\ req'[t] = req[t]
    BY <1>1, <1>3 DEF Accept, GoTo, locals
  <1>4. ASSUME NEW u \in Threads, RecvNothing(u) \/ Send(u)
        PROVE  Dropped(t) /\ req'[t] = req[t]
    BY <1>1, <1>4 DEF RecvNothing, Send, Close, GoTo
  <1>5. ASSUME NEW u \in Threads, RecvHeader(u) \/ RecvBody(u) \/ Route(u)
        PROVE  Dropped(t) /\ req'[t] = req[t]
    BY <1>1, <1>5 DEF RecvHeader, RecvBody, Route, GoTo, locals, ControlOK
  <1>6. ASSUME NEW u \in Threads, Lock(u) \/ Unlock(u)
        PROVE  Dropped(t) /\ req'[t] = req[t]
    BY <1>1, <1>6 DEF Lock, Unlock, GoTo
  <1>7. ASSUME NEW u \in Threads, PutFind(u), u # t
        PROVE  Dropped(t) /\ req'[t] = req[t]
    BY <1>1, <1>7 DEF PutFind, GoTo
  <1>8. ASSUME NEW u \in Threads, PutStore(u) \/ PutPush(u)
        PROVE  Dropped(t) /\ req'[t] = req[t]
    <2>1. pc[u] \in {"store", "push"} /\ found' = found /\ task' = task /\ req' = req
      BY <1>8 DEF PutStore, PutPush, locals
    <2>2. found[u] # 0
      BY <1>1, <2>1, SizesAssumption DEF ControlOK, TypeOK
    <2>3. t # u
      BY <2>1, <2>2
    <2>4. pc'[t] = pc[t]
      BY <1>1, <1>8, <2>3 DEF PutStore, PutPush, GoTo
    <2> QED BY <2>1, <2>4
  <1>9. ASSUME NEW u \in Threads, Scan(u) \/ ScanEnd(u) \/ Check(u)
        PROVE  Dropped(t) /\ req'[t] = req[t]
    BY <1>1, <1>9 DEF Scan, ScanEnd, Check, GoTo, locals, NextSection, ControlOK, Sections
  <1>10. CASE UNCHANGED vars
    BY <1>10 DEF vars, locals
  <1> QED
    BY <1>2, <1>3, <1>4, <1>5, <1>6, <1>7, <1>8, <1>9, <1>10 DEF Next, Receive, Serve

LEMMA FindDrops ==
    ASSUME Inv, NEW t \in Threads, PutFind(t), Dropped(t)'
    PROVE  FullOfOthers(t)'
  <1> USE DEF Inv, TypeInv
  <1>1. /\ pc[t] = "find" /\ req' = req /\ pc \in [Threads -> Places]
        /\ found \in [Threads -> 0..MAX_CLIENTS] /\ client_count \in 0..MAX_CLIENTS
        /\ clients \in [Slots -> ClientHistory]
    BY DEF PutFind, TypeOK
  <1>2. \A i \in InUse : clients[i].history_count # 0
    BY <1>1, OneInside DEF TableInv, SlotsOK, Critical
  <1>3. /\ \A i \in 1..client_count : clients[i].client_id # req[t].body
        /\ client_count = MAX_CLIENTS
        /\ UNCHANGED <<clients, client_count>>
    <2>1. TypeOK
      OBVIOUS
    <2>2. pc'[t] # "store"
      BY DEF Dropped
    <2> QED BY <1>1, <2>1, <2>2, PutFindCases
  <1>4. \A i \in Slots : i \in Registered
    BY <1>1, <1>2, <1>3, SizesAssumption DEF InUse, Slots, Registered, ClientHistory
  <1> QED BY <1>1, <1>3, <1>4 DEF FullOfOthers, Registered, Slots

(***************************************************************************)
(* A whole report is answered "ok" without being stored only when all the  *)
(* slots belong to other clients, and that is still so when the answer is  *)
(* sent, although the mutex was released before.                           *)
(***************************************************************************)
THEOREM DroppedCorrect == Spec => []DroppedOnlyWhenFull
  <1>1. Init => DroppedInv
    BY DEF Init, DroppedInv, Dropped
  <1>2. ASSUME Inv, Inv', DroppedInv, [Next]_vars
        PROVE  DroppedInv'
    <2> SUFFICES ASSUME NEW t \in Threads, Dropped(t)' PROVE FullOfOthers(t)'
      BY DEF DroppedInv
    <2>1. CASE Dropped(t) /\ req'[t] = req[t]
      BY <1>2, <2>1, FullStaysFull DEF DroppedInv
    <2>2. CASE PutFind(t)
      BY <1>2, <2>2, FindDrops
    <2> QED BY <1>2, <2>1, <2>2, NewlyDropped
  <1>3. DroppedInv => DroppedOnlyWhenFull
    BY DEF DroppedInv, Dropped, FullOfOthers, DroppedOnlyWhenFull
  <1> QED BY <1>1, <1>2, <1>3, InvCorrect, PTL DEF Spec

-----------------------------------------------------------------------------
(* Times.                                                                  *)

(***************************************************************************)
(* A history's times ascend and none of them, nor last_seen, lies in the   *)
(* future.                                                                 *)
(***************************************************************************)
Ascending(ch, clock) ==
    LET h == ch.history_count IN
      /\ ch.last_seen <= clock
      /\ \A k \in 1..h : ch.time_history[k] <= clock
      /\ \A k \in 1..(h - 1) : ch.time_history[k] <= ch.time_history[k + 1]

\* last_seen was set for a report whose values are still to be pushed.
SeenAfter(ch) ==
    LET h == ch.history_count IN h > 0 => ch.time_history[h] <= ch.last_seen

\* last_seen and the newest time belong to the same report.
SeenBetween(ch) ==
    LET h == ch.history_count IN
      h > 0 => /\ ch.last_seen <= ch.time_history[h]
               /\ h > 1 => ch.time_history[h - 1] <= ch.last_seen

TimesInv ==
    \A i \in Slots :
      /\ Ascending(clients[i], now)
      /\ Updating(i) => SeenAfter(clients[i])
      /\ ~ Updating(i) => SeenBetween(clients[i])

LEMMA PushedTimes ==
    ASSUME NEW ch \in ClientHistory, NEW v \in Serials, NEW tm \in Times,
           Ascending(ch, tm), SeenAfter(ch)
    PROVE  Ascending(Pushed(ch, v, tm), tm) /\ SeenBetween(Pushed(ch, v, tm))
  <1> DEFINE ph == Pushed(ch, v, tm)
             h == ch.history_count
             full == h >= HISTORY_SIZE
             count == IF full THEN h ELSE h + 1
  <1>1. /\ ph.history_count = count
        /\ \A k \in 1..count :
             ph.time_history[k] = IF k = count THEN tm
                                  ELSE ch.time_history[IF full THEN k + 1 ELSE k]
    BY PushedFields
  <1>2. ph.last_seen = ch.last_seen
    BY DEF Pushed, ClientHistory
  <1>3. /\ h \in Nat /\ count \in Nat /\ count > 0 /\ tm \in Nat
        /\ ch.last_seen \in Nat
        /\ \A k \in 1..h : ch.time_history[k] \in Nat
    BY SizesAssumption DEF ClientHistory, Positions, Times
  <1>4. /\ ch.last_seen <= tm
        /\ \A k \in 1..h : ch.time_history[k] <= tm
        /\ \A k \in 1..(h - 1) : ch.time_history[k] <= ch.time_history[k + 1]
        /\ h > 0 => ch.time_history[h] <= ch.last_seen
    BY DEF Ascending, SeenAfter
  <1>5. \A k \in 1..count : ph.time_history[k] <= tm
    BY <1>1, <1>3, <1>4
  <1>6. \A k \in 1..(count - 1) : ph.time_history[k] <= ph.time_history[k + 1]
    <2> SUFFICES ASSUME NEW k \in 1..(count - 1)
                 PROVE  ph.time_history[k] <= ph.time_history[k + 1]
      OBVIOUS
    <2> DEFINE j == IF full THEN k + 1 ELSE k
    <2>1. k \in 1..count /\ k + 1 \in 1..count /\ k # count /\ j \in 1..h
      BY <1>3
    <2>2. ph.time_history[k] = ch.time_history[j]
      BY <1>1, <2>1
    <2>3. CASE k + 1 = count
      <3>1. ph.time_history[k + 1] = tm
        BY <1>1, <2>1, <2>3
      <3> QED BY <1>4, <2>1, <2>2, <3>1
    <2>4. CASE k + 1 # count
      <3>1. ph.time_history[k + 1] = ch.time_history[j + 1]
        BY <1>1, <1>3, <2>1, <2>4
      <3>2. j \in 1..(h - 1)
        BY <1>3, <2>1, <2>4
      <3> QED BY <1>4, <2>2, <3>1, <3>2
    <2> QED BY <2>3, <2>4
  <1>7. ph.last_seen <= ph.time_history[count]
    BY <1>1, <1>2, <1>3, <1>4
  <1>8. count > 1 => ph.time_history[count - 1] <= ph.last_seen
    <2> SUFFICES ASSUME count > 1 PROVE ph.time_history[count - 1] <= ph.last_seen
      OBVIOUS
    <2>1. ph.time_history[count - 1] = ch.time_history[h] /\ h > 0
      BY <1>1, <1>3
    <2> QED BY <1>2, <1>4, <2>1
  <1> HIDE DEF ph
  <1>9. Ascending(ph, tm)
    BY <1>1, <1>2, <1>4, <1>5, <1>6 DEF Ascending
  <1>10. SeenBetween(ph)
    BY <1>1, <1>7, <1>8 DEF SeenBetween
  <1> QED BY <1>9, <1>10 DEF ph

(***************************************************************************)
(* A slot whose times do not change keeps their order when the clock goes  *)
(* on, as long as nobody starts or ends updating it.                       *)
(***************************************************************************)
LEMMA TimesFrame ==
    ASSUME Inv, TimesInv, NEW i \in Slots, clients'[i] = clients[i],
           now' \in Times, now <= now', Updating(i)' <=> Updating(i)
    PROVE  /\ Ascending(clients'[i], now')
           /\ Updating(i)' => SeenAfter(clients'[i])
           /\ ~ Updating(i)' => SeenBetween(clients'[i])
  <1>1. clients[i] \in ClientHistory /\ now \in Times
    BY DEF Inv, TypeInv, TypeOK
  <1>2. /\ clients[i].last_seen \in Nat /\ now \in Nat /\ now' \in Nat
        /\ \A k \in 1..clients[i].history_count : clients[i].time_history[k] \in Nat
    BY <1>1, SizesAssumption, SMTT(30) DEF ClientHistory, Positions, Times
  <1>3. Ascending(clients[i], now) => Ascending(clients[i], now')
    BY <1>2 DEF Ascending
  <1> QED BY <1>3 DEF TimesInv

LEMMA NowForward ==
    ASSUME TypeOK, [Next]_vars
    PROVE  now' \in Times /\ now <= now'
  <1>1. now \in Nat
    BY SizesAssumption DEF TypeOK, Times
  <1>2. CASE Tick
    BY <1>1, <1>2, SizesAssumption DEF Tick, Times
  <1>3. CASE now' = now
    BY <1>1, <1>3 DEF TypeOK
  <1> QED
    BY <1>2, <1>3, ZenonT(60) DEF Next, Receive, Serve, Accept, RecvNothing, RecvHeader, RecvBody, Close,
       Route, Lock, Unlock, PutFind, PutStore, PutPush, Scan, ScanEnd, Check, Send, vars

(***************************************************************************)
(* Only storing makes a slot one that is being updated, and only pushing   *)
(* ends it.                                                                *)
(***************************************************************************)
LEMMA UpdatingFrame ==
    ASSUME TypeInv, [Next]_vars, NEW i,
           \A t \in Threads : ~ PutStore(t) /\ ~ PutPush(t)
    PROVE  Updating(i)' <=> Updating(i)
  <1> USE DEF TypeInv
  <1> SUFFICES ASSUME NEW t \in Threads
               PROVE  (pc[t] = "push" /\ found[t] = i)' <=> (pc[t] = "push" /\ found[t] = i)
    BY DEF Updating
  <1>1. pc \in [Threads -> Places] /\ found \in [Threads -> 0..MAX_CLIENTS]
    BY DEF TypeOK
  <1>2. CASE Tick \/ UNCHANGED vars
    BY <1>2 DEF Tick, vars, locals
  <1>3. ASSUME NEW u \in Threads, NEW r \in Requests, Accept(u, r)
        PROVE  (pc[t] = "push" /\ found[t] = i)' <=> (pc[t] = "push" /\ found[t] = i)
    BY <1>1, <1>3 DEF Accept, GoTo, locals
  <1>4. ASSUME NEW u \in Threads, Receive(u) \/ Route(u) \/ Send(u) \/ Check(u)
        PROVE  (pc[t] = "push" /\ found[t] = i)' <=> (pc[t] = "push" /\ found[t] = i)
    BY <1>1, <1>4 DEF Receive, RecvNothing, RecvHeader, RecvBody, Route, Send, Check, Close,
       GoTo, locals
  <1>5. ASSUME NEW u \in Threads, Lock(u) \/ Unlock(u) \/ PutFind(u) \/ Scan(u) \/ ScanEnd(u)
        PROVE  (pc[t] = "push" /\ found[t] = i)' <=> (pc[t] = "push" /\ found[t] = i)
    BY <1>1, <1>5 DEF Lock, Unlock, PutFind, Scan, ScanEnd, GoTo, locals
  <1> QED BY <1>2, <1>3, <1>4, <1>5 DEF Next, Serve

LEMMA StoreTimes ==
    ASSUME Inv, TimesInv, [Next]_vars, NEW t \in Threads, PutStore(t)
    PROVE  TimesInv'
  <1> USE DEF Inv, TypeInv
  <1> DEFINE f == found[t]
  <1>1. /\ pc[t] = "store" /\ pc' = [pc EXCEPT ![t] = "push"]
        /\ pc \in [Threads -> Places] /\ found' = found /\ now' = now
        /\ clients \in [Slots -> ClientHistory] /\ now \in Times
        /\ f \in Slots
    BY SizesAssumption DEF PutStore, GoTo, locals, TypeOK, ControlOK, Slots
  <1>2. \A u \in Threads : u # t => pc[u] # "push"
    BY <1>1, OneInside DEF Critical
  <1>3. \A i \in Slots : (Updating(i)' <=> i = f) /\ ~ Updating(i)
    BY <1>1, <1>2 DEF Updating
  <1>4. ASSUME NEW i \in Slots, i # f
        PROVE  /\ Ascending(clients'[i], now')
               /\ Updating(i)' => SeenAfter(clients'[i])
               /\ ~ Updating(i)' => SeenBetween(clients'[i])
    <2>1. clients'[i] = clients[i]
      BY <1>1, <1>4 DEF PutStore
    <2> QED BY <1>1, <1>3, <1>4, <2>1, NowForward, TimesFrame
  <1>5. Ascending(clients'[f], now') /\ SeenAfter(clients'[f])
    <2>1. /\ clients'[f].last_seen = now
          /\ clients'[f].history_count = clients[f].history_count
          /\ clients'[f].time_history = clients[f].time_history
      BY <1>1 DEF PutStore, ClientHistory
    <2>2. Ascending(clients[f], now)
      BY <1>1 DEF TimesInv
    <2>3. now \in Nat /\ clients[f].history_count \in Nat
      BY <1>1, SizesAssumption DEF Times, ClientHistory
    <2> HIDE DEF f
    <2> QED BY <1>1, <2>1, <2>2, <2>3 DEF Ascending, SeenAfter
  <1> HIDE DEF f
  <1> QED BY <1>1, <1>3, <1>4, <1>5 DEF TimesInv

LEMMA PushTimes ==
    ASSUME Inv, TimesInv, [Next]_vars, NEW t \in Threads, PutPush(t)
    PROVE  TimesInv'
  <1> USE DEF Inv, TypeInv
  <1> DEFINE f == found[t]
  <1>1. /\ pc[t] = "push" /\ pc' = [pc EXCEPT ![t] = "unlock"]
        /\ pc \in [Threads -> Places] /\ found' = found /\ now' = now
        /\ clients \in [Slots -> ClientHistory] /\ now \in Times
        /\ report[t] \in Serials
        /\ f \in Slots
        /\ clients' = [clients EXCEPT ![f] = Pushed(clients[f], report[t], now)]
    BY SizesAssumption DEF PutPush, GoTo, locals, TypeOK, ControlOK, Slots
  <1>2. \A u \in Threads : u # t => pc[u] # "push"
    BY <1>1, OneInside DEF Critical
  <1>3. \A i \in Slots : ~ Updating(i)' /\ (Updating(i) <=> i = f)
    BY <1>1, <1>2 DEF Updating
  <1>4. ASSUME NEW i \in Slots, i # f
        PROVE  /\ Ascending(clients'[i], now')
               /\ Updating(i)' => SeenAfter(clients'[i])
               /\ ~ Updating(i)' => SeenBetween(clients'[i])
    BY <1>1, <1>3, <1>4, NowForward, TimesFrame
  <1>5. Ascending(clients'[f], now') /\ SeenBetween(clients'[f])
    <2>1. Ascending(clients[f], now) /\ SeenAfter(clients[f]) /\ clients[f] \in ClientHistory
      BY <1>1, <1>3 DEF TimesInv
    <2>2. clients'[f] = Pushed(clients[f], report[t], now)
      BY <1>1
    <2> HIDE DEF f
    <2> QED BY <1>1, <2>1, <2>2, PushedTimes
  <1> HIDE DEF f
  <1> QED BY <1>1, <1>3, <1>4, <1>5 DEF TimesInv

LEMMA FindTimes ==
    ASSUME Inv, TimesInv, [Next]_vars, NEW t \in Threads, PutFind(t)
    PROVE  TimesInv'
  <1> USE DEF Inv, TypeInv
  <1>1. TypeOK /\ clients \in [Slots -> ClientHistory] /\ now \in Times /\ now' = now
    BY DEF TypeOK, PutFind
  <1>2. \A u \in Threads : u # t => pc[u] \notin {"find", "store", "push"}
    BY OneInside DEF Critical, PutFind
  <1>3. pc[t] = "find"
    BY DEF PutFind
  <1>4. \A u \in Threads : ~ PutStore(u) /\ ~ PutPush(u)
    BY <1>2, <1>3 DEF PutStore, PutPush
  <1>5. \A i \in Slots : (Updating(i)' <=> Updating(i))
    BY <1>4, UpdatingFrame
  <1>6. ASSUME NEW i \in Slots, clients'[i] = clients[i]
        PROVE  /\ Ascending(clients'[i], now')
               /\ Updating(i)' => SeenAfter(clients'[i])
               /\ ~ Updating(i)' => SeenBetween(clients'[i])
    BY <1>1, <1>5, <1>6, NowForward, TimesFrame
  <1>7. ASSUME NEW i \in Slots, clients'[i] # clients[i]
        PROVE  /\ Ascending(clients'[i], now')
               /\ Updating(i)' => SeenAfter(clients'[i])
               /\ ~ Updating(i)' => SeenBetween(clients'[i])
    <2>1. clients' = [clients EXCEPT ![i].history_count = 0]
      BY <1>1, <1>7, PutFindCases
    <2>2. clients'[i].history_count = 0 /\ clients'[i].last_seen = clients[i].last_seen
      BY <1>1, <2>1 DEF ClientHistory
    <2>3. clients[i].last_seen <= now
      BY DEF TimesInv, Ascending
    <2>4. Ascending(clients'[i], now)
      BY <2>2, <2>3 DEF Ascending
    <2> QED BY <1>1, <2>2, <2>4 DEF SeenAfter, SeenBetween
  <1> QED BY <1>6, <1>7 DEF TimesInv

LEMMA NextTimes ==
    ASSUME Inv, TimesInv, [Next]_vars
    PROVE  TimesInv'
  <1> USE DEF Inv, TypeInv
  <1>1. CASE \E t \in Threads : PutFind(t) \/ PutStore(t) \/ PutPush(t)
    BY <1>1, FindTimes, StoreTimes, PushTimes
  <1>2. CASE ~ \E t \in Threads : PutFind(t) \/ PutStore(t) \/ PutPush(t)
    <2>1. clients' = clients
      BY <1>2, TableWriters DEF table
    <2>2. \A i \in Slots : Updating(i)' <=> Updating(i)
      BY <1>2, UpdatingFrame
    <2> QED BY <2>1, <2>2, NowForward, TimesFrame DEF TimesInv
  <1> QED BY <1>1, <1>2

LEMMA TimesInvCorrect == Spec => []TimesInv
  <1>1. Init => TimesInv
    BY SizesAssumption
    DEF Init, TimesInv, ZeroSlot, Ascending, SeenAfter, SeenBetween, Updating
  <1>2. Inv /\ TimesInv /\ [Next]_vars => TimesInv'
    BY NextTimes
  <1> QED BY <1>1, <1>2, InvCorrect, PTL DEF Spec

(***************************************************************************)
(* last_seen and the newest entry of time_history come from two calls of   *)
(* time(): wherever the clock ticks, a history's times ascend and          *)
(* last_seen lies between the last two of them.                            *)
(***************************************************************************)
THEOREM TimesCorrect == Spec => []TimesOrdered
  <1>1. Inv /\ TimesInv => TimesOrdered
    <2> SUFFICES ASSUME Inv, TimesInv, NEW i \in Registered
                 PROVE  LET ch == clients[i]
                            h == ch.history_count
                        IN  /\ \A k \in 1..(h - 1) : ch.time_history[k] <= ch.time_history[k + 1]
                            /\ ~ Updating(i) =>
                                 /\ ch.last_seen <= ch.time_history[h]
                                 /\ h > 1 => ch.time_history[h - 1] <= ch.last_seen
      BY DEF TimesOrdered
    <2>1. i \in Slots /\ clients[i].history_count > 0
      BY SizesAssumption DEF Registered, Slots, Inv, TypeInv, TypeOK
    <2> QED BY <2>1 DEF TimesInv, Ascending, SeenBetween
  <1> QED BY <1>1, InvCorrect, TimesInvCorrect, PTL

-----------------------------------------------------------------------------
(* A section is filled only in its own critical section.                   *)

(***************************************************************************)
(* The sections that generate_html has left behind, and those it has still *)
(* to write.                                                               *)
(***************************************************************************)
Passed(section) ==
    CASE section = "detail" -> {"side"}
      [] section = "script" -> {"side", "detail"}
      [] OTHER -> {}

Ahead(section) ==
    CASE section = "side" -> {"detail", "script"}
      [] section = "detail" -> {"script"}
      [] section \in {"script", "data"} -> {}
      [] OTHER -> Sections

Blank(t) == Ahead(task[t]) \union (IF pc[t] = "lock" THEN {task[t]} ELSE {})

(***************************************************************************)
(* But for the status a row does not depend on the clock.                  *)
(***************************************************************************)
Shown(section, ch, online) ==
    LET Series(a) == IF section \in {"script", "data"} THEN Held(ch, a) ELSE << >>
    IN  [id     |-> ch.client_id,
         online |-> online,
         latest |-> ch.latest,
         load   |-> Series(ch.load_history),
         mem    |-> Series(ch.mem_history),
         time   |-> Series(ch.time_history)]

(***************************************************************************)
(* The rows of a section agree with the table while the thread holds the   *)
(* mutex, and are no more than client_count, which can only grow, when     *)
(* that is read again outside.                                             *)
(***************************************************************************)
Scanning(t) == pc[t] = "scan" \/ (pc[t] = "unlock" /\ task[t] # "put")

Current(t) ==
    LET rows == page[t][task[t]] IN
      /\ Len(rows) = cursor[t] - 1
      /\ \A i \in 1..Len(rows) :
           \E online \in BOOLEAN : rows[i] = Shown(task[t], clients[i], online)

PageOK(t) ==
    /\ \A s \in Blank(t) \intersect Sections : page[t][s] = << >>
    /\ Scanning(t) => Current(t)
    /\ pc[t] = "check" \/ (pc[t] = "unlock" /\ task[t] # "put")
         => Len(page[t][task[t]]) <= client_count
    /\ \A s \in {"side", "detail"} :
         notice[t][s] => s \in Passed(task[t]) /\ page[t][s] = << >>

PageInv == \A t \in Threads : PageOK(t)

LEMMA InitPages == Init => PageInv
  BY DEF Init, PageInv, PageOK, Scanning, NoPage, NoNotice

LEMMA CountGrows ==
    ASSUME Inv, [Next]_vars
    PROVE  client_count' >= client_count
  <1>1. TypeOK /\ client_count \in Nat
    BY SizesAssumption DEF Inv, TypeInv, TypeOK
  <1>2. CASE UNCHANGED table
    BY <1>1, <1>2 DEF table
  <1>3. ASSUME NEW t \in Threads, PutFind(t)
        PROVE  client_count' >= client_count
    BY <1>1, <1>3, PutFindCases
  <1>4. ASSUME NEW t \in Threads, PutStore(t) \/ PutPush(t)
        PROVE  client_count' >= client_count
    BY <1>1, <1>4 DEF PutStore, PutPush
  <1> QED BY <1>2, <1>3, <1>4, TableWriters

(***************************************************************************)
(* What another thread does to the table does not matter: while a section  *)
(* is written nobody else has the mutex.                                   *)
(***************************************************************************)
LEMMA PageFrame ==
    ASSUME Inv, NEW t \in Threads, PageOK(t), client_count' \in Nat, client_count' >= client_count,
           pc'[t] = pc[t], task'[t] = task[t], cursor'[t] = cursor[t],
           page'[t] = page[t], notice'[t] = notice[t],
           Scanning(t) => clients' = clients
    PROVE  PageOK(t)'
  <1>1. client_count \in Nat /\ page[t] \in [Sections -> Seq(Row)]
    BY SizesAssumption DEF Inv, TypeInv, TypeOK
  <1>2. (\A s \in Blank(t) \intersect Sections : page[t][s] = << >>)'
    BY DEF PageOK, Blank
  <1>3. ASSUME Scanning(t)' PROVE Current(t)'
    BY <1>3 DEF PageOK, Scanning, Current
  <1>4. ASSUME (pc[t] = "check" \/ (pc[t] = "unlock" /\ task[t] # "put"))'
        PROVE  (Len(page[t][task[t]]) <= client_count)'
    <2>1. task[t] \in Sections
      BY <1>4 DEF Inv, TypeInv, ControlOK, TypeOK, Sections
    <2>2. Len(page[t][task[t]]) \in Nat
      BY <1>1, <2>1
    <2> QED BY <1>1, <1>4, <2>2 DEF PageOK
  <1>5. (\A s \in {"side", "detail"} :
           notice[t][s] => s \in Passed(task[t]) /\ page[t][s] = << >>)'
    BY DEF PageOK
  <1> QED BY <1>2, <1>3, <1>4, <1>5 DEF PageOK

(***************************************************************************)
(* The steps of a thread before it asks for the mutex, and its last one.   *)
(***************************************************************************)
LEMMA ReceivePages ==
    ASSUME Inv, NEW t \in Threads, PageOK(t),
           \/ \E r \in Requests : Accept(t, r)
           \/ Receive(t) \/ Route(t) \/ Send(t)
    PROVE  PageOK(t)'
  <1> USE DEF Inv, TypeInv, TypeOK
  <1>1. CASE \E r \in Requests : Accept(t, r)
    BY <1>1 DEF Accept, GoTo, PageOK, Blank, Scanning, locals
  <1>2. CASE Close(t)
    BY <1>2 DEF Close, GoTo, PageOK, Blank, Scanning, NoPage, NoNotice
  <1>3. CASE RecvHeader(t)
    BY <1>3 DEF RecvHeader, GoTo, PageOK, Blank, Scanning, locals
  <1>4. CASE RecvBody(t)
    BY <1>4 DEF RecvBody, GoTo, PageOK, Blank, Ahead, Passed, Scanning, ControlOK
  <1>5. CASE Route(t)
    BY <1>5 DEF Route, GoTo, PageOK, Blank, Ahead, Passed, Scanning, ControlOK
  <1> QED BY <1>1, <1>2, <1>3, <1>4, <1>5 DEF Receive, RecvNothing, Send

LEMMA PutPages ==
    ASSUME Inv, NEW t \in Threads, PageOK(t), PutFind(t) \/ PutStore(t) \/ PutPush(t)
    PROVE  PageOK(t)'
  BY DEF PutFind, PutStore, PutPush, GoTo, PageOK, Blank, Scanning, locals, ControlOK,
         Inv, TypeInv, TypeOK

LEMMA MutexPages ==
    ASSUME Inv, NEW t \in Threads, PageOK(t), Lock(t) \/ Unlock(t)
    PROVE  PageOK(t)'
  <1> USE DEF Inv, TypeInv, TypeOK
  <1>1. CASE Lock(t)
    <2>1. task'[t] = task[t] /\ page'[t] = page[t] /\ notice'[t] = notice[t]
      BY <1>1 DEF Lock
    <2>2. pc[t] = "lock" /\ cursor'[t] = 1 /\ pc'[t] \in {"find", "scan"}
      BY <1>1 DEF Lock, GoTo
    <2>3. pc'[t] = "scan" => task[t] \in Sections
      BY <1>1, <2>2 DEF Lock, GoTo, ControlOK
    <2>4. ASSUME pc'[t] = "scan" PROVE Current(t)'
      <3>1. page'[t][task'[t]] = << >>
        BY <2>1, <2>2, <2>3, <2>4 DEF PageOK, Blank
      <3> QED BY <2>2, <3>1 DEF Current
    <2> QED BY <2>1, <2>2, <2>4 DEF PageOK, Blank, Scanning
  <1>2. CASE Unlock(t)
    <2>1. /\ pc[t] = "unlock" /\ pc'[t] \in {"check", "send"}
          /\ pc'[t] = "check" => task[t] \in {"side", "detail"}
          /\ task'[t] = task[t] /\ page'[t] = page[t] /\ notice'[t] = notice[t]
          /\ client_count' = client_count
      BY <1>2 DEF Unlock, GoTo, table
    <2> QED BY <2>1 DEF PageOK, Blank, Scanning
  <1> QED BY <1>1, <1>2

LEMMA ScanPages ==
    ASSUME Inv, NEW t \in Threads, PageOK(t), Scan(t) \/ ScanEnd(t)
    PROVE  PageOK(t)'
  <1> USE DEF Inv, TypeInv
  <1>1. /\ pc[t] = "scan" /\ task[t] \in Sections
        /\ cursor[t] \in Nat /\ client_count \in Nat /\ cursor[t] <= client_count + 1
        /\ page[t] \in [Sections -> Seq(Row)]
        /\ page \in [Threads -> [Sections -> Seq(Row)]]
        /\ cursor \in [Threads -> 1..(MAX_CLIENTS + 1)]
        /\ pc \in [Threads -> Places]
    BY SizesAssumption DEF Scan, ScanEnd, ControlOK, TypeOK
  <1>2. Current(t)
    BY <1>1 DEF PageOK, Scanning
  <1>3. CASE Scan(t)
    <2> DEFINE rows == page[t][task[t]]
               row == RowOf(task[t], clients[cursor[t]])
    <2>1. /\ pc' = pc /\ task' = task /\ notice' = notice
          /\ clients' = clients
          /\ cursor'[t] = cursor[t] + 1
          /\ page'[t][task[t]] = Append(rows, row)
          /\ \A s \in Sections : s # task[t] => page'[t][s] = page[t][s]
      BY <1>1, <1>3 DEF Scan, table
    <2>2. row = Shown(task[t], clients[cursor[t]], IsOnline(clients[cursor[t]]))
      BY DEF RowOf, Shown
    <2>3. IsOnline(clients[cursor[t]]) \in BOOLEAN
      BY DEF IsOnline
    <2>4. Current(t)'
      <3>1. /\ rows \in Seq(Row) /\ Len(rows) = cursor[t] - 1
            /\ \A i \in 1..Len(rows) :
                 \E online \in BOOLEAN : rows[i] = Shown(task[t], clients[i], online)
        BY <1>1, <1>2 DEF Current
      <3> HIDE DEF rows, row
      <3>2. row \in Row
        <4>1. TypeOK /\ clients[cursor[t]] \in ClientHistory
          BY <1>1, <1>3, SizesAssumption DEF Scan, TypeOK, Slots
        <4> QED BY <1>1, <4>1, RowType DEF row
      <3>3. /\ Len(Append(rows, row)) = Len(rows) + 1
            /\ \A i \in 1..Len(rows) : Append(rows, row)[i] = rows[i]
            /\ Append(rows, row)[Len(rows) + 1] = row
        BY <3>1, <3>2
      <3>4. \A i \in 1..(Len(rows) + 1) :
              \E online \in BOOLEAN :
                Append(rows, row)[i] = Shown(task[t], clients[i], online)
        <4> SUFFICES ASSUME NEW i \in 1..(Len(rows) + 1)
                     PROVE  \E online \in BOOLEAN :
                              Append(rows, row)[i] = Shown(task[t], clients[i], online)
          OBVIOUS
        <4>1. CASE i = Len(rows) + 1
          BY <1>1, <2>2, <2>3, <3>1, <3>3, <4>1
        <4>2. CASE i # Len(rows) + 1
          BY <3>1, <3>3, <4>2
        <4> QED BY <4>1, <4>2
      <3>5. page'[t][task'[t]] = Append(rows, row)
        BY <2>1
      <3>6. cursor'[t] - 1 = Len(rows) + 1
        BY <1>1, <2>1, <3>1
      <3>7. \A i \in 1..(Len(rows) + 1) :
              \E online \in BOOLEAN :
                page'[t][task'[t]][i] = Shown(task'[t], clients'[i], online)
        BY <2>1, <3>4, <3>5
      <3> QED BY <3>3, <3>5, <3>6, <3>7 DEF Current
    <2>5. task[t] \notin Blank(t) /\ task[t] \notin Passed(task[t])
      BY <1>1 DEF Blank, Ahead, Passed, Sections
    <2> QED BY <1>1, <2>1, <2>4, <2>5 DEF PageOK, Blank, Scanning, Sections
  <1>4. CASE ScanEnd(t)
    <2>1. /\ pc'[t] = "unlock" /\ task' = task /\ notice' = notice /\ page' = page
          /\ clients' = clients /\ client_count' = client_count /\ cursor' = cursor
          /\ cursor[t] > client_count
      BY <1>1, <1>4 DEF ScanEnd, GoTo, locals, table
    <2>2. Current(t)'
      BY <1>2, <2>1 DEF Current
    <2>3. (Len(page[t][task[t]]) <= client_count)'
      BY <1>1, <1>2, <2>1 DEF Current
    <2> QED BY <1>1, <2>1, <2>2, <2>3 DEF PageOK, Blank, Scanning
  <1> QED BY <1>3, <1>4

(***************************************************************************)
(* The read of client_count between two sections: if it is 0, so was the   *)
(* number of rows.                                                         *)
(***************************************************************************)
LEMMA CheckPages ==
    ASSUME Inv, NEW t \in Threads, PageOK(t), Check(t)
    PROVE  PageOK(t)'
  <1> USE DEF Inv, TypeInv
  <1>1. /\ pc[t] = "check" /\ task[t] \in {"side", "detail"}
        /\ pc'[t] = "lock" /\ page' = page
        /\ task'[t] = NextSection(task[t])
        /\ notice'[t] = [notice[t] EXCEPT ![task[t]] = (client_count = 0)]
        /\ notice[t] \in [{"side", "detail"} -> BOOLEAN]
        /\ page[t] \in [Sections -> Seq(Row)] /\ client_count \in Nat
    BY SizesAssumption DEF Check, GoTo, ControlOK, TypeOK
  <1>2. client_count = 0 => page[t][task[t]] = << >>
    BY <1>1 DEF PageOK, Sections
  <1>3. ASSUME NEW s \in Blank(t)' \intersect Sections PROVE page'[t][s] = << >>
    BY <1>1, <1>3 DEF PageOK, Blank, Ahead, NextSection
  <1>4. ASSUME NEW s \in {"side", "detail"}, notice'[t][s]
        PROVE  s \in Passed(task'[t]) /\ page'[t][s] = << >>
    BY <1>1, <1>2, <1>4 DEF PageOK, Passed, NextSection
  <1> QED BY <1>1, <1>3, <1>4 DEF PageOK, Scanning

(***************************************************************************)
(* Other threads move neither a thread's sections nor its control.         *)
(***************************************************************************)
LEMMA OthersKeep ==
    ASSUME TypeInv, NEW u \in Threads, NEW t \in Threads, t # u,
           (\E r \in Requests : Accept(t, r)) \/ Receive(t) \/ Serve(t)
    PROVE  /\ pc'[u] = pc[u] /\ task'[u] = task[u] /\ cursor'[u] = cursor[u]
           /\ page'[u] = page[u] /\ notice'[u] = notice[u] /\ reply'[u] = reply[u]
  <1> USE DEF TypeInv, TypeOK, GoTo, locals
  <1>1. CASE \E r \in Requests : Accept(t, r)
    BY <1>1 DEF Accept
  <1>2. CASE Close(t)
    BY <1>2 DEF Close
  <1>3. CASE RecvHeader(t) \/ RecvBody(t)
    BY <1>3 DEF RecvHeader, RecvBody
  <1>4. CASE Route(t) \/ Lock(t) \/ Unlock(t)
    BY <1>4 DEF Route, Lock, Unlock
  <1>5. CASE PutFind(t) \/ PutStore(t) \/ PutPush(t)
    BY <1>5 DEF PutFind, PutStore, PutPush
  <1>6. CASE Scan(t) \/ ScanEnd(t) \/ Check(t)
    BY <1>6 DEF Scan, ScanEnd, Check
  <1> QED BY <1>1, <1>2, <1>3, <1>4, <1>5, <1>6 DEF Receive, RecvNothing, Serve, Send

LEMMA NextPages == Inv /\ Inv' /\ PageInv /\ [Next]_vars => PageInv'
  <1> SUFFICES ASSUME Inv, Inv', PageInv, [Next]_vars, NEW u \in Threads
               PROVE  PageOK(u)'
    BY DEF PageInv
  <1>1. PageOK(u) /\ client_count' \in Nat /\ client_count' >= client_count
    BY CountGrows, SizesAssumption DEF PageInv, Inv, TypeInv, TypeOK
  <1>2. CASE UNCHANGED vars
    BY <1>1, <1>2, PageFrame DEF vars, locals
  <1>3. CASE Tick
    BY <1>1, <1>3, PageFrame DEF Tick, locals, table
  <1>4. ASSUME NEW t \in Threads, t # u,
               (\E r \in Requests : Accept(t, r)) \/ Receive(t) \/ Serve(t)
        PROVE  PageOK(u)'
    <2>1. /\ pc'[u] = pc[u] /\ task'[u] = task[u] /\ cursor'[u] = cursor[u]
          /\ page'[u] = page[u] /\ notice'[u] = notice[u]
      BY <1>4, OthersKeep DEF Inv
    <2>2. Scanning(u) => clients' = clients
      <3>1. CASE PutFind(t) \/ PutStore(t) \/ PutPush(t)
        BY <1>4, <3>1 DEF Inv, MutualExclusion, Scanning, Critical, PutFind, PutStore, PutPush
      <3>2. CASE ~ (PutFind(t) \/ PutStore(t) \/ PutPush(t))
        BY <1>4, <3>2 DEF Accept, Receive, RecvNothing, RecvHeader, RecvBody,
           Serve, Lock, Unlock, Scan, ScanEnd, Check, Route, Send, Close, table
      <3> QED BY <3>1, <3>2
    <2> QED BY <1>1, <2>1, <2>2, PageFrame
  <1>5. CASE (\E r \in Requests : Accept(u, r)) \/ Receive(u) \/ Serve(u)
    BY <1>1, <1>5, ReceivePages, PutPages, MutexPages, ScanPages, CheckPages DEF Serve
  <1> QED BY <1>2, <1>3, <1>4, <1>5 DEF Next

LEMMA PagesCorrect == Spec => []PageInv
  <1>1. Init => PageInv
    BY InitPages
  <1> QED BY <1>1, NextPages, InvCorrect, PTL DEF Spec

-----------------------------------------------------------------------------
(* What it gives.                                                          *)

(***************************************************************************)
(* The rows that generate_html and generate_data_json have written while   *)
(* they hold the mutex agree with the table as it is, slot for slot: no    *)
(* report is stored under the loop.                                        *)
(***************************************************************************)
THEOREM ScanCorrect == Spec => []ScanIsCurrent
  <1>1. PageInv => ScanIsCurrent
    <2>1. \A section, ch, online :
            [RowOf(section, ch) EXCEPT !.online = online] = Shown(section, ch, online)
      BY DEF RowOf, Shown
    <2> QED BY <2>1 DEF PageInv, PageOK, Scanning, Current, ScanIsCurrent
  <1> QED BY <1>1, PagesCorrect, PTL

(***************************************************************************)
(* client_count is read outside the mutex, after the section it speaks of  *)
(* was written; still "No clients connected" never stands under a list     *)
(* with clients, because the table only grows.                             *)
(***************************************************************************)
THEOREM NoticeCorrect == Spec => []NoticeIsHonest
  <1>1. PageInv => NoticeIsHonest
    BY DEF PageInv, PageOK, NoticeIsHonest
  <1> QED BY <1>1, PagesCorrect, PTL

-----------------------------------------------------------------------------
(* The newest report of a slot.                                            *)

Newest(l) == l[Len(l)]

(***************************************************************************)
(* latest_info is that of the newest report stored, but between PutStore,  *)
(* which sets it, and PutPush, which stores that report's values.          *)
(***************************************************************************)
LatestOK ==
    /\ \A t \in Threads : pc[t] = "push" => clients[found[t]].latest = report[t]
    /\ \A i \in Registered :
         ~ Updating(i) => clients[i].latest = Newest(log[clients[i].client_id]).report

(***************************************************************************)
(* What a registered slot knows of its client's log.                       *)
(***************************************************************************)
LEMMA RegisteredLog ==
    ASSUME Inv, NEW i \in Registered
    PROVE  /\ i \in Slots /\ clients[i] \in ClientHistory
           /\ clients[i].client_id \in ClientIds
           /\ log[clients[i].client_id] \in Seq(Entry)
           /\ log[clients[i].client_id] # << >>
           /\ IsWindowOf(clients[i], log[clients[i].client_id])
  <1>1. i \in Slots /\ clients[i].history_count > 0 /\ TypeOK
    BY SizesAssumption DEF Registered, Slots, Inv, TypeInv, TypeOK
  <1>2. /\ clients[i].client_id \in ClientIds
        /\ IsWindowOf(clients[i], log[clients[i].client_id])
    BY DEF Inv, TableInv, TableIsWindows
  <1> DEFINE l == log[clients[i].client_id]
  <1>3. l \in Seq(Entry) /\ clients[i] \in ClientHistory
    BY <1>1, <1>2 DEF TypeOK
  <1>4. clients[i].history_count = IF Len(l) < HISTORY_SIZE THEN Len(l) ELSE HISTORY_SIZE
    BY <1>2 DEF IsWindowOf
  <1>5. l # << >>
    <2> SUFFICES ASSUME l = << >> PROVE FALSE
      OBVIOUS
    <2>1. Len(l) = 0
      OBVIOUS
    <2> QED BY <1>1, <1>4, <2>1, SizesAssumption
  <1> QED BY <1>1, <1>2, <1>3, <1>5

LEMMA FindLatest ==
    ASSUME Inv, LatestOK, [Next]_vars, NEW t \in Threads, PutFind(t)
    PROVE  LatestOK'
  <1> USE DEF Inv, TypeInv
  <1>1. /\ pc[t] = "find" /\ report' = report /\ TypeOK
        /\ pc \in [Threads -> Places] /\ found \in [Threads -> 0..MAX_CLIENTS]
        /\ clients \in [Slots -> ClientHistory]
    BY DEF PutFind, TypeOK
  <1>2. pc'[t] # "push" /\ log' = log
    BY <1>1, PutFindCases
  <1>3. \A u \in Threads : u # t => pc[u] # "push" /\ pc'[u] = pc[u]
    BY <1>1, OneInside DEF Critical, PutFind, GoTo
  <1>4. \A u \in Threads : pc'[u] # "push"
    BY <1>2, <1>3
  <1>5. \A i : ~ Updating(i)
    BY <1>1, <1>3 DEF Updating
  <1>6. ASSUME NEW i \in Registered'
        PROVE  i \in Registered /\ clients'[i] = clients[i]
    <2>1. CASE UNCHANGED <<clients, client_count>>
      BY <1>6, <2>1 DEF Registered
    <2>2. CASE /\ client_count + 1 \in Slots /\ client_count' = client_count + 1
               /\ clients' = [clients EXCEPT ![client_count + 1].history_count = 0]
      <3>1. clients'[client_count + 1].history_count = 0
        BY <1>1, <2>2 DEF ClientHistory
      <3>2. i \in 1..client_count' /\ clients'[i].history_count > 0 /\ client_count \in Nat
        BY <1>1, <1>6, SizesAssumption DEF Registered, TypeOK
      <3>3. i # client_count + 1
        BY <3>1, <3>2
      <3>4. i \in 1..client_count /\ i \in Slots
        BY <1>1, <2>2, <3>2, <3>3, SizesAssumption DEF Slots
      <3>5. clients'[i] = clients[i]
        BY <1>1, <2>2, <3>3, <3>4
      <3> QED BY <3>2, <3>4, <3>5 DEF Registered
    <2> QED BY <1>1, <2>1, <2>2, PutFindCases
  <1> QED BY <1>2, <1>4, <1>5, <1>6 DEF LatestOK

LEMMA StoreLatest ==
    ASSUME Inv, LatestOK, NEW t \in Threads, PutStore(t)
    PROVE  LatestOK'
  <1> USE DEF Inv, TypeInv
  <1> DEFINE f == found[t]
  <1>1. /\ pc[t] = "store" /\ pc' = [pc EXCEPT ![t] = "push"]
        /\ pc \in [Threads -> Places] /\ found' = found /\ report' = report /\ log' = log
        /\ client_count' = client_count /\ client_count \in 0..MAX_CLIENTS
        /\ clients \in [Slots -> ClientHistory] /\ f \in Slots /\ f \in 1..client_count
    <2>1. pc[t] = "store" /\ TypeOK
      BY DEF PutStore
    <2>2. f \in 1..client_count /\ client_count \in 0..MAX_CLIENTS
      BY <2>1 DEF ControlOK, TypeOK
    <2>3. f \in Slots
      BY <2>2, SizesAssumption DEF Slots
    <2> HIDE DEF f
    <2> QED BY <2>1, <2>2, <2>3 DEF PutStore, GoTo, locals, TypeOK
  <1>2. \A u \in Threads : pc'[u] = "push" <=> u = t
    BY <1>1, OneInside DEF Critical
  <1>3. \A u \in Threads : pc[u] # "push"
    BY <1>1, OneInside DEF Critical
  <1>4. clients'[f].latest = report[t] /\ \A i \in Slots : i # f => clients'[i] = clients[i]
    BY <1>1 DEF PutStore, ClientHistory
  <1>5. ASSUME NEW i \in Registered', ~ Updating(i)'
        PROVE  clients'[i].latest = Newest(log'[clients'[i].client_id]).report
    <2>1. i # f
      BY <1>1, <1>2, <1>5 DEF Updating
    <2>2. i \in Slots /\ clients'[i] = clients[i] /\ i \in Registered
      BY <1>1, <1>4, <1>5, <2>1, SizesAssumption DEF Registered, Slots
    <2>3. ~ Updating(i)
      BY <1>3 DEF Updating
    <2> QED BY <1>1, <2>2, <2>3 DEF LatestOK
  <1> HIDE DEF f
  <1> QED BY <1>1, <1>2, <1>4, <1>5 DEF LatestOK, f

LEMMA PushLatest ==
    ASSUME Inv, LatestOK, NEW t \in Threads, PutPush(t)
    PROVE  LatestOK'
  <1> USE DEF Inv, TypeInv
  <1> DEFINE f == found[t]
             c == req[t].body
             e == [report |-> report[t], time |-> now]
  <1>1. /\ pc[t] = "push" /\ pc' = [pc EXCEPT ![t] = "unlock"]
        /\ pc \in [Threads -> Places] /\ client_count' = client_count
        /\ client_count \in 0..MAX_CLIENTS
        /\ clients \in [Slots -> ClientHistory] /\ f \in Slots /\ f \in 1..client_count
        /\ c \in ClientIds /\ log \in [ClientIds -> Seq(Entry)] /\ e \in Entry
        /\ report[t] \in Serials /\ now \in Times
        /\ log' = [log EXCEPT ![c] = Append(log[c], e)]
        /\ clients' = [clients EXCEPT ![f] = Pushed(clients[f], report[t], now)]
    <2>1. pc[t] = "push" /\ TypeOK
      BY DEF PutPush
    <2>2. f \in 1..client_count /\ client_count \in 0..MAX_CLIENTS /\ c \in ClientIds
      BY <2>1 DEF ControlOK, TypeOK
    <2>3. f \in Slots
      BY <2>2, SizesAssumption DEF Slots
    <2>4. /\ clients' = [clients EXCEPT ![f] = Pushed(clients[f], report[t], now)]
          /\ log' = [log EXCEPT ![c] = Append(log[c], e)]
          /\ pc' = [pc EXCEPT ![t] = "unlock"] /\ client_count' = client_count
      BY DEF PutPush, GoTo
    <2>5. e \in Entry
      BY <2>1 DEF TypeOK, Entry
    <2> HIDE DEF f, c, e
    <2> QED BY <2>1, <2>2, <2>3, <2>4, <2>5 DEF TypeOK
  <1>2. \A u \in Threads : pc'[u] # "push" /\ (pc[u] = "push" => u = t)
    BY <1>1, OneInside DEF Critical
  <1>3. clients[f].latest = report[t] /\ clients[f].client_id = c
    BY <1>1 DEF LatestOK, TableInv, SearchOK
  <1>4. clients'[f].latest = report[t] /\ clients'[f].client_id = c
    <2>1. clients[f] \in ClientHistory
      BY <1>1
    <2>2. Pushed(clients[f], report[t], now).latest = clients[f].latest
      BY <2>1 DEF Pushed, ClientHistory
    <2> HIDE DEF f, c
    <2> QED BY <1>1, <1>3, <2>1, <2>2, PushedType
  <1>5. log'[c] # << >> /\ Newest(log'[c]) = e
    <2>1. log[c] \in Seq(Entry) /\ log'[c] = Append(log[c], e)
      BY <1>1
    <2> HIDE DEF e, c
    <2> QED BY <1>1, <2>1, AppendProperties DEF Newest
  <1>6. ASSUME NEW i \in Registered'
        PROVE  clients'[i].latest = Newest(log'[clients'[i].client_id]).report
    <2>1. CASE i = f
      BY <1>4, <1>5, <2>1
    <2>2. CASE i # f
      <3>1. i \in Slots /\ clients'[i] = clients[i] /\ i \in Registered
        BY <1>1, <1>6, <2>2, SizesAssumption DEF Registered, Slots
      <3>2. ~ Updating(i)
        BY <1>2, <2>2 DEF Updating
      <3>3. i \in InUse /\ f \in InUse /\ \A j \in InUse : ~ Filling(j)
        BY <1>1, <3>1, OneInside DEF Registered, InUse, Filling, Critical
      <3>4. clients[i].client_id # c
        BY <1>3, <2>2, <3>3 DEF TableInv, SlotsOK
      <3>5. clients[i].client_id \in ClientIds
        BY <3>1, RegisteredLog
      <3>6. log'[clients[i].client_id] = log[clients[i].client_id]
        BY <1>1, <3>4, <3>5
      <3> QED BY <3>1, <3>2, <3>6 DEF LatestOK
    <2> QED BY <2>1, <2>2
  <1> QED BY <1>2, <1>6 DEF LatestOK

(***************************************************************************)
(* No other step comes to the place of a push, or touches what is pushed.  *)
(***************************************************************************)
LEMMA PushPlace ==
    ASSUME TypeInv, [Next]_vars, NEW t \in Threads, pc'[t] = "push",
           \A u \in Threads : ~ PutStore(u) /\ ~ PutPush(u)
    PROVE  pc[t] = "push" /\ found'[t] = found[t] /\ report'[t] = report[t]
  <1> USE DEF TypeInv, TypeOK, GoTo
  <1>1. CASE Tick \/ UNCHANGED vars
    BY <1>1 DEF Tick, vars, locals
  <1>2. ASSUME NEW u \in Threads, NEW r \in Requests, Accept(u, r)
        PROVE  pc[t] = "push" /\ found'[t] = found[t] /\ report'[t] = report[t]
    BY <1>2 DEF Accept, locals
  <1>3. ASSUME NEW u \in Threads, Receive(u) \/ Route(u) \/ Send(u) \/ Check(u)
        PROVE  pc[t] = "push" /\ found'[t] = found[t] /\ report'[t] = report[t]
    BY <1>3 DEF Receive, RecvNothing, RecvHeader, RecvBody, Route, Send, Check, Close, locals
  <1>4. ASSUME NEW u \in Threads, Lock(u) \/ Unlock(u) \/ PutFind(u) \/ Scan(u) \/ ScanEnd(u)
        PROVE  pc[t] = "push" /\ found'[t] = found[t] /\ report'[t] = report[t]
    BY <1>4 DEF Lock, Unlock, PutFind, Scan, ScanEnd, locals
  <1> QED BY <1>1, <1>2, <1>3, <1>4 DEF Next, Serve

LEMMA NextLatest == Inv /\ LatestOK /\ [Next]_vars => LatestOK'
  <1> SUFFICES ASSUME Inv, LatestOK, [Next]_vars PROVE LatestOK'
    OBVIOUS
  <1>1. CASE \E t \in Threads : PutFind(t) \/ PutStore(t) \/ PutPush(t)
    BY <1>1, FindLatest, StoreLatest, PushLatest
  <1>2. CASE ~ \E t \in Threads : PutFind(t) \/ PutStore(t) \/ PutPush(t)
    <2>1. clients' = clients /\ log' = log /\ client_count' = client_count
      BY <1>2, TableWriters DEF table
    <2>2. \A i : Updating(i)' <=> Updating(i)
      BY <1>2, UpdatingFrame DEF Inv
    <2>3. \A t \in Threads : pc'[t] = "push" =>
            pc[t] = "push" /\ found'[t] = found[t] /\ report'[t] = report[t]
      BY <1>2, PushPlace DEF Inv
    <2> QED BY <2>1, <2>2, <2>3 DEF LatestOK, Registered
  <1> QED BY <1>1, <1>2

LEMMA LatestCorrect == Spec => []LatestOK
  <1>1. Init => LatestOK
    BY DEF Init, LatestOK, Registered
  <1> QED BY <1>1, NextLatest, InvCorrect, PTL DEF Spec

(***************************************************************************)
(* While a thread scans every slot in use is registered, and none is being *)
(* updated.                                                                *)
(***************************************************************************)
LEMMA AllRegistered ==
    ASSUME Inv, NEW t \in Threads, pc[t] = "scan"
    PROVE  \A i \in 1..client_count : i \in Registered /\ ~ Updating(i)
  <1> USE DEF Inv, TypeInv
  <1>1. \A u \in Threads : pc[u] \notin {"store", "push"}
    BY OneInside DEF Critical
  <1>2. ASSUME NEW i \in 1..client_count
        PROVE  clients[i].history_count \in Nat
    BY SizesAssumption DEF TypeOK, Slots, ClientHistory
  <1> QED BY <1>1, <1>2 DEF TableInv, SlotsOK, InUse, Registered, Updating

-----------------------------------------------------------------------------
(* Later sections know no less.                                            *)

(***************************************************************************)
(* The body that a thread has not stored yet.                              *)
(***************************************************************************)
Pending(t) ==
    /\ req[t].body \in ClientIds
    /\ \/ pc[t] \in {"recv", "body"}
       \/ task[t] = "put" /\ pc[t] \in {"lock", "find", "store", "push"}

(***************************************************************************)
(* No report is stored twice: its number is in the hands of one thread,    *)
(* and is in no log before that thread pushes it.                          *)
(***************************************************************************)
FreshOK ==
    /\ \A t \in Threads :
         /\ report[t] <= sent
         /\ \A u \in Threads \ {t} : report[t] = report[u] => report[t] = 0
         /\ Pending(t) =>
              /\ report[t] > 0
              /\ \A c \in ClientIds : \A k \in DOMAIN log[c] : log[c][k].report # report[t]
    /\ \A c \in ClientIds : \A k \in DOMAIN log[c] :
         /\ log[c][k].report <= sent
         /\ \A j \in DOMAIN log[c] : log[c][j].report = log[c][k].report => j = k

(***************************************************************************)
(* Place, as a function of the log.                                        *)
(***************************************************************************)
PlaceIn(l, n) == CHOOSE k \in DOMAIN l : l[k].report = n

(***************************************************************************)
(* Every row of every section is that of a client with a slot, which is    *)
(* still its own, and shows a report that was stored for it.               *)
(***************************************************************************)
IsStored(c, n) == \E k \in DOMAIN log[c] : log[c][k].report = n

RowsKnown(t) ==
    \A s \in Sections : \A i \in 1..Len(page[t][s]) :
      /\ i \in Registered
      /\ page[t][s][i].id = clients[i].client_id
      /\ IsStored(clients[i].client_id, page[t][s][i].latest)

(***************************************************************************)
(* A section and the one after it.                                         *)
(***************************************************************************)
Successive == {<<"side", "detail">>, <<"detail", "script">>}

RowsAscend(t) ==
    \A p \in Successive :
      LET early == page[t][p[1]]
          late == page[t][p[2]]
      IN  \A i \in 1..Len(early) :
            i \in 1..Len(late) =>
              PlaceIn(log[early[i].id], early[i].latest)
                <= PlaceIn(log[late[i].id], late[i].latest)

(***************************************************************************)
(* The sections that are complete; client_count, at which their loops      *)
(* ended, only grows.                                                      *)
(***************************************************************************)
Complete(t) ==
    Passed(task[t]) \union (IF pc[t] \in {"unlock", "check", "send"} THEN {task[t]} ELSE {})

LengthsAscend(t) ==
    /\ \A s \in Complete(t) \intersect Sections : Len(page[t][s]) <= client_count
    /\ \A p \in Successive :
         {p[1], p[2]} \subseteq Complete(t) => Len(page[t][p[1]]) <= Len(page[t][p[2]])
    /\ pc[t] = "send" /\ reply[t] = "page" => task[t] = "script"

ForwardInv ==
    /\ FreshOK
    /\ \A t \in Threads : RowsKnown(t) /\ RowsAscend(t) /\ LengthsAscend(t)

LEMMA InitForward == Init => ForwardInv
  <1> SUFFICES ASSUME Init PROVE ForwardInv
    OBVIOUS
  <1>1. FreshOK
    BY DEF Init, FreshOK, Pending, NoRequest
  <1>2. ASSUME NEW t \in Threads
        PROVE  RowsKnown(t) /\ RowsAscend(t) /\ LengthsAscend(t)
    <2>1. \A s \in Sections : page[t][s] = << >>
      BY DEF Init, NoPage
    <2>2. task[t] = "none" /\ pc[t] = "idle"
      BY DEF Init
    <2> QED BY <2>1, <2>2 DEF RowsKnown, RowsAscend, LengthsAscend, Successive, Sections,
               Complete, Passed
  <1> QED BY <1>1, <1>2 DEF ForwardInv

(***************************************************************************)
(* The place of a report that no other has the number of, and that it      *)
(* stays while the log is appended to.                                     *)
(***************************************************************************)
LEMMA PlaceOf ==
    ASSUME NEW l, NEW k \in DOMAIN l,
           \A j \in DOMAIN l : l[j].report = l[k].report => j = k
    PROVE  PlaceIn(l, l[k].report) = k
  BY DEF PlaceIn

LEMMA PlaceKept ==
    ASSUME NEW l, NEW m, DOMAIN l \subseteq DOMAIN m, \A k \in DOMAIN l : m[k] = l[k],
           \A k, j \in DOMAIN m : m[j].report = m[k].report => j = k,
           NEW n, \E k \in DOMAIN l : l[k].report = n
    PROVE  PlaceIn(m, n) = PlaceIn(l, n) /\ PlaceIn(l, n) \in DOMAIN l
  <1>1. PICK k \in DOMAIN l : l[k].report = n
    OBVIOUS
  <1>2. k \in DOMAIN m /\ m[k].report = n
    BY <1>1
  <1>3. \A j \in DOMAIN l : l[j].report = l[k].report => j = k
    BY <1>1, <1>2
  <1>4. PlaceIn(l, l[k].report) = k
    BY <1>3, PlaceOf
  <1>5. PlaceIn(m, m[k].report) = k
    BY <1>2, PlaceOf
  <1> QED BY <1>1, <1>2, <1>4, <1>5

LEMMA LogGrows ==
    ASSUME Inv, [Next]_vars, NEW c \in ClientIds
    PROVE  /\ DOMAIN log[c] \subseteq DOMAIN log'[c]
           /\ \A k \in DOMAIN log[c] : log'[c][k] = log[c][k]
  <1> USE DEF Inv, TypeInv
  <1>1. log \in [ClientIds -> Seq(Entry)]
    BY DEF TypeOK
  <1>2. CASE log' = log
    BY <1>2
  <1>3. ASSUME NEW t \in Threads, PutPush(t)
        PROVE  /\ DOMAIN log[c] \subseteq DOMAIN log'[c]
               /\ \A k \in DOMAIN log[c] : log'[c][k] = log[c][k]
    <2> DEFINE e == [report |-> report[t], time |-> now]
    <2>1. e \in Entry
      BY DEF TypeOK, Entry
    <2>2. log'[c] = log[c] \/ log'[c] = Append(log[c], e)
      BY <1>1, <1>3 DEF PutPush
    <2>3. log[c] \in Seq(Entry)
      BY <1>1
    <2> HIDE DEF e
    <2>4. \A k \in 1..Len(log[c]) : Append(log[c], e)[k] = log[c][k]
      BY <2>1, <2>3
    <2>5. DOMAIN Append(log[c], e) = 1..Len(log[c]) + 1 /\ DOMAIN log[c] = 1..Len(log[c])
      BY <2>1, <2>3
    <2> QED BY <2>2, <2>3, <2>4, <2>5
  <1>4. ASSUME NEW t \in Threads, PutFind(t) \/ PutStore(t)
        PROVE  log' = log
    BY <1>4, PutFindCases DEF PutStore
  <1> QED BY <1>2, <1>3, <1>4, TableWriters DEF table

-----------------------------------------------------------------------------
(* The numbers of reports.                                                 *)

(***************************************************************************)
(* A step that hands out no number and stores nothing.                     *)
(***************************************************************************)
LEMMA FreshFrame ==
    ASSUME TypeInv, FreshOK, log' = log, sent' = sent,
           \A u \in Threads :
             \/ report'[u] = report[u] /\ (Pending(u)' => Pending(u))
             \/ report'[u] = 0 /\ ~ Pending(u)'
    PROVE  FreshOK'
  <1>1. \A u \in Threads : report[u] \in Nat /\ sent \in Nat
    BY SizesAssumption DEF TypeInv, TypeOK, Serials
  <1> QED BY <1>1 DEF FreshOK

LEMMA AcceptFresh ==
    ASSUME TypeInv, FreshOK, NEW t \in Threads, NEW r \in Requests, Accept(t, r)
    PROVE  FreshOK'
  <1>1. /\ sent \in Nat /\ \A u \in Threads : report[u] \in Nat
        /\ \A c \in ClientIds : \A k \in DOMAIN log[c] : log[c][k].report \in Nat
    <2>1. ASSUME NEW c \in ClientIds, NEW k \in DOMAIN log[c]
          PROVE  log[c][k].report \in Nat
      <3>1. log[c] \in Seq(Entry)
        BY DEF TypeInv, TypeOK
      <3>2. log[c][k] \in Entry
        BY <3>1
      <3> QED BY <3>2, SizesAssumption DEF Entry, Serials
    <2> QED BY <2>1, SizesAssumption DEF TypeInv, TypeOK, Serials
  <1>2. /\ log' = log /\ task' = task
        /\ \A u \in Threads \ {t} :
             report'[u] = report[u] /\ req'[u] = req[u] /\ pc'[u] = pc[u]
        /\ \A u \in Threads \ {t} : Pending(u)' <=> Pending(u)
        /\ req'[t] = r
    BY DEF Accept, GoTo, locals, table, TypeInv, TypeOK, Pending
  <1>3. CASE r.body \in ClientIds
    <2>1. sent' = sent + 1 /\ report'[t] = sent + 1
      BY <1>3 DEF Accept, TypeInv, TypeOK
    <2> QED BY <1>1, <1>2, <2>1 DEF FreshOK
  <1>4. CASE r.body \notin ClientIds
    <2>1. sent' = sent /\ report'[t] = 0 /\ ~ Pending(t)'
      BY <1>2, <1>4 DEF Accept, TypeInv, TypeOK, Pending
    <2> QED BY <1>2, <2>1, FreshFrame
  <1> QED BY <1>3, <1>4

LEMMA PushFresh ==
    ASSUME Inv, FreshOK, NEW t \in Threads, PutPush(t)
    PROVE  FreshOK'
  <1> USE DEF Inv, TypeInv
  <1> DEFINE c == req[t].body
             e == [report |-> report[t], time |-> now]
  <1>1. /\ pc[t] = "push" /\ task[t] = "put" /\ c \in ClientIds
        /\ log[c] \in Seq(Entry) /\ e \in Entry
        /\ log' = [log EXCEPT ![c] = Append(log[c], e)]
        /\ log \in [ClientIds -> Seq(Entry)]
        /\ sent' = sent /\ report' = report
    BY DEF PutPush, ControlOK, TypeOK, Entry
  <1>2. Pending(t) /\ ~ Pending(t)'
    BY <1>1 DEF Pending, PutPush, GoTo, TypeOK, locals
  <1>3. \A u \in Threads \ {t} : Pending(u)' => Pending(u)
    BY <1>1 DEF Pending, PutPush, GoTo, TypeOK, locals
  <1>4. \A d \in ClientIds : d # c => log'[d] = log[d]
    BY <1>1
  <1>5. /\ log'[c] = Append(log[c], e) /\ e.report = report[t]
        /\ DOMAIN log'[c] = 1..(Len(log[c]) + 1) /\ DOMAIN log[c] = 1..Len(log[c])
        /\ log'[c][Len(log[c]) + 1] = e
        /\ \A k \in 1..Len(log[c]) : log'[c][k] = log[c][k]
        /\ Len(log[c]) \in Nat
    <2>1. log'[c] = Append(log[c], e) /\ e.report = report[t]
      BY <1>1
    <2> HIDE DEF c, e
    <2> QED BY <1>1, <2>1
  <1> HIDE DEF c, e
  <1>6. ASSUME NEW d \in ClientIds, NEW k \in DOMAIN log'[d]
        PROVE  \/ k \in DOMAIN log[d] /\ log'[d][k] = log[d][k]
               \/ d = c /\ k = Len(log[c]) + 1 /\ log'[d][k].report = report[t]
    <2>1. CASE d = c
      BY <1>5, <1>6, <2>1
    <2>2. CASE d # c
      BY <1>4, <1>6, <2>2
    <2> QED BY <2>1, <2>2
  <1>7. \A d \in ClientIds : \A k \in DOMAIN log[d] : log[d][k].report # report[t]
    BY <1>2 DEF FreshOK
  <1>8. report[t] > 0 /\ report[t] <= sent
    BY <1>2 DEF FreshOK
  <1>9. ASSUME NEW u \in Threads, Pending(u)', NEW d \in ClientIds, NEW k \in DOMAIN log'[d]
        PROVE  log'[d][k].report # report[u]
    <2>1. u # t /\ Pending(u)
      BY <1>2, <1>3, <1>9
    <2>2. report[u] # report[t]
      BY <1>8, <2>1 DEF FreshOK, TypeOK
    <2> QED BY <1>6, <2>1, <2>2 DEF FreshOK
  <1>10. ASSUME NEW d \in ClientIds, NEW k \in DOMAIN log'[d]
         PROVE  /\ log'[d][k].report <= sent
                /\ \A j \in DOMAIN log'[d] : log'[d][j].report = log'[d][k].report => j = k
    BY <1>6, <1>7, <1>8 DEF FreshOK
  <1>11. \A u \in Threads : Pending(u)' => report[u] > 0
    BY <1>2, <1>3 DEF FreshOK
  <1> QED BY <1>1, <1>9, <1>10, <1>11 DEF FreshOK

LEMMA NextFresh == Inv /\ FreshOK /\ [Next]_vars => FreshOK'
  <1> SUFFICES ASSUME Inv, FreshOK, [Next]_vars PROVE FreshOK'
    OBVIOUS
  <1> USE DEF Inv, TypeInv
  <1>1. CASE UNCHANGED vars \/ Tick
    BY <1>1, FreshFrame DEF vars, Tick, Pending, table, locals
  <1>2. CASE \E t \in Threads, r \in Requests : Accept(t, r)
    BY <1>2, AcceptFresh
  <1>3. CASE \E t \in Threads : PutPush(t)
    BY <1>3, PushFresh
  <1>4. ASSUME NEW t \in Threads, Close(t)
        PROVE  FreshOK'
    BY <1>4, NamesAssumption, FreshFrame
       DEF Close, GoTo, TypeOK, Pending, table, NoRequest
  <1>5. ASSUME NEW t \in Threads, RecvHeader(t) \/ RecvBody(t) \/ Route(t) \/ Lock(t) \/ Unlock(t)
        PROVE  FreshOK'
    <2>1. log' = log /\ sent' = sent /\ report' = report /\ req' = req
      BY <1>5 DEF RecvHeader, RecvBody, Route, Lock, Unlock, table
    <2>2. \A u \in Threads : Pending(u)' => Pending(u)
      BY <1>5, <2>1
         DEF RecvHeader, RecvBody, Route, Lock, Unlock, GoTo, TypeOK, Pending, locals
    <2> QED BY <2>1, <2>2, FreshFrame
  <1>6. ASSUME NEW t \in Threads, PutFind(t) \/ PutStore(t) \/ Scan(t) \/ ScanEnd(t) \/ Check(t)
        PROVE  FreshOK'
    <2>1. log' = log
      BY <1>6, PutFindCases DEF PutStore, Scan, ScanEnd, Check, table
    <2>2. sent' = sent /\ report' = report /\ req' = req
      BY <1>6 DEF PutFind, PutStore, Scan, ScanEnd, Check, locals
    <2>3. \A u \in Threads : Pending(u)' => Pending(u)
      BY <1>6, <2>2
         DEF PutFind, PutStore, Scan, ScanEnd, Check, GoTo, TypeOK, Pending, locals,
             ControlOK, NextSection
    <2> QED BY <2>1, <2>2, <2>3, FreshFrame
  <1> QED BY <1>1, <1>2, <1>3, <1>4, <1>5, <1>6
      DEF Next, Receive, Serve, RecvNothing, Send

-----------------------------------------------------------------------------
(* The sections of one thread, step by step.                               *)

LEMMA PageSteps ==
    ASSUME TypeInv, [Next]_vars, NEW u \in Threads
    PROVE  page'[u] = page[u] \/ page'[u] = NoPage \/ Scan(u)
  <1> USE DEF TypeInv, TypeOK
  <1>1. CASE UNCHANGED vars \/ Tick
    BY <1>1 DEF vars, Tick, locals
  <1>2. ASSUME NEW t \in Threads, Close(t)
        PROVE  page'[u] = page[u] \/ page'[u] = NoPage
    BY <1>2 DEF Close
  <1>3. ASSUME NEW t \in Threads, Scan(t), t # u
        PROVE  page'[u] = page[u]
    BY <1>3 DEF Scan
  <1>4. ASSUME NEW t \in Threads,
               \/ \E r \in Requests : Accept(t, r)
               \/ RecvHeader(t) \/ RecvBody(t) \/ Route(t) \/ Lock(t) \/ Unlock(t)
        PROVE  page'[u] = page[u]
    BY <1>4 DEF Accept, RecvHeader, RecvBody, Route, Lock, Unlock, locals
  <1>5. ASSUME NEW t \in Threads,
               PutFind(t) \/ PutStore(t) \/ PutPush(t) \/ ScanEnd(t) \/ Check(t)
        PROVE  page'[u] = page[u]
    BY <1>5, SMTT(30) DEF PutFind, PutStore, PutPush, ScanEnd, Check, locals
  <1> QED BY <1>1, <1>2, <1>3, <1>4, <1>5 DEF Next, Receive, Serve, RecvNothing, Send

(***************************************************************************)
(* What a scan appends: the row of a registered slot with the newest       *)
(* report of its log.                                                      *)
(***************************************************************************)
LEMMA ScannedRow ==
    ASSUME Inv, LatestOK, NEW t \in Threads, PageOK(t), Scan(t)
    PROVE  LET s == task[t]
               rows == page[t][s]
               i == Len(rows) + 1
               c == clients[i].client_id
               late == page'[t][s]
           IN  /\ s \in Sections /\ Len(rows) \in Nat
               /\ Len(late) = i /\ late[i].id = c /\ \A j \in 1..Len(rows) : late[j] = rows[j]
               /\ \A z \in Sections : z # s => page'[t][z] = page[t][z]
               /\ i \in Registered /\ c \in ClientIds
               /\ Len(log[c]) \in DOMAIN log[c]
               /\ log[c][Len(log[c])].report = late[i].latest
               /\ UNCHANGED <<client_count, clients, log, task, pc>>
  <1> DEFINE s == task[t]
             rows == page[t][s]
             i == Len(rows) + 1
             c == clients[i].client_id
             row == RowOf(s, clients[i])
  <1> USE DEF Inv, TypeInv
  <1>1. /\ pc[t] = "scan" /\ s \in Sections /\ cursor[t] \in Nat /\ client_count \in Nat
        /\ cursor[t] <= client_count
        /\ page \in [Threads -> [Sections -> Seq(Row)]]
        /\ UNCHANGED <<client_count, clients, log, task, pc>>
    BY SizesAssumption DEF Scan, ControlOK, TypeOK, table
  <1>2. rows \in Seq(Row) /\ Len(rows) \in Nat
    BY <1>1
  <1>3. cursor[t] = i /\ i \in 1..client_count
    <2>1. Len(rows) = cursor[t] - 1
      BY <1>1 DEF PageOK, Scanning, Current
    <2> QED BY <1>1, <1>2, <2>1
  <1>4. i \in Registered /\ ~ Updating(i)
    BY <1>1, <1>3, AllRegistered
  <1>5. c \in ClientIds /\ log[c] \in Seq(Entry) /\ log[c] # << >> /\ clients[i] \in ClientHistory
    BY <1>4, RegisteredLog
  <1>6. Len(log[c]) \in DOMAIN log[c]
    BY <1>5
  <1>7. log[c][Len(log[c])].report = clients[i].latest
    BY <1>4 DEF LatestOK, Newest
  <1>8. row.id = c /\ row.latest = clients[i].latest /\ row \in Row
    <2>1. row \in Row
      BY <1>1, <1>5, RowType
    <2> QED BY <2>1 DEF RowOf
  <1>9. page'[t][s] = Append(rows, row) /\ \A z \in Sections : z # s => page'[t][z] = page[t][z]
    BY <1>1, <1>3 DEF Scan
  <1>10. /\ Len(page'[t][s]) = i /\ page'[t][s][i] = row
         /\ \A j \in 1..Len(rows) : page'[t][s][j] = rows[j]
    <2> HIDE DEF rows, row
    <2> QED BY <1>2, <1>8, <1>9
  <1> HIDE DEF s, rows, i, c, row
  <1> QED BY <1>1, <1>2, <1>4, <1>5, <1>6, <1>7, <1>8, <1>9, <1>10, Zenon DEF s, rows, i, c

LEMMA RowsStayKnown ==
    ASSUME Inv, [Next]_vars, NEW u \in Threads, RowsKnown(u), page'[u] = page[u]
    PROVE  RowsKnown(u)'
  <1> SUFFICES ASSUME NEW s \in Sections, NEW i \in 1..Len(page[u][s])
               PROVE  /\ i \in Registered'
                      /\ page[u][s][i].id = clients'[i].client_id
                      /\ \E k \in DOMAIN log'[clients'[i].client_id] :
                           log'[clients'[i].client_id][k].report = page[u][s][i].latest
    <2>1. page'[u] = page[u]
      OBVIOUS
    <2>2. RowsKnown(u)' <=>
            \A s \in Sections : \A i \in 1..Len(page'[u][s]) :
              /\ i \in Registered'
              /\ page'[u][s][i].id = clients'[i].client_id
              /\ \E k \in DOMAIN log'[clients'[i].client_id] :
                   log'[clients'[i].client_id][k].report = page'[u][s][i].latest
      BY Zenon DEF RowsKnown, IsStored
    <2> QED BY <2>1, <2>2
  <1> DEFINE c == clients[i].client_id
             n == page[u][s][i].latest
  <1>1. i \in Registered /\ page[u][s][i].id = c /\ \E k \in DOMAIN log[c] : log[c][k].report = n
    BY DEF RowsKnown, IsStored
  <1>2. i \in Registered' /\ clients'[i].client_id = c
    BY <1>1, SlotsKept DEF SlotKept
  <1>3. c \in ClientIds
    BY <1>1, RegisteredLog
  <1>4. PICK k \in DOMAIN log[c] : log[c][k].report = n
    BY <1>1
  <1>5. DOMAIN log[c] \subseteq DOMAIN log'[c] /\ log'[c][k] = log[c][k]
    BY <1>3, <1>4, LogGrows
  <1> QED BY <1>1, <1>2, <1>4, <1>5

LEMMA ScanKnown ==
    ASSUME Inv, LatestOK, NEW u \in Threads, PageOK(u), RowsKnown(u), Scan(u)
    PROVE  RowsKnown(u)'
  <1> DEFINE s == task[u]
             rows == page[u][s]
             i == Len(rows) + 1
             c == clients[i].client_id
             late == page'[u][s]
  <1>1. /\ s \in Sections /\ Len(rows) \in Nat
        /\ Len(late) = i /\ late[i].id = c /\ \A j \in 1..Len(rows) : late[j] = rows[j]
        /\ \A z \in Sections : z # s => page'[u][z] = page[u][z]
        /\ i \in Registered
        /\ \E k \in DOMAIN log[c] : log[c][k].report = late[i].latest
        /\ clients' = clients /\ log' = log /\ Registered' = Registered
    BY ScannedRow, ZenonT(60) DEF Registered
  <1> SUFFICES ASSUME NEW z \in Sections, NEW j \in 1..Len(page'[u][z])
               PROVE  /\ j \in Registered
                      /\ page'[u][z][j].id = clients[j].client_id
                      /\ \E k \in DOMAIN log[clients[j].client_id] :
                           log[clients[j].client_id][k].report = page'[u][z][j].latest
    BY <1>1, ZenonT(60) DEF RowsKnown, IsStored
  <1>2. CASE z # s
    BY <1>1, <1>2, ZenonT(60) DEF RowsKnown, IsStored
  <1>3. CASE z = s /\ j = i
    BY <1>1, <1>3, ZenonT(60)
  <1>4. CASE z = s /\ j # i
    <2>1. j \in 1..Len(rows) /\ late[j] = rows[j]
      <3>1. j \in 1..Len(late)
        BY <1>4
      <3> HIDE DEF rows, late
      <3> QED BY <1>1, <1>4, <3>1
    <2> QED BY <1>1, <1>4, <2>1, ZenonT(60) DEF RowsKnown, IsStored
  <1> QED BY <1>2, <1>3, <1>4, SMTT(30)

(***************************************************************************)
(* The order of two rows, once it is right, stays so: reports keep their   *)
(* places.                                                                 *)
(***************************************************************************)
LEMMA PlacesStay ==
    ASSUME Inv, FreshOK', [Next]_vars, NEW c \in ClientIds, NEW n, IsStored(c, n)
    PROVE  PlaceIn(log'[c], n) = PlaceIn(log[c], n)
  <1> DEFINE l == log[c]
             m == log'[c]
  <1>1. DOMAIN l \subseteq DOMAIN m /\ \A k \in DOMAIN l : m[k] = l[k]
    BY LogGrows
  <1>2. \A k, j \in DOMAIN m : m[j].report = m[k].report => j = k
    BY DEF FreshOK
  <1>3. \E k \in DOMAIN l : l[k].report = n
    BY DEF IsStored
  <1> HIDE DEF l, m
  <1>4. PlaceIn(m, n) = PlaceIn(l, n)
    BY <1>1, <1>2, <1>3, PlaceKept
  <1> QED BY <1>4 DEF l, m

LEMMA RowsStayAscending ==
    ASSUME Inv, FreshOK', [Next]_vars, NEW u \in Threads, RowsKnown(u), RowsAscend(u),
           page'[u] = page[u]
    PROVE  RowsAscend(u)'
  <1> SUFFICES ASSUME NEW p \in Successive, NEW i \in 1..Len(page[u][p[1]]),
                      i \in 1..Len(page[u][p[2]])
               PROVE  PlaceIn(log'[page[u][p[1]][i].id], page[u][p[1]][i].latest)
                        <= PlaceIn(log'[page[u][p[2]][i].id], page[u][p[2]][i].latest)
    BY DEF RowsAscend
  <1> DEFINE a == page[u][p[1]][i]
             b == page[u][p[2]][i]
  <1>1. p[1] \in Sections /\ p[2] \in Sections
    BY DEF Successive, Sections
  <1>2. /\ i \in Registered /\ a.id = clients[i].client_id /\ b.id = clients[i].client_id
        /\ IsStored(a.id, a.latest) /\ IsStored(b.id, b.latest)
    BY <1>1 DEF RowsKnown
  <1>3. a.id \in ClientIds /\ b.id \in ClientIds
    BY <1>2, RegisteredLog
  <1>4. PlaceIn(log[a.id], a.latest) <= PlaceIn(log[b.id], b.latest)
    BY DEF RowsAscend
  <1> HIDE DEF a, b
  <1>5. /\ PlaceIn(log'[a.id], a.latest) = PlaceIn(log[a.id], a.latest)
        /\ PlaceIn(log'[b.id], b.latest) = PlaceIn(log[b.id], b.latest)
    BY <1>2, <1>3, PlacesStay
  <1>6. PlaceIn(log'[a.id], a.latest) <= PlaceIn(log'[b.id], b.latest)
    BY <1>4, <1>5
  <1> QED BY <1>6 DEF a, b

(***************************************************************************)
(* The row a scan appends shows the newest report of its client, and no    *)
(* place is after that one's.                                              *)
(***************************************************************************)
LEMMA ScanAscending ==
    ASSUME Inv, LatestOK, FreshOK, NEW u \in Threads, PageOK(u),
           RowsKnown(u), RowsAscend(u), Scan(u)
    PROVE  RowsAscend(u)'
  <1> DEFINE s == task[u]
             rows == page[u][s]
             i == Len(rows) + 1
             c == clients[i].client_id
             late == page'[u][s]
             l == log[c]
  <1>1. /\ s \in Sections /\ Len(rows) \in Nat
        /\ Len(late) = i /\ late[i].id = c /\ \A j \in 1..Len(rows) : late[j] = rows[j]
        /\ \A z \in Sections : z # s => page'[u][z] = page[u][z]
        /\ i \in Registered /\ c \in ClientIds
        /\ Len(l) \in DOMAIN l /\ l[Len(l)].report = late[i].latest
        /\ log' = log
    BY ScannedRow, ZenonT(60)
  <1>2. l \in Seq(Entry) /\ \A j, k \in DOMAIN l : l[j].report = l[k].report => j = k
    BY <1>1, ZenonT(60) DEF FreshOK, Inv, TypeInv, TypeOK
  <1>3. ASSUME NEW n, \E k \in DOMAIN l : l[k].report = n
        PROVE  PlaceIn(l, n) <= PlaceIn(l, late[i].latest)
    <2> DEFINE m == late[i].latest
    <2>1. PICK k \in DOMAIN l : l[k].report = n
      BY <1>3
    <2>2. PlaceIn(l, l[k].report) = k
      BY <1>2, <2>1, PlaceOf
    <2>3. PlaceIn(l, l[Len(l)].report) = Len(l)
      BY <1>1, <1>2, PlaceOf, ZenonT(60)
    <2>4. l[Len(l)].report = m
      BY <1>1
    <2> HIDE DEF l, m
    <2>5. PlaceIn(l, n) = k /\ PlaceIn(l, m) = Len(l)
      BY <2>1, <2>2, <2>3, <2>4
    <2>6. k <= Len(l)
      BY <1>2, <2>1
    <2>7. PlaceIn(l, n) <= PlaceIn(l, m)
      BY <2>5, <2>6, SMTT(30)
    <2> QED BY <2>7 DEF m
  <1> SUFFICES ASSUME NEW p \in Successive, NEW j \in 1..Len(page'[u][p[1]]),
                      j \in 1..Len(page'[u][p[2]])
               PROVE  PlaceIn(log[page'[u][p[1]][j].id], page'[u][p[1]][j].latest)
                        <= PlaceIn(log[page'[u][p[2]][j].id], page'[u][p[2]][j].latest)
    BY <1>1, Zenon DEF RowsAscend
  <1>4. p[1] \in Sections /\ p[2] \in Sections /\ p[1] # p[2]
    BY DEF Successive, Sections
  <1>5. CASE p[1] # s /\ p[2] # s
    <2>1. page'[u][p[1]] = page[u][p[1]] /\ page'[u][p[2]] = page[u][p[2]]
      BY <1>1, <1>4, <1>5
    <2> QED BY <2>1, SMTT(30) DEF RowsAscend
  <1>6. CASE p[1] = s
    <2>1. p[2] \in Blank(u) \intersect Sections
      BY <1>4, <1>6 DEF Blank, Ahead, Successive
    <2>2. page'[u][p[2]] = << >>
      BY <1>1, <1>4, <1>6, <2>1, ZenonT(60) DEF PageOK
    <2> QED BY <2>2
  <1>7. CASE p[2] = s /\ j = i
    <2>1. j \in 1..Len(page[u][p[1]]) /\ page'[u][p[1]] = page[u][p[1]]
      BY <1>1, <1>4, <1>7, ZenonT(60)
    <2>2. page[u][p[1]][j].id = c /\ \E k \in DOMAIN l : l[k].report = page[u][p[1]][j].latest
      BY <1>4, <1>7, <2>1 DEF RowsKnown, IsStored
    <2>3. PlaceIn(l, page[u][p[1]][j].latest) <= PlaceIn(l, late[i].latest)
      <3> HIDE DEF l, late, i
      <3> QED BY <1>3, <2>2
    <2> QED BY <1>1, <1>7, <2>1, <2>2, <2>3, ZenonT(60)
  <1>8. CASE p[2] = s /\ j # i
    <2>1. j \in 1..Len(rows) /\ late[j] = rows[j] /\ page'[u][p[1]] = page[u][p[1]]
      <3>1. page'[u][p[1]] = page[u][p[1]] /\ j \in 1..Len(late)
        BY <1>1, <1>4, <1>8
      <3> HIDE DEF rows, late
      <3> QED BY <1>1, <1>8, <3>1, SMTT(30)
    <2> QED BY <1>8, <2>1 DEF RowsAscend
  <1> QED BY <1>4, <1>5, <1>6, <1>7, <1>8, SMTT(30)

(***************************************************************************)
(* A loop ends at client_count, at or beyond the end of every loop before. *)
(***************************************************************************)
LEMMA LengthsFrame ==
    ASSUME Inv, NEW u \in Threads, LengthsAscend(u),
           client_count' \in Nat, client_count' >= client_count,
           page'[u] = page[u], Complete(u)' \intersect Sections = Complete(u) \intersect Sections,
           (pc[u] = "send" /\ reply[u] = "page")' => task'[u] = "script"
    PROVE  LengthsAscend(u)'
  <1>1. client_count \in Nat /\ page[u] \in [Sections -> Seq(Row)]
    BY SizesAssumption DEF Inv, TypeInv, TypeOK
  <1>2. ASSUME NEW s \in Complete(u)' \intersect Sections
        PROVE  Len(page'[u][s]) <= client_count'
    <2>1. Len(page[u][s]) <= client_count /\ Len(page[u][s]) \in Nat
      BY <1>1 DEF LengthsAscend
    <2> QED BY <1>1, <2>1
  <1>3. ASSUME NEW p \in Successive, {p[1], p[2]} \subseteq Complete(u)'
        PROVE  Len(page'[u][p[1]]) <= Len(page'[u][p[2]])
    <2>1. {p[1], p[2]} \subseteq Complete(u)
      BY <1>3 DEF Successive, Sections
    <2> QED BY <2>1 DEF LengthsAscend
  <1> QED BY <1>2, <1>3 DEF LengthsAscend

LEMMA OwnLengths ==
    ASSUME Inv, NEW u \in Threads, PageOK(u), LengthsAscend(u),
           client_count' \in Nat, client_count' >= client_count,
           (\E r \in Requests : Accept(u, r)) \/ Receive(u) \/ Serve(u)
    PROVE  LengthsAscend(u)'
  <1> USE DEF Inv, TypeInv
  <1>1. TypeOK
    OBVIOUS
  <1>2. CASE Close(u)
    <2>1. task'[u] = "none" /\ pc'[u] = "idle"
      BY <1>2 DEF Close, GoTo, TypeOK
    <2> QED BY <2>1 DEF LengthsAscend, Complete, Passed, Successive
  <1>3. CASE \/ \E r \in Requests : Accept(u, r)
             \/ RecvHeader(u) \/ RecvBody(u) \/ Route(u)
    <2>1. /\ pc'[u] \in {"recv", "route", "body", "lock", "send"}
          /\ task'[u] \in {"none", "put", "side", "data"}
          /\ pc'[u] = "send" => task'[u] = "none" /\ reply'[u] # "page"
      <3>1. CASE \E r \in Requests : Accept(u, r)
        BY <3>1 DEF Accept, GoTo, locals, ControlOK, TypeOK
      <3>2. CASE RecvHeader(u)
        BY <3>2 DEF RecvHeader, GoTo, locals, ControlOK, TypeOK
      <3>3. CASE RecvBody(u)
        BY <3>3 DEF RecvBody, GoTo, ControlOK, TypeOK
      <3>4. CASE Route(u)
        BY <3>4 DEF Route, GoTo, ControlOK, TypeOK
      <3> QED BY <1>3, <3>1, <3>2, <3>3, <3>4
    <2> QED BY <2>1 DEF LengthsAscend, Complete, Passed, Successive, Sections
  <1>4. CASE Lock(u) \/ Unlock(u) \/ Check(u)
    <2>1. page'[u] = page[u]
      BY <1>4 DEF Lock, Unlock, Check
    <2>2. Complete(u)' \intersect Sections = Complete(u) \intersect Sections
      <3>1. CASE Lock(u)
        BY <1>1, <3>1 DEF Lock, GoTo, Complete, TypeOK
      <3>2. CASE Unlock(u)
        BY <1>1, <3>2 DEF Unlock, GoTo, Complete, TypeOK
      <3>3. CASE Check(u)
        BY <1>1, <3>3 DEF Check, GoTo, Complete, TypeOK, ControlOK, NextSection, Passed
      <3> QED BY <1>4, <3>1, <3>2, <3>3
    <2>3. (pc[u] = "send" /\ reply[u] = "page")' => task'[u] = "script"
      BY <1>4 DEF Lock, Unlock, Check, GoTo, TypeOK, ControlOK, Sections
    <2> QED BY <2>1, <2>2, <2>3, LengthsFrame
  <1>5. CASE PutFind(u) \/ PutStore(u) \/ PutPush(u)
    <2>1. task'[u] = "put" /\ pc'[u] # "send"
      BY <1>5 DEF PutFind, PutStore, PutPush, GoTo, locals, ControlOK, TypeOK
    <2> QED BY <2>1 DEF LengthsAscend, Complete, Passed, Successive, Sections
  <1>6. CASE Scan(u)
    <2>1. /\ pc' = pc /\ pc[u] = "scan" /\ task' = task /\ client_count' = client_count
          /\ task[u] \in Sections
          /\ \A z \in Sections : z # task[u] => page'[u][z] = page[u][z]
      BY <1>6 DEF Scan, TypeOK, ControlOK, table
    <2>2. Complete(u)' = Passed(task[u]) /\ Complete(u) = Passed(task[u])
      BY <2>1 DEF Complete
    <2>3. \A z \in Passed(task[u]) : z \in Sections /\ z # task[u]
      BY <2>1 DEF Passed, Sections
    <2> QED BY <2>1, <2>2, <2>3 DEF LengthsAscend
  <1>7. CASE ScanEnd(u)
    <2> DEFINE s == task[u]
    <2>1. /\ page' = page /\ task' = task /\ client_count' = client_count
          /\ pc[u] = "scan" /\ pc'[u] = "unlock" /\ s \in Sections
          /\ cursor[u] = client_count + 1 /\ client_count \in Nat
      <3>1. cursor[u] \in Nat /\ client_count \in Nat
        BY SizesAssumption DEF TypeOK
      <3> QED BY <1>7, <3>1 DEF ScanEnd, GoTo, TypeOK, ControlOK, table, locals
    <2>2. Len(page[u][s]) = client_count
      <3>1. Len(page[u][s]) = cursor[u] - 1
        BY <2>1 DEF PageOK, Scanning, Current
      <3> QED BY <2>1, <3>1
    <2>3. Complete(u) = Passed(s) /\ Complete(u)' = Passed(s) \union {s}
      BY <2>1 DEF Complete
    <2>4. ASSUME NEW z \in Complete(u)' \intersect Sections
          PROVE  Len(page[u][z]) <= client_count
      BY <2>1, <2>2, <2>3, <2>4 DEF LengthsAscend
    <2>5. ASSUME NEW p \in Successive, {p[1], p[2]} \subseteq Passed(s) \union {s}
          PROVE  Len(page[u][p[1]]) <= Len(page[u][p[2]])
      <3>1. p[1] \in Sections /\ p[1] # s
        BY <2>1, <2>5 DEF Successive, Sections, Passed
      <3>2. CASE p[2] = s
        BY <2>2, <2>3, <2>4, <2>5, <3>1, <3>2
      <3>3. CASE p[2] # s
        BY <2>3, <2>5, <3>1, <3>3 DEF LengthsAscend
      <3> QED BY <3>2, <3>3
    <2> QED BY <2>1, <2>3, <2>4, <2>5 DEF LengthsAscend
  <1> QED BY <1>2, <1>3, <1>4, <1>5, <1>6, <1>7 DEF Receive, RecvNothing, Serve, Send

LEMMA NextLengths ==
    ASSUME Inv, Inv', [Next]_vars, NEW u \in Threads, PageOK(u), LengthsAscend(u)
    PROVE  LengthsAscend(u)'
  <1>1. client_count' \in Nat /\ client_count' >= client_count
    BY CountGrows, SizesAssumption DEF Inv, TypeInv, TypeOK
  <1>2. CASE UNCHANGED vars \/ Tick
    <2>1. UNCHANGED <<pc, task, page, reply>>
      BY <1>2 DEF vars, Tick, locals
    <2> QED BY <1>1, <2>1, LengthsFrame DEF Complete, LengthsAscend
  <1>3. ASSUME NEW t \in Threads, t # u,
               (\E r \in Requests : Accept(t, r)) \/ Receive(t) \/ Serve(t)
        PROVE  LengthsAscend(u)'
    <2>1. /\ pc'[u] = pc[u] /\ task'[u] = task[u] /\ page'[u] = page[u]
          /\ reply'[u] = reply[u]
      BY <1>3, OthersKeep DEF Inv
    <2> QED BY <1>1, <2>1, LengthsFrame DEF Complete, LengthsAscend
  <1>4. CASE (\E r \in Requests : Accept(u, r)) \/ Receive(u) \/ Serve(u)
    BY <1>1, <1>4, OwnLengths
  <1> QED BY <1>2, <1>3, <1>4 DEF Next

LEMMA NextForward ==
    Inv /\ Inv' /\ PageInv /\ LatestOK /\ ForwardInv /\ [Next]_vars => ForwardInv'
  <1> SUFFICES ASSUME Inv, Inv', PageInv, LatestOK, ForwardInv, [Next]_vars
               PROVE  ForwardInv'
    OBVIOUS
  <1>1. FreshOK /\ FreshOK'
    BY NextFresh DEF ForwardInv
  <1>2. ASSUME NEW u \in Threads
        PROVE  RowsKnown(u)' /\ RowsAscend(u)' /\ LengthsAscend(u)'
    <2>1. PageOK(u) /\ RowsKnown(u) /\ RowsAscend(u) /\ LengthsAscend(u)
      BY DEF PageInv, ForwardInv
    <2>2. LengthsAscend(u)'
      BY <2>1, NextLengths
    <2>3. CASE page'[u] = page[u]
      BY <1>1, <2>1, <2>2, <2>3, RowsStayKnown, RowsStayAscending
    <2>4. CASE page'[u] = NoPage
      BY <2>2, <2>4 DEF NoPage, RowsKnown, RowsAscend, Successive, Sections
    <2>5. CASE Scan(u)
      BY <1>1, <2>1, <2>2, <2>5, ScanKnown, ScanAscending
    <2> QED BY <2>3, <2>4, <2>5, PageSteps DEF Inv
  <1> QED BY <1>1, <1>2 DEF ForwardInv

(***************************************************************************)
(* The page's three sections are written at three moments, and reports     *)
(* come in between; still a later section has every client of an earlier   *)
(* one at the same place, and never an older report of it: the details and *)
(* the script know at least what the sidebar shows.                        *)
(***************************************************************************)
THEOREM PageForwardCorrect == Spec => []PageGoesForward
  <1>1. ForwardInv => PageGoesForward
    <2> SUFFICES ASSUME ForwardInv, NEW t \in Threads, pc[t] = "send", reply[t] = "page"
                 PROVE  /\ NotOlder(page[t]["side"], page[t]["detail"])
                        /\ NotOlder(page[t]["detail"], page[t]["script"])
      BY DEF PageGoesForward
    <2>1. RowsKnown(t) /\ RowsAscend(t) /\ LengthsAscend(t) /\ task[t] = "script"
      BY DEF ForwardInv, LengthsAscend
    <2>2. Complete(t) = {"side", "detail", "script"}
      BY <2>1 DEF Complete, Passed
    <2>3. ASSUME NEW p \in Successive
          PROVE  NotOlder(page[t][p[1]], page[t][p[2]])
      <3> DEFINE early == page[t][p[1]]
                 late == page[t][p[2]]
      <3>1. p[1] \in Sections /\ p[2] \in Sections /\ {p[1], p[2]} \subseteq Complete(t)
        BY <2>2 DEF Successive, Sections
      <3>2. Len(early) <= Len(late)
        BY <2>1, <3>1, SMTT(30) DEF LengthsAscend
      <3>3. ASSUME NEW i \in 1..Len(early)
            PROVE  /\ early[i].id = late[i].id
                   /\ Place(early[i].id, early[i].latest) <= Place(late[i].id, late[i].latest)
        <4>1. i \in 1..Len(late)
          BY <3>2
        <4>2. early[i].id = late[i].id
          BY <2>1, <3>1, <4>1 DEF RowsKnown
        <4>3. PlaceIn(log[early[i].id], early[i].latest)
                <= PlaceIn(log[late[i].id], late[i].latest)
          BY <2>1, <4>1 DEF RowsAscend
        <4> QED BY <4>2, <4>3, Zenon DEF Place, PlaceIn
      <3> QED BY <3>2, <3>3 DEF NotOlder
    <2>4. <<"side", "detail">> \in Successive /\ <<"detail", "script">> \in Successive
      BY DEF Successive
    <2> QED BY <2>3, <2>4
  <1>2. Spec => []ForwardInv
    BY InitForward, NextForward, InvCorrect, PagesCorrect, LatestCorrect, PTL DEF Spec
  <1> QED BY <1>1, <1>2, PTL

-----------------------------------------------------------------------------
(* Counting the clients of the store.                                      *)

(***************************************************************************)
(* The registered slots and the known clients are as many.                 *)
(***************************************************************************)
LEMMA KnownCount ==
    ASSUME Inv
    PROVE  /\ IsFiniteSet(Registered)
           /\ Cardinality(Store!Known) = Cardinality(Registered)
  <1> DEFINE id == [i \in Registered |-> clients[i].client_id]
  <1>1. \A i \in Registered : id[i] \in Store!Known
    BY RegisteredLog DEF Store!Known
  <1>2. \A c \in Store!Known : \E i \in Registered : id[i] = c
    BY DEF Store!Known, Inv, TableInv, TableIsWindows
  <1>3. \A i, j \in Registered : id[i] = id[j] => i = j
    BY OneSlotEach
  <1>4. IsFiniteSet(Registered)
    <2>1. Slots \subseteq Nat /\ Registered \subseteq Slots
      BY RegisteredLog DEF Slots
    <2>2. IsFiniteSet(Slots)
      BY SizesAssumption, FS_Interval DEF Slots
    <2> QED BY <2>1, <2>2, FS_Subset
  <1>5. id \in Surjection(Registered, Store!Known) /\ id \in Injection(Registered, Store!Known)
    BY <1>1, <1>2, <1>3 DEF Surjection, Injection, IsInjective
  <1> QED BY <1>4, <1>5, FS_Surjection

LEMMA SlotCount == IsFiniteSet(Slots) /\ Cardinality(Slots) = MAX_CLIENTS
  BY SizesAssumption, FS_Interval DEF Slots

LEMMA SameCardinality == \A S : Store!Cardinality(S) = Cardinality(S)
  BY DEF Store!Cardinality, Cardinality

(***************************************************************************)
(* A report that is pushed belongs to a known client, or its slot is one   *)
(* that was left.                                                          *)
(***************************************************************************)
LEMMA PushHasRoom ==
    ASSUME Inv, NEW t \in Threads, PutPush(t)
    PROVE  req[t].body \in Store!Known \/ Cardinality(Store!Known) < MAX_CLIENTS
  <1> DEFINE f == found[t]
  <1>1. /\ pc[t] = "push" /\ f \in 1..client_count /\ f \in Slots
        /\ clients[f].client_id = req[t].body
    BY SizesAssumption DEF PutPush, Inv, TypeInv, TypeOK, ControlOK, Slots, TableInv, SearchOK
  <1>2. CASE f \in Registered
    BY <1>1, <1>2, RegisteredLog DEF Store!Known
  <1>3. CASE f \notin Registered
    <2>1. Registered \subseteq Slots \ {f}
      BY <1>3, RegisteredLog
    <2>2. IsFiniteSet(Slots \ {f}) /\ Cardinality(Slots \ {f}) = MAX_CLIENTS - 1
      BY <1>1, SlotCount, FS_RemoveElement
    <2>3. Cardinality(Registered) <= MAX_CLIENTS - 1 /\ Cardinality(Registered) \in Nat
      BY <2>1, <2>2, FS_Subset, FS_CardinalityType
    <2> QED BY <2>3, KnownCount, SizesAssumption
  <1> QED BY <1>2, <1>3

(***************************************************************************)
(* A report that is turned away comes from a client the store does not     *)
(* know, and finds as many as there are slots.                             *)
(***************************************************************************)
LEMMA DropIsFull ==
    ASSUME Inv, NEW t \in Threads, FullOfOthers(t), req[t].body \in ClientIds
    PROVE  req[t].body \notin Store!Known /\ Cardinality(Store!Known) = MAX_CLIENTS
  <1>1. Registered = Slots
    BY RegisteredLog DEF FullOfOthers
  <1>2. Cardinality(Store!Known) = MAX_CLIENTS
    BY <1>1, KnownCount, SlotCount
  <1>3. req[t].body \notin Store!Known
    BY <1>1 DEF FullOfOthers, Store!Known, Inv, TableInv, TableIsWindows
  <1> QED BY <1>2, <1>3

(***************************************************************************)
(* The time a report is stamped with is not before that of the report      *)
(* stored before it.                                                       *)
(***************************************************************************)
LEMMA PushIsLater ==
    ASSUME Inv, TimesInv, NEW t \in Threads, PutPush(t), log[req[t].body] # << >>
    PROVE  now >= log[req[t].body][Len(log[req[t].body])].time
  <1> DEFINE c == req[t].body
             f == found[t]
             h == clients[f].history_count
  <1>1. /\ pc[t] = "push" /\ f \in InUse /\ c \in ClientIds
        /\ clients[f].client_id = c
    BY DEF PutPush, Inv, TypeInv, ControlOK, InUse, TableInv, SearchOK
  <1>2. \A i \in InUse : ~ Filling(i)
    BY <1>1, OneInside DEF Inv, Filling, Critical
  <1>3. PICK i \in Registered : clients[i].client_id = c
    BY <1>1 DEF Inv, TableInv, TableIsWindows
  <1>4. f \in Registered
    BY <1>1, <1>2, <1>3 DEF Inv, TableInv, SlotsOK, Registered, InUse
  <1>5. /\ f \in Slots /\ clients[f] \in ClientHistory /\ log[c] \in Seq(Entry)
        /\ IsWindowOf(clients[f], log[c])
    BY <1>1, <1>4, RegisteredLog
  <1>6. h \in Nat /\ h > 0 /\ Len(log[c]) \in Nat /\ h \in 1..h
    BY <1>4, <1>5, SizesAssumption DEF Registered, ClientHistory
  <1>7. clients[f].time_history[h] = log[c][Len(log[c]) - h + h].time
    BY <1>5, <1>6 DEF IsWindowOf
  <1>8. Len(log[c]) - h + h = Len(log[c])
    BY <1>6
  <1>9. clients[f].time_history[h] <= now
    BY <1>5, <1>6 DEF TimesInv, Ascending
  <1>10. now \in Nat /\ clients[f].time_history[h] \in Nat
    <2>1. h \in Positions /\ now \in Times
      BY <1>5, <1>6, SizesAssumption DEF ClientHistory, Positions, Inv, TypeInv, TypeOK
    <2>2. clients[f].time_history[h] \in Times
      BY <1>5, <2>1, SMTT(30) DEF ClientHistory
    <2> QED BY <2>1, <2>2, SizesAssumption DEF Times
  <1> HIDE DEF c, f, h
  <1> QED BY <1>7, <1>8, <1>9, <1>10 DEF c

-----------------------------------------------------------------------------
(* A view.                                                                 *)

(***************************************************************************)
(* What the row of one client says is the window of its log.               *)
(***************************************************************************)
LEMMA RowIsWindow ==
    ASSUME Inv, LatestOK, NEW i \in Registered, ~ Updating(i), NEW online
    PROVE  LET c == clients[i].client_id
               w == Store!Window(log[c])
               row == Shown("data", clients[i], online)
           IN  /\ row.id = c
               /\ row.latest = w[Len(w)].report
               /\ row.load = [k \in DOMAIN w |-> w[k].report]
               /\ row.mem = [k \in DOMAIN w |-> w[k].report]
               /\ row.time = [k \in DOMAIN w |-> w[k].time]
  <1> DEFINE ch == clients[i]
             l == log[clients[i].client_id]
             h == clients[i].history_count
             w == Store!Window(log[clients[i].client_id])
             row == Shown("data", clients[i], online)
  <1>1. ch \in ClientHistory /\ l \in Seq(Entry) /\ l # << >> /\ IsWindowOf(ch, l)
    BY RegisteredLog
  <1>2. /\ h \in Nat /\ h > 0 /\ Len(l) \in Nat
        /\ h = IF Len(l) < HISTORY_SIZE THEN Len(l) ELSE HISTORY_SIZE
    BY <1>1, SizesAssumption DEF IsWindowOf, Registered, ClientHistory
  <1>3. w = [k \in 1..h |-> l[Len(l) - h + k]]
    BY <1>2 DEF Store!Window
  <1>4. DOMAIN w = 1..h /\ \A k \in 1..h : w[k] = l[Len(l) - h + k]
    <2> HIDE DEF w, h, l
    <2> QED BY <1>3
  <1>5. Len(w) = h
    <2> HIDE DEF w, h, l
    <2> QED BY <1>2, <1>3
  <1>6. w[Len(w)] = Newest(l)
    <2>1. h \in 1..h /\ Len(l) - h + h = Len(l)
      BY <1>2
    <2> HIDE DEF w, h, l
    <2> QED BY <1>4, <1>5, <2>1 DEF Newest
  <1>7. row.latest = w[Len(w)].report
    <2>1. row.latest = ch.latest
      BY DEF Shown
    <2>2. ch.latest = Newest(l).report
      BY DEF LatestOK
    <2> HIDE DEF row, w, l
    <2> QED BY <1>6, <2>1, <2>2
  <1>8. /\ row.load = [k \in 1..h |-> ch.load_history[k]]
        /\ row.mem = [k \in 1..h |-> ch.mem_history[k]]
        /\ row.time = [k \in 1..h |-> ch.time_history[k]]
    BY DEF Shown, Held
  <1>9. \A k \in 1..h : /\ ch.load_history[k] = l[Len(l) - h + k].report
                        /\ ch.mem_history[k] = l[Len(l) - h + k].report
                        /\ ch.time_history[k] = l[Len(l) - h + k].time
    BY <1>1 DEF IsWindowOf
  <1>10. row.id = ch.client_id
    BY DEF Shown
  <1>11. /\ row.load = [k \in DOMAIN w |-> w[k].report]
         /\ row.mem = [k \in DOMAIN w |-> w[k].report]
         /\ row.time = [k \in DOMAIN w |-> w[k].time]
    <2> HIDE DEF w, h, l, row, ch
    <2> QED BY <1>4, <1>8, <1>9
  <1> QED BY <1>7, <1>10, <1>11

(***************************************************************************)
(* The rows of /data at the end of its scan are the view of the store.     *)
(***************************************************************************)
LEMMA ScanIsView ==
    ASSUME Inv, PageInv, LatestOK, NEW t \in Threads, ScanEnd(t), task[t] = "data"
    PROVE  ViewOf(page[t]["data"]) = Store!View
  <1> DEFINE rows == page[t]["data"]
             n == client_count
             fields == {"latest", "load", "mem", "time"}
             At(c) == CHOOSE i \in DOMAIN rows : rows[i].id = c
  <1>1. /\ pc[t] = "scan" /\ rows \in Seq(Row) /\ n \in Nat /\ Len(rows) = n
        /\ \A i \in 1..n : \E online \in BOOLEAN : rows[i] = Shown("data", clients[i], online)
    <2>1. pc[t] = "scan" /\ cursor[t] > client_count
      BY DEF ScanEnd
    <2>2. cursor[t] <= client_count + 1 /\ cursor[t] \in Nat /\ client_count \in Nat
      BY <2>1, SizesAssumption DEF Inv, TypeInv, TypeOK, ControlOK
    <2>3. Current(t)
      BY <2>1 DEF PageInv, PageOK, Scanning
    <2>4. rows \in Seq(Row)
      BY DEF Inv, TypeInv, TypeOK, Sections
    <2>5. Len(rows) = n
      BY <2>1, <2>2, <2>3 DEF Current
    <2> QED BY <2>1, <2>2, <2>3, <2>4, <2>5 DEF Current
  <1>2. DOMAIN rows = 1..n
    BY <1>1
  <1>3. ASSUME NEW i \in 1..n
        PROVE  LET c == clients[i].client_id
                   w == Store!Window(log[c])
               IN  /\ i \in Registered
                   /\ rows[i].id = c
                   /\ rows[i].latest = w[Len(w)].report
                   /\ rows[i].load = [k \in DOMAIN w |-> w[k].report]
                   /\ rows[i].mem = [k \in DOMAIN w |-> w[k].report]
                   /\ rows[i].time = [k \in DOMAIN w |-> w[k].time]
    <2>1. PICK online \in BOOLEAN : rows[i] = Shown("data", clients[i], online)
      BY <1>1
    <2>2. i \in Registered /\ ~ Updating(i)
      BY <1>1, AllRegistered
    <2> HIDE DEF rows
    <2> QED BY <2>1, <2>2, RowIsWindow, SMTT(30)
  <1>4. {rows[i].id : i \in DOMAIN rows} = Store!Known
    <2>1. ASSUME NEW i \in 1..n PROVE rows[i].id \in Store!Known
      BY <1>3, RegisteredLog, ZenonT(60) DEF Store!Known
    <2>2. ASSUME NEW c \in Store!Known PROVE \E i \in 1..n : rows[i].id = c
      <3>1. PICK i \in Registered : clients[i].client_id = c
        BY DEF Store!Known, Inv, TableInv, TableIsWindows
      <3>2. i \in 1..n
        BY DEF Registered
      <3> QED BY <1>3, <3>1, <3>2
    <2> HIDE DEF rows, n
    <2> QED BY <1>2, <2>1, <2>2
  <1>5. ASSUME NEW c \in Store!Known
        PROVE  [f \in fields |-> rows[At(c)][f]] = Store!View[c]
    <2> DEFINE w == Store!Window(log[c])
    <2>1. \E i \in DOMAIN rows : rows[i].id = c
      BY <1>4
    <2>2. At(c) \in 1..n /\ rows[At(c)].id = c
      <3> HIDE DEF rows
      <3> QED BY <1>2, <2>1
    <2> HIDE DEF At, rows
    <2>3. /\ rows[At(c)].latest = w[Len(w)].report
          /\ rows[At(c)].load = [k \in DOMAIN w |-> w[k].report]
          /\ rows[At(c)].mem = [k \in DOMAIN w |-> w[k].report]
          /\ rows[At(c)].time = [k \in DOMAIN w |-> w[k].time]
      <3>1. clients[At(c)].client_id = c
        BY <1>3, <2>2
      <3> QED BY <1>3, <2>2, <3>1
    <2>4. Store!View[c] = [latest |-> w[Len(w)].report,
                           load   |-> [k \in DOMAIN w |-> w[k].report],
                           mem    |-> [k \in DOMAIN w |-> w[k].report],
                           time   |-> [k \in DOMAIN w |-> w[k].time]]
      BY DEF Store!View
    <2> HIDE DEF w, rows
    <2>5. [f \in fields |-> rows[At(c)][f]] =
            [latest |-> rows[At(c)].latest, load |-> rows[At(c)].load,
             mem    |-> rows[At(c)].mem,    time |-> rows[At(c)].time]
      OBVIOUS
    <2> HIDE DEF fields
    <2> QED BY <2>3, <2>4, <2>5
  <1>6. ViewOf(rows) = [c \in Store!Known |-> [f \in fields |-> rows[At(c)][f]]]
    BY <1>4 DEF ViewOf
  <1>7. Store!View = [c \in Store!Known |-> Store!View[c]]
    BY DEF Store!View
  <1> HIDE DEF rows, At, fields
  <1>8. ViewOf(rows) = Store!View
    BY <1>5, <1>6, <1>7
  <1> QED BY <1>8 DEF rows

-----------------------------------------------------------------------------
(* What a thread is to the store.                                          *)

SessionAs(place, job, r, n, slot, rows) ==
    CASE job = "put" /\ place \in {"lock", "find", "store", "push"} ->
           [op |-> "report", id |-> r.body, report |-> n]
      [] job = "put" /\ place \in {"unlock", "send"} ->
           [op |-> IF slot = 0 THEN "dropped" ELSE "stored"]
      [] job = "data" /\ place \in {"lock", "scan"} ->
           [op |-> "query"]
      [] job = "data" /\ place \in {"unlock", "send"} ->
           [op |-> "answered", view |-> ViewOf(rows)]
      [] OTHER -> [op |-> "idle"]

LEMMA SessionIs ==
    ASSUME NEW t \in Threads
    PROVE  /\ SessionOf(t) =
                SessionAs(pc[t], task[t], req[t], report[t], found[t], page[t]["data"])
           /\ SessionOf(t)' =
                SessionAs(pc'[t], task'[t], req'[t], report'[t], found'[t], page'[t]["data"])
  BY DEF SessionOf, SessionAs

LEMMA SessionAt ==
    ASSUME NEW place, NEW job, NEW r, NEW n, NEW slot, NEW rows
    PROVE  LET session == SessionAs(place, job, r, n, slot, rows) IN
             /\ job = "put" /\ place \in {"lock", "find", "store", "push"}
                  => session = [op |-> "report", id |-> r.body, report |-> n]
             /\ job = "put" /\ place \in {"unlock", "send"}
                  => session = [op |-> IF slot = 0 THEN "dropped" ELSE "stored"]
             /\ job = "data" /\ place \in {"lock", "scan"}
                  => session = [op |-> "query"]
             /\ job = "data" /\ place \in {"unlock", "send"}
                  => session = [op |-> "answered", view |-> ViewOf(rows)]
             /\ job \notin {"put", "data"} => session = [op |-> "idle"]
  <1> DEFINE session == SessionAs(place, job, r, n, slot, rows)
  <1>1. ASSUME job = "put", place \in {"lock", "find", "store", "push"}
        PROVE  session = [op |-> "report", id |-> r.body, report |-> n]
    BY <1>1 DEF SessionAs
  <1>2. ASSUME job = "put", place \in {"unlock", "send"}
        PROVE  session = [op |-> IF slot = 0 THEN "dropped" ELSE "stored"]
    BY <1>2 DEF SessionAs
  <1>3. ASSUME job = "data", place \in {"lock", "scan"}
        PROVE  session = [op |-> "query"]
    BY <1>3 DEF SessionAs
  <1>4. ASSUME job = "data", place \in {"unlock", "send"}
        PROVE  session = [op |-> "answered", view |-> ViewOf(rows)]
    BY <1>4 DEF SessionAs
  <1>5. ASSUME job \notin {"put", "data"}
        PROVE  session = [op |-> "idle"]
    BY <1>5 DEF SessionAs
  <1> HIDE DEF session
  <1> QED BY <1>1, <1>2, <1>3, <1>4, <1>5 DEF session

-----------------------------------------------------------------------------
(* Every step of the server is a step of the store, or none.               *)

RefInv == Inv /\ PageInv /\ TimesInv /\ LatestOK

Quiet(u) ==
    /\ pc'[u] = pc[u] /\ task'[u] = task[u] /\ req'[u] = req[u]
    /\ report'[u] = report[u] /\ found'[u] = found[u] /\ page'[u] = page[u]

LEMMA QuietSession ==
    ASSUME NEW u \in Threads, Quiet(u)
    PROVE  SessionOf(u)' = SessionOf(u)
  BY SessionIs DEF Quiet

LEMMA Stutter ==
    ASSUME log' = log, \A u \in Threads : SessionOf(u)' = SessionOf(u)
    PROVE  UNCHANGED Store!storeVars
  BY DEF Store!storeVars

LEMMA OnlyOneMoves ==
    ASSUME TypeOK, NEW t \in Threads,
           (\E r \in Requests : Accept(t, r)) \/ Receive(t) \/ Serve(t),
           NEW u \in Threads, u # t
    PROVE  SessionOf(u)' = SessionOf(u)
  <1> USE DEF TypeOK, Quiet, GoTo
  <1>1. CASE \E r \in Requests : Accept(t, r)
    BY <1>1, QuietSession DEF Accept, locals
  <1>2. CASE Close(t)
    BY <1>2, QuietSession DEF Close
  <1>3. CASE RecvHeader(t) \/ RecvBody(t) \/ Route(t)
    BY <1>3, QuietSession DEF RecvHeader, RecvBody, Route, locals
  <1>4. CASE Lock(t) \/ Unlock(t)
    BY <1>4, QuietSession DEF Lock, Unlock
  <1>5. CASE PutFind(t) \/ PutStore(t) \/ PutPush(t)
    BY <1>5, QuietSession DEF PutFind, PutStore, PutPush, locals
  <1>6. CASE Scan(t) \/ ScanEnd(t) \/ Check(t)
    BY <1>6, QuietSession DEF Scan, ScanEnd, Check, locals
  <1> QED BY <1>1, <1>2, <1>3, <1>4, <1>5, <1>6 DEF Receive, RecvNothing, Serve, Send

(***************************************************************************)
(* The steps on the way that the store does not see.                       *)
(***************************************************************************)
LEMMA HiddenSteps ==
    ASSUME Inv, NEW t \in Threads,
           \/ \E r \in Requests : Accept(t, r)
           \/ RecvNothing(t) \/ RecvHeader(t) \/ Lock(t) \/ Unlock(t)
           \/ PutStore(t) \/ Scan(t) \/ Check(t)
    PROVE  SessionOf(t)' = SessionOf(t) /\ log' = log
  <1> USE DEF Inv, TypeInv, TypeOK, GoTo, table
  <1> DEFINE Was == SessionAs(pc[t], task[t], req[t], report[t], found[t], page[t]["data"])
             Is == SessionAs(pc'[t], task'[t], req'[t], report'[t], found'[t], page'[t]["data"])
  <1>0. SessionOf(t) = Was /\ SessionOf(t)' = Is
    BY SessionIs
  <1> HIDE DEF Was, Is
  <1>1. CASE (\E r \in Requests : Accept(t, r)) \/ RecvNothing(t) \/ RecvHeader(t)
    <2>1. pc[t] \in {"idle", "recv"} /\ log' = log /\ task'[t] \in {task[t], "none"}
      BY <1>1 DEF Accept, RecvNothing, RecvHeader, Close, locals
    <2>2. task[t] = "none" /\ task'[t] = "none"
      BY <2>1 DEF ControlOK
    <2> HIDE DEF Inv, TypeInv, TypeOK, table
    <2> QED BY <1>0, <2>1, <2>2, SessionAt DEF Was, Is
  <1>2. CASE Lock(t)
    <2>1. /\ pc[t] = "lock" /\ log' = log /\ task' = task /\ req' = req
          /\ report' = report
          /\ pc'[t] = IF task[t] = "put" THEN "find" ELSE "scan"
      BY <1>2 DEF Lock
    <2> HIDE DEF Inv, TypeInv, TypeOK, table
    <2> QED BY <1>0, <2>1, SessionAt DEF Was, Is
  <1>3. CASE Unlock(t)
    <2>1. /\ pc[t] = "unlock" /\ log' = log /\ task' = task /\ found' = found /\ page' = page
          /\ task[t] \in {"put", "data"} => pc'[t] = "send"
      BY <1>3 DEF Unlock
    <2> HIDE DEF Inv, TypeInv, TypeOK, table
    <2> QED BY <1>0, <2>1, SessionAt DEF Was, Is
  <1>4. CASE PutStore(t)
    <2>1. /\ pc[t] = "store" /\ pc'[t] = "push" /\ log' = log /\ task' = task /\ req' = req
          /\ report' = report
      BY <1>4 DEF PutStore, locals
    <2>2. task[t] = "put"
      BY <2>1 DEF ControlOK
    <2> HIDE DEF Inv, TypeInv, TypeOK, table
    <2> QED BY <1>0, <2>1, <2>2, SessionAt DEF Was, Is
  <1>5. CASE Scan(t)
    <2>1. pc[t] = "scan" /\ pc' = pc /\ log' = log /\ task' = task
      BY <1>5 DEF Scan
    <2>2. task[t] # "put"
      BY <2>1 DEF ControlOK, Sections
    <2> HIDE DEF Inv, TypeInv, TypeOK, table
    <2> QED BY <1>0, <2>1, <2>2, SessionAt DEF Was, Is
  <1>6. CASE Check(t)
    <2>1. /\ pc[t] = "check" /\ log' = log /\ task'[t] = NextSection(task[t])
      BY <1>6 DEF Check
    <2>2. task[t] \notin {"put", "data"} /\ task'[t] \notin {"put", "data"}
      BY <2>1 DEF ControlOK, NextSection
    <2> HIDE DEF Inv, TypeInv, TypeOK, table
    <2> QED BY <1>0, <2>1, <2>2, SessionAt DEF Was, Is
  <1> QED BY <1>1, <1>2, <1>3, <1>4, <1>5, <1>6

(***************************************************************************)
(* A body that parsed, or a request for /data, opens a session; the end of *)
(* the connection closes it.                                               *)
(***************************************************************************)
LEMMA BeginSteps ==
    ASSUME Inv, NEW t \in Threads, RecvBody(t) \/ Route(t)
    PROVE  /\ SessionOf(t) = Store!Idle /\ log' = log
           /\ SessionOf(t)' \in [op : {"report"}, id : ClientIds, report : Serials]
                               \union {[op |-> "query"], Store!Idle}
  <1>1. pc[t] \in {"body", "route"} /\ log' = log /\ req' = req /\ report' = report
    BY DEF RecvBody, Route, Inv, TypeInv, TypeOK, GoTo, table
  <1>2. task[t] = "none"
    BY <1>1 DEF ControlOK, Inv, TypeInv
  <1>3. SessionOf(t) = [op |-> "idle"]
    BY <1>2, SessionIs, SessionAt
  <1>4. \/ pc'[t] = "lock" /\ task'[t] = "put" /\ req[t].body \in ClientIds
        \/ pc'[t] = "lock" /\ task'[t] = "data"
        \/ task'[t] \notin {"put", "data"}
    BY <1>2 DEF RecvBody, Route, Inv, TypeInv, TypeOK, GoTo
  <1>5. CASE pc'[t] = "lock" /\ task'[t] = "put" /\ req[t].body \in ClientIds
    <2>1. SessionOf(t)' = [op |-> "report", id |-> req[t].body, report |-> report[t]]
      BY <1>1, <1>5, SessionIs, SessionAt
    <2>2. report[t] \in Serials
      BY DEF Inv, TypeInv, TypeOK
    <2> QED BY <1>1, <1>3, <1>5, <2>1, <2>2 DEF Store!Idle
  <1>6. CASE pc'[t] = "lock" /\ task'[t] = "data"
    <2>1. SessionOf(t)' = [op |-> "query"]
      BY <1>6, SessionIs, SessionAt
    <2> QED BY <1>1, <1>3, <2>1 DEF Store!Idle
  <1>7. CASE task'[t] \notin {"put", "data"}
    <2>1. SessionOf(t)' = [op |-> "idle"]
      BY <1>7, SessionIs, SessionAt
    <2> QED BY <1>1, <1>3, <2>1 DEF Store!Idle
  <1> QED BY <1>4, <1>5, <1>6, <1>7

LEMMA SendStep ==
    ASSUME Inv, NEW t \in Threads, Send(t)
    PROVE  /\ SessionOf(t)' = Store!Idle /\ log' = log
           /\ \/ SessionOf(t) = Store!Idle
              \/ SessionOf(t).op \in {"stored", "dropped", "answered"}
  <1>1. pc[t] = "send" /\ task'[t] = "none" /\ log' = log
    BY DEF Send, Close, Inv, TypeInv, TypeOK, GoTo, table
  <1>2. SessionOf(t)' = [op |-> "idle"]
    BY <1>1, SessionIs, SessionAt
  <1>3. CASE task[t] = "put"
    <2>1. SessionOf(t) = [op |-> IF found[t] = 0 THEN "dropped" ELSE "stored"]
      BY <1>1, <1>3, SessionIs, SessionAt
    <2> QED BY <1>1, <1>2, <2>1 DEF Store!Idle
  <1>4. CASE task[t] = "data"
    <2>1. SessionOf(t) = [op |-> "answered", view |-> ViewOf(page[t]["data"])]
      BY <1>1, <1>4, SessionIs, SessionAt
    <2> QED BY <1>1, <1>2, <2>1 DEF Store!Idle
  <1>5. CASE task[t] \notin {"put", "data"}
    <2>1. SessionOf(t) = [op |-> "idle"]
      BY <1>5, SessionIs, SessionAt
    <2> QED BY <1>1, <1>2, <2>1 DEF Store!Idle
  <1> QED BY <1>3, <1>4, <1>5

(***************************************************************************)
(* The search only matters to the store when it gives the report up.       *)
(***************************************************************************)
LEMMA FindStep ==
    ASSUME Inv, NEW t \in Threads, PutFind(t)
    PROVE  /\ log' = log /\ req[t].body \in ClientIds
           /\ SessionOf(t) = [op |-> "report", id |-> req[t].body, report |-> report[t]]
           /\ \/ SessionOf(t)' = SessionOf(t)
              \/ /\ SessionOf(t)' = [op |-> "dropped"]
                 /\ req[t].body \notin Store!Known
                 /\ Cardinality(Store!Known) = MAX_CLIENTS
  <1>1. /\ TypeOK /\ pc[t] = "find" /\ task' = task /\ req' = req /\ report' = report
        /\ pc \in [Threads -> Places] /\ found \in [Threads -> 0..MAX_CLIENTS]
    BY DEF PutFind, Inv, TypeInv, TypeOK
  <1>2. task[t] = "put" /\ req[t].body \in ClientIds
    BY <1>1 DEF Inv, TypeInv, ControlOK
  <1>3. log' = log
    BY <1>1, PutFindCases
  <1>4. SessionOf(t) = [op |-> "report", id |-> req[t].body, report |-> report[t]]
    BY <1>1, <1>2, SessionIs, SessionAt
  <1>5. CASE pc' = [pc EXCEPT ![t] = "store"]
    BY <1>1, <1>2, <1>3, <1>4, <1>5, SessionIs, SessionAt
  <1>6. CASE /\ pc' = [pc EXCEPT ![t] = "unlock"] /\ found' = [found EXCEPT ![t] = 0]
             /\ UNCHANGED <<clients, client_count>>
    <2>1. Dropped(t)'
      BY <1>1, <1>2, <1>6 DEF Dropped
    <2>2. FullOfOthers(t)'
      BY <2>1, FindDrops
    <2>3. FullOfOthers(t)
      BY <1>1, <1>6, <2>2 DEF FullOfOthers, Registered
    <2>4. SessionOf(t)' = [op |-> "dropped"]
      <3>1. pc'[t] = "unlock" /\ task'[t] = "put" /\ found'[t] = 0
        BY <1>1, <1>2, <1>6
      <3> QED BY <3>1, SessionIs, SessionAt
    <2> QED BY <1>2, <1>3, <1>4, <2>3, <2>4, DropIsFull
  <1> QED BY <1>1, <1>5, <1>6, PutFindCases

(***************************************************************************)
(* The push is where a report takes effect.                                *)
(***************************************************************************)
LEMMA PushStep ==
    ASSUME RefInv, NEW t \in Threads, PutPush(t)
    PROVE  LET c == req[t].body IN
             /\ c \in ClientIds /\ now \in Times
             /\ SessionOf(t) = [op |-> "report", id |-> c, report |-> report[t]]
             /\ SessionOf(t)' = [op |-> "stored"]
             /\ c \in Store!Known \/ Cardinality(Store!Known) < MAX_CLIENTS
             /\ log[c] # << >> => now >= log[c][Len(log[c])].time
             /\ log' = [log EXCEPT ![c] = Append(log[c], [report |-> report[t], time |-> now])]
  <1>1. /\ pc[t] = "push" /\ pc'[t] = "unlock" /\ task' = task /\ found' = found
        /\ log' = [log EXCEPT ![req[t].body] =
                     Append(log[req[t].body], [report |-> report[t], time |-> now])]
    BY DEF PutPush, GoTo, locals, RefInv, Inv, TypeInv, TypeOK
  <1>2. task[t] = "put" /\ req[t].body \in ClientIds /\ found[t] # 0 /\ now \in Times
    BY <1>1, SizesAssumption DEF RefInv, Inv, TypeInv, TypeOK, ControlOK
  <1>3. SessionOf(t) = [op |-> "report", id |-> req[t].body, report |-> report[t]]
    BY <1>1, <1>2, SessionIs, SessionAt
  <1>4. SessionOf(t)' = [op |-> "stored"]
    BY <1>1, <1>2, SessionIs, SessionAt
  <1>5. req[t].body \in Store!Known \/ Cardinality(Store!Known) < MAX_CLIENTS
    BY PushHasRoom DEF RefInv
  <1>6. log[req[t].body] # << >> => now >= log[req[t].body][Len(log[req[t].body])].time
    BY PushIsLater DEF RefInv
  <1> QED BY <1>1, <1>2, <1>3, <1>4, <1>5, <1>6

(***************************************************************************)
(* The end of a scan for /data is where a view is taken.                   *)
(***************************************************************************)
LEMMA ScanEndStep ==
    ASSUME RefInv, NEW t \in Threads, ScanEnd(t)
    PROVE  /\ log' = log
           /\ \/ SessionOf(t)' = SessionOf(t)
              \/ /\ SessionOf(t) = [op |-> "query"]
                 /\ SessionOf(t)' = [op |-> "answered", view |-> Store!View]
  <1>1. /\ pc[t] = "scan" /\ pc'[t] = "unlock" /\ task' = task /\ page' = page /\ log' = log
    BY DEF ScanEnd, GoTo, locals, table, RefInv, Inv, TypeInv, TypeOK
  <1>2. task[t] # "put"
    BY <1>1 DEF RefInv, Inv, TypeInv, ControlOK, Sections
  <1>3. CASE task[t] = "data"
    <2>1. SessionOf(t) = [op |-> "query"]
      BY <1>1, <1>3, SessionIs, SessionAt
    <2>2. SessionOf(t)' = [op |-> "answered", view |-> ViewOf(page[t]["data"])]
      BY <1>1, <1>3, SessionIs, SessionAt
    <2>3. ViewOf(page[t]["data"]) = Store!View
      BY <1>3, ScanIsView DEF RefInv
    <2> QED BY <1>1, <2>1, <2>2, <2>3
  <1>4. CASE task[t] # "data"
    <2>1. SessionOf(t) = [op |-> "idle"]
      BY <1>2, <1>4, SessionIs, SessionAt
    <2>2. SessionOf(t)' = [op |-> "idle"]
      BY <1>1, <1>2, <1>4, SessionIs, SessionAt
    <2> QED BY <1>1, <2>1, <2>2
  <1> QED BY <1>3, <1>4

-----------------------------------------------------------------------------
(* The refinement.                                                         *)

LEMMA RefInvCorrect == Spec => []RefInv
  BY InvCorrect, PagesCorrect, TimesInvCorrect, LatestCorrect, PTL DEF RefInv

LEMMA InitMaps == Init => Store!Init
  <1> SUFFICES ASSUME Init PROVE Store!Init
    OBVIOUS
  <1>1. ASSUME NEW t \in Threads PROVE SessionOf(t) = Store!Idle
    <2>1. task[t] = "none"
      BY DEF Init
    <2> QED BY <2>1, SessionIs, SessionAt DEF Store!Idle
  <1> QED BY <1>1 DEF Init, Store!Init

LEMMA StepMaps ==
    ASSUME RefInv, [Next]_vars
    PROVE  [Store!Next]_(Store!storeVars)
  <1> DEFINE sessions == [u \in Threads |-> SessionOf(u)]
  <1>1. CASE UNCHANGED vars
    <2>1. \A u \in Threads : SessionOf(u)' = SessionOf(u)
      BY <1>1, QuietSession DEF vars, locals, Quiet
    <2> QED BY <1>1, <2>1, Stutter DEF vars
  <1>2. CASE Tick
    <2>1. \A u \in Threads : SessionOf(u)' = SessionOf(u)
      BY <1>2, QuietSession DEF Tick, locals, Quiet
    <2> QED BY <1>2, <2>1, Stutter DEF Tick, table
  <1>3. ASSUME NEW t \in Threads, (\E r \in Requests : Accept(t, r)) \/ Receive(t) \/ Serve(t)
        PROVE  [Store!Next]_(Store!storeVars)
    <2>0. Inv /\ TypeOK
      BY DEF RefInv, Inv, TypeInv
    <2>1. sessions' = [sessions EXCEPT ![t] = SessionOf(t)'] /\ sessions[t] = SessionOf(t)
      BY <1>3, <2>0, OnlyOneMoves
    <2>2. CASE SessionOf(t)' = SessionOf(t) /\ log' = log
      BY <1>3, <2>0, <2>2, OnlyOneMoves, Stutter
    <2>3. CASE RecvBody(t) \/ Route(t)
      <3>1. CASE SessionOf(t)' = Store!Idle
        BY <2>0, <2>2, <2>3, <3>1, BeginSteps
      <3>2. CASE SessionOf(t)' # Store!Idle
        <4>1. Store!Begin(t)
          BY <2>0, <2>1, <2>3, <3>2, BeginSteps DEF Store!Begin
        <4> QED BY <4>1 DEF Store!Next
      <3> QED BY <3>1, <3>2
    <2>4. CASE Send(t)
      <3>1. CASE SessionOf(t) = Store!Idle
        BY <2>0, <2>2, <2>4, <3>1, SendStep
      <3>2. CASE SessionOf(t).op \in {"stored", "dropped", "answered"}
        <4>1. Store!Finish(t)
          BY <2>0, <2>1, <2>4, <3>2, SendStep DEF Store!Finish
        <4> QED BY <4>1 DEF Store!Next
      <3> QED BY <2>0, <2>4, <3>1, <3>2, SendStep
    <2>5. CASE ScanEnd(t)
      <3>1. CASE SessionOf(t) = [op |-> "query"]
                 /\ SessionOf(t)' = [op |-> "answered", view |-> Store!View]
        <4>1. Store!Answer(t)
          BY <2>1, <2>5, <3>1, ScanEndStep DEF Store!Answer
        <4> QED BY <4>1 DEF Store!Next
      <3> QED BY <2>2, <2>5, <3>1, ScanEndStep
    <2>6. CASE PutFind(t)
      <3>1. CASE SessionOf(t)' = SessionOf(t)
        BY <2>0, <2>2, <2>6, <3>1, FindStep
      <3>2. CASE SessionOf(t)' # SessionOf(t)
        <4>1. /\ sessions[t] = [op |-> "report", id |-> req[t].body, report |-> report[t]]
              /\ sessions' = [sessions EXCEPT ![t] = [op |-> "dropped"]]
              /\ log' = log /\ req[t].body \notin Store!Known
              /\ Cardinality(Store!Known) = MAX_CLIENTS
          BY <2>0, <2>1, <2>6, <3>2, FindStep
        <4>2. sessions[t].op = "report" /\ sessions[t].id = req[t].body
          BY <4>1
        <4>3. Store!Drop(t)
          BY <4>1, <4>2, SameCardinality, Zenon DEF Store!Drop
        <4> QED BY <4>3 DEF Store!Next
      <3> QED BY <3>1, <3>2
    <2>7. CASE PutPush(t)
      <3>1. Store!Store(t)
        <4> DEFINE c == req[t].body
                   entry == [report |-> report[t], time |-> now]
        <4>1. /\ c \in ClientIds /\ now \in Times
              /\ SessionOf(t) = [op |-> "report", id |-> c, report |-> report[t]]
              /\ SessionOf(t)' = [op |-> "stored"]
              /\ c \in Store!Known \/ Cardinality(Store!Known) < MAX_CLIENTS
              /\ log[c] # << >> => now >= log[c][Len(log[c])].time
              /\ log' = [log EXCEPT ![c] = Append(log[c], entry)]
          BY <2>7, PushStep
        <4>2. /\ sessions[t].op = "report" /\ sessions[t].id = c
              /\ sessions[t].report = report[t]
              /\ sessions' = [sessions EXCEPT ![t] = [op |-> "stored"]]
          <5> HIDE DEF c
          <5> QED BY <2>1, <4>1
        <4>3. \E instant \in Times :
                /\ log[c] # << >> => instant >= log[c][Len(log[c])].time
                /\ log' = [log EXCEPT ![c] =
                             Append(log[c], [report |-> sessions[t].report, time |-> instant])]
          <5> HIDE DEF c, sessions
          <5> QED BY <4>1, <4>2
        <4>4. LET d == sessions[t].id IN
                /\ d \in Store!Known \/ Cardinality(Store!Known) < MAX_CLIENTS
                /\ \E instant \in Times :
                     /\ log[d] # << >> => instant >= log[d][Len(log[d])].time
                     /\ log' = [log EXCEPT ![d] =
                                  Append(log[d], [report |-> sessions[t].report, time |-> instant])]
          <5> HIDE DEF c, sessions
          <5> QED BY <4>1, <4>2, <4>3
        <4> QED BY <4>2, <4>4, SameCardinality, Zenon DEF Store!Store
      <3> QED BY <3>1 DEF Store!Next
    <2> QED BY <1>3, <2>0, <2>2, <2>3, <2>4, <2>5, <2>6, <2>7, HiddenSteps DEF Receive, Serve
  <1> QED BY <1>1, <1>2, <1>3 DEF Next

(***************************************************************************)
(* Whatever threads serve it and however their steps interleave, the C     *)
(* server behaves as the store: a report takes effect at one instant or is *)
(* turned away from a full table, and every /data answer is the view of    *)
(* one instant between request and answer.                                 *)
(***************************************************************************)
THEOREM StoreImplemented == Spec => ImplementsStore
  <1>1. RefInv /\ [Next]_vars => [Store!Next]_(Store!storeVars)
    BY StepMaps
  <1> QED BY <1>1, InitMaps, RefInvCorrect, PTL DEF Spec, ImplementsStore, Store!Spec

=============================================================================
