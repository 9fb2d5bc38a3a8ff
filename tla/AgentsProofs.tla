---------------------------- MODULE AgentsProofs ----------------------------
(***************************************************************************)
(* Proofs about clients and servers, for any number of them, of histories  *)
(* and of crashes: a report is stored at most once, and reports are stored *)
(* in the order of their collection.                                       *)
(***************************************************************************)
EXTENDS Agents, SequenceTheorems, FiniteSetTheorems, TLAPS

(***************************************************************************)
(* The command line does not name a server twice.                          *)
(***************************************************************************)
UrlsDiffer == \A i, j \in 1..Len(Urls) : Urls[i] = Urls[j] => i = j

-----------------------------------------------------------------------------
(* Types.                                                                  *)

Active(a) == agent[a].pc \in {"send", "wait"}

(***************************************************************************)
(* A client waits on a connection to one of its servers, and in a round of *)
(* sending has one of the reports made so far.                             *)
(***************************************************************************)
AgentOK(a) ==
    /\ agent[a].wire # "none" <=> agent[a].pc = "wait"
    /\ agent[a].pc = "wait" => agent[a].next <= Len(Urls)
    /\ Active(a) => agent[a].report <= made

AgentsOK == \A a \in Agents : AgentOK(a)

StoreType ==
    \A s \in Servers :
      /\ DOMAIN store[s] \subseteq ClientIds
      /\ IsFiniteSet(DOMAIN store[s])
      /\ Cardinality(DOMAIN store[s]) <= MAX_CLIENTS
      /\ \A c \in DOMAIN store[s] :
           store[s][c] \in Seq(Entry) /\ Len(store[s][c]) \in 1..HISTORY_SIZE

RestType ==
    /\ up \in [Servers -> BOOLEAN]
    /\ store = [s \in Servers |-> store[s]]
    /\ threads \subseteq Thread
    /\ agent \in [Agents -> Agent]
    /\ made \in 0..MaxReports
    /\ abandoned \subseteq Serials
    /\ visit \in [Viewers -> Visit]

TypeInv == RestType /\ StoreType /\ AgentsOK

LEMMA InitType == Init => TypeInv
  <1> SUFFICES ASSUME Init PROVE TypeInv
    OBVIOUS
  <1>1. \A a \in Agents : (CHOOSE c \in IdsOf(a) : TRUE) \in ClientIds
    BY NamesAssumption
  <1>2. (CHOOSE s \in Servers : TRUE) \in Servers
    BY NamesAssumption
  <1>3. Len(Urls) \in Nat
    BY NamesAssumption
  <1>4. agent \in [Agents -> Agent]
    <2>1. 1 \in Serials /\ 1 \in 1..(Len(Urls) + 1)
      BY <1>3, SizesAssumption DEF Serials
    <2>2. ASSUME NEW a \in Agents, NEW c \in ClientIds
          PROVE  [pc |-> "dead", id |-> c, report |-> 1, next |-> 1, wire |-> "none"] \in Agent
      BY <2>1 DEF Agent
    <2> QED BY <1>1, <2>2 DEF Init
  <1>5. visit \in [Viewers -> Visit]
    BY <1>2 DEF Init, Visit
  <1>6. RestType
    BY <1>4, <1>5, SizesAssumption, SMTT(30) DEF Init, RestType
  <1>7. StoreType
    <2>1. DOMAIN EmptyMap = {}
      BY DEF EmptyMap
    <2>2. IsFiniteSet({}) /\ Cardinality({}) = 0
      BY FS_EmptySet
    <2> QED BY <2>1, <2>2, SizesAssumption DEF Init, StoreType
  <1>8. AgentsOK
    BY DEF Init, AgentsOK, AgentOK, Active
  <1> QED BY <1>6, <1>7, <1>8 DEF TypeInv

(***************************************************************************)
(* What Push makes of a history: perhaps without its first report, and     *)
(* with the new one at its end.                                            *)
(***************************************************************************)
LEMMA PushShape ==
    ASSUME NEW r \in Seq(Entry), Len(r) \in 0..HISTORY_SIZE, NEW e \in Entry
    PROVE  LET p == Push(r, e)
               d == IF Len(r) >= HISTORY_SIZE THEN 1 ELSE 0
           IN  /\ p \in Seq(Entry) /\ Len(p) = Len(r) - d + 1
               /\ Len(p) \in 1..HISTORY_SIZE
               /\ \A k \in 1..(Len(r) - d) : p[k] = r[k + d]
               /\ p[Len(p)] = e
  <1> DEFINE d == IF Len(r) >= HISTORY_SIZE THEN 1 ELSE 0
             q == IF Len(r) >= HISTORY_SIZE THEN Tail(r) ELSE r
  <1>1. Len(r) \in Nat /\ HISTORY_SIZE \in Nat \ {0} /\ Len(r) <= HISTORY_SIZE
    BY SizesAssumption
  <1>2. q \in Seq(Entry) /\ Len(q) = Len(r) - d /\ \A k \in 1..(Len(r) - d) : q[k] = r[k + d]
    <2>1. CASE Len(r) >= HISTORY_SIZE
      <3>1. r # << >>
        BY <1>1, <2>1
      <3> QED BY <1>1, <2>1, <3>1, HeadTailProperties
    <2>2. CASE ~ Len(r) >= HISTORY_SIZE
      BY <1>1, <2>2
    <2> QED BY <2>1, <2>2
  <1>3. Len(q) \in Nat /\ Len(q) < HISTORY_SIZE
    BY <1>1, <1>2
  <1>4. Push(r, e) = Append(q, e)
    BY DEF Push
  <1> HIDE DEF q
  <1>5. /\ Append(q, e) \in Seq(Entry) /\ Len(Append(q, e)) = Len(q) + 1
        /\ \A k \in 1..Len(q) : Append(q, e)[k] = q[k]
        /\ Append(q, e)[Len(q) + 1] = e
    BY <1>2, <1>3, AppendProperties
  <1> QED BY <1>1, <1>2, <1>3, <1>4, <1>5

(***************************************************************************)
(* Store adds one report to one history, or nothing at all.                *)
(***************************************************************************)
LEMMA StoreStep ==
    ASSUME TypeInv, NEW th \in threads, Store(th)
    PROVE  LET s == th.server
               e == [agent |-> th.agent, report |-> th.report]
           IN  /\ s \in Servers /\ th.id \in ClientIds /\ e \in Entry
               /\ Reports(s, th.id) \in Seq(Entry)
               /\ Len(Reports(s, th.id)) \in 0..HISTORY_SIZE
               /\ \/ store' = store
                  \/ /\ HasRoom(s, th.id)
                     /\ store' = [u \in Servers |-> store'[u]]
                     /\ \A u \in Servers : u # s => store'[u] = store[u]
                     /\ DOMAIN store'[s] = DOMAIN store[s] \union {th.id}
                     /\ \A c \in DOMAIN store[s] : c # th.id => store'[s][c] = store[s][c]
                     /\ store'[s][th.id] = Push(Reports(s, th.id), e)
  <1> DEFINE s == th.server
             e == [agent |-> th.agent, report |-> th.report]
  <1>1. th \in Thread
    BY DEF TypeInv, RestType
  <1>2. s \in Servers /\ th.id \in ClientIds /\ e \in Entry
    BY <1>1 DEF Thread, Entry
  <1>3. Reports(s, th.id) \in Seq(Entry) /\ Len(Reports(s, th.id)) \in 0..HISTORY_SIZE
    <2>1. CASE th.id \in DOMAIN store[s]
      BY <1>2, <2>1, SizesAssumption DEF TypeInv, StoreType, Reports
    <2>2. CASE th.id \notin DOMAIN store[s]
      BY <2>2, SizesAssumption DEF Reports
    <2> QED BY <2>1, <2>2
  <1>4. CASE ~ HasRoom(s, th.id)
    BY <1>2, <1>3, <1>4 DEF Store
  <1>5. CASE HasRoom(s, th.id)
    <2> DEFINE new == [c \in DOMAIN store[s] \union {th.id} |->
                         IF c = th.id THEN Push(Reports(s, c), e) ELSE store[s][c]]
    <2>1. store' = [store EXCEPT ![s] = new]
      BY <1>5 DEF Store
    <2>2. store = [u \in Servers |-> store[u]]
      BY DEF TypeInv, RestType
    <2>3. /\ store' = [u \in Servers |-> IF u = s THEN new ELSE store[u]]
      <3> HIDE DEF new, s
      <3> QED BY <2>1, <2>2
    <2>4. /\ store'[s] = new /\ store' = [u \in Servers |-> store'[u]]
          /\ \A u \in Servers : u # s => store'[u] = store[u]
      <3> HIDE DEF new, s
      <3> QED BY <1>2, <2>3
    <2>5. /\ DOMAIN new = DOMAIN store[s] \union {th.id}
          /\ \A c \in DOMAIN store[s] : c # th.id => new[c] = store[s][c]
          /\ new[th.id] = Push(Reports(s, th.id), e)
      OBVIOUS
    <2> HIDE DEF new, s, e
    <2> QED BY <1>2, <1>3, <1>5, <2>4, <2>5 DEF s, e
  <1> QED BY <1>4, <1>5

\* The steps of one client's process and its connection.
Acts(a) == StartAgent(a) \/ StopAgent(a) \/ Work(a) \/ Lose(a)

\* The steps that only concern browsers, or start a server.
Aside ==
    \/ \E s \in Servers : StartServer(s)
    \/ \E v \in Viewers : Leave(v) \/ SendHeader(v) \/ \E s \in Servers : Ask(v, s)
    \/ /\ UNCHANGED <<up, store, threads, agent, abandoned, made>>
       /\ visit' \in [Viewers -> Visit]

LEMMA Steps ==
    ASSUME TypeInv, [Next]_vars
    PROVE  \/ \E a \in Agents : Acts(a)
           \/ \E th \in threads : Store(th) \/ Reply(th)
           \/ \E s \in Servers : Ends(s) /\ UNCHANGED <<made, abandoned>>
           \/ Aside
  <1>1. CASE UNCHANGED vars
    BY <1>1 DEF vars, counters, Aside, TypeInv, RestType
  <1>2. ASSUME NEW s \in Servers, Stop(s) \/ StartServer(s)
        PROVE  (Ends(s) /\ UNCHANGED <<made, abandoned>>) \/ Aside
    BY <1>2 DEF Stop, Aside
  <1>3. ASSUME NEW s \in Servers, NEW a \in Agents, ServeAgent(s, a)
        PROVE  \E th \in threads : Store(th) \/ Reply(th)
    BY <1>3 DEF ServeAgent
  <1>4. ASSUME NEW s \in Servers, NEW v \in Viewers, Ask(v, s) \/ ServeViewer(s, v)
        PROVE  (Ends(s) /\ UNCHANGED <<made, abandoned>>) \/ Aside
    <2>1. CASE Ask(v, s) \/ SendHeader(v)
      BY <2>1 DEF Aside
    <2>2. CASE SendBody(v) /\ visit[v].server = s
      <3>1. CASE Ends(s)
        BY <2>2, <3>1 DEF SendBody, counters
      <3>2. CASE ~ Ends(s)
        <4>1. visit' = [visit EXCEPT ![v].state = "none"] /\ UNCHANGED <<up, store, threads, agent>>
          BY <2>2, <3>2 DEF SendBody
        <4>2. visit' \in [Viewers -> Visit]
          BY <4>1 DEF TypeInv, RestType, Visit
        <4> QED BY <2>2, <4>1, <4>2 DEF SendBody, counters, Aside
      <3> QED BY <3>1, <3>2
    <2> QED BY <1>4, <2>1, <2>2 DEF ServeViewer
  <1>5. ASSUME NEW v \in Viewers, Leave(v)
        PROVE  Aside
    BY <1>5 DEF Aside
  <1> QED BY <1>1, <1>2, <1>3, <1>4, <1>5 DEF Next, Acts

(***************************************************************************)
(* The steps of one client's process, and what may become of its state: a  *)
(* round ends or a process starts or stops; a new report is made; the next *)
(* URL's turn comes; a connection is opened; it breaks.                    *)
(***************************************************************************)
Rests(x) == x.pc \in {"dead", "collect", "sleep"} /\ x.wire = "none"

Begins(x) ==
    /\ x.pc = "send" /\ x.wire = "none" /\ x.report = made'
    /\ made' = made + 1 \/ (made' = made /\ made = MaxReports)

Advances(p, x) ==
    /\ p.pc \in {"send", "wait"} /\ p.wire # "open" /\ p.next <= Len(Urls)
    /\ x = [p EXCEPT !.pc = "send", !.wire = "none", !.next = p.next + 1]

Opens(p, x) ==
    /\ p.pc = "send" /\ p.wire = "none" /\ p.next <= Len(Urls)
    /\ x = [p EXCEPT !.pc = "wait", !.wire = "open"]

Hears(p, x, wire) == p.wire = "open" /\ x = [p EXCEPT !.wire = wire]

Becomes(a, x) ==
    /\ x \in Agent
    /\ agent'[a] = x
    /\ agent' \in [Agents -> Agent]
    /\ \A b \in Agents : b # a => agent'[b] = agent[b]

LEMMA PutAgent ==
    ASSUME agent \in [Agents -> Agent], NEW a \in Agents, NEW x \in Agent,
           agent' = [agent EXCEPT ![a] = x]
    PROVE  Becomes(a, x)
  BY DEF Becomes

LEMMA Moves ==
    ASSUME TypeInv, NEW a \in Agents, Acts(a)
    PROVE  /\ made' \in 0..MaxReports /\ made <= made'
           /\ \E x \in Agent :
                /\ Becomes(a, x)
                /\ \/ Rests(x) /\ made' = made
                   \/ Begins(x)
                   \/ Advances(agent[a], x) /\ made' = made
                   \/ Opens(agent[a], x) /\ Send(a) /\ made' = made
                   \/ Hears(agent[a], x, "lost") /\ Lose(a) /\ made' = made
  <1> DEFINE p == agent[a]
             Shape(x) ==
               \/ Rests(x) /\ made' = made
               \/ Begins(x)
               \/ Advances(p, x) /\ made' = made
               \/ Opens(p, x) /\ Send(a) /\ made' = made
               \/ Hears(p, x, "lost") /\ Lose(a) /\ made' = made
  <1>1. /\ p \in Agent /\ Len(Urls) \in Nat /\ p.report \in Serials /\ p.id \in ClientIds
        /\ p.next \in 1..(Len(Urls) + 1) /\ MaxReports \in Nat \ {0}
        /\ made \in 0..MaxReports /\ agent \in [Agents -> Agent]
    BY NamesAssumption, SizesAssumption DEF Agent, TypeInv, RestType
  <1>2. (p.wire # "none" <=> p.pc = "wait") /\ (p.pc = "wait" => p.next <= Len(Urls))
    BY DEF TypeInv, AgentsOK, AgentOK
  <1>3. made' \in 0..MaxReports /\ made <= made'
    <2>1. made' = made \/ made' = IF made < MaxReports THEN made + 1 ELSE made
      BY DEF Acts, Work, StartAgent, StopAgent, Collect, Send, Result, Sleep, Wake, Lose, counters
    <2> QED BY <1>1, <2>1
  <1> SUFFICES \E x \in Agent : agent' = [agent EXCEPT ![a] = x] /\ Shape(x)
    <2> HIDE DEF Shape
    <2>1. ASSUME NEW x \in Agent, agent' = [agent EXCEPT ![a] = x], Shape(x)
          PROVE  \E y \in Agent : Becomes(a, y) /\ Shape(y)
      BY <1>1, <2>1, PutAgent
    <2> QED BY <1>3, <2>1 DEF Shape
  <1>4. CASE StartAgent(a)
    <2>1. PICK c \in ClientIds : agent' = [agent EXCEPT ![a].pc = "collect", ![a].id = c]
      BY <1>4, NamesAssumption DEF StartAgent
    <2> DEFINE x == [p EXCEPT !.pc = "collect", !.id = c]
    <2>2. agent' = [agent EXCEPT ![a] = x] /\ made' = made /\ p.pc = "dead"
      BY <1>4, <2>1 DEF StartAgent, counters
    <2>3. x \in Agent /\ Rests(x)
      BY <1>1, <1>2, <2>2 DEF Agent, Rests
    <2>4. x \in Agent /\ Shape(x)
      BY <1>1, <2>2, <2>3
    <2> HIDE DEF x, Shape
    <2> QED BY <1>1, <2>2, <2>3, <2>4
  <1>5. CASE StopAgent(a)
    <2> DEFINE x == [p EXCEPT !.pc = "dead", !.wire = "none"]
    <2>1. agent' = [agent EXCEPT ![a] = x] /\ made' = made
      BY <1>5 DEF StopAgent
    <2>2. x \in Agent /\ Rests(x)
      BY <1>1 DEF Agent, Rests
    <2>3. x \in Agent /\ Shape(x)
      BY <1>1, <2>1, <2>2
    <2> HIDE DEF x, Shape
    <2> QED BY <1>1, <2>1, <2>2, <2>3
  <1>6. CASE Collect(a)
    <2> DEFINE x == [p EXCEPT !.pc = "send", !.report = made', !.next = 1]
    <2>1. /\ p.pc = "collect" /\ agent' = [agent EXCEPT ![a] = x]
          /\ made' = IF made < MaxReports THEN made + 1 ELSE made
      BY <1>6 DEF Collect
    <2>2. /\ made' \in Serials /\ 1 \in 1..(Len(Urls) + 1)
          /\ made' = made + 1 \/ (made' = made /\ made = MaxReports)
      <3> HIDE DEF x
      <3> QED BY <1>1, <2>1 DEF Serials
    <2>3. x \in Agent /\ Begins(x)
      BY <1>1, <1>2, <2>1, <2>2 DEF Agent, Begins
    <2>4. x \in Agent /\ Shape(x)
      BY <1>1, <2>1, <2>3
    <2> HIDE DEF x, Shape
    <2> QED BY <1>1, <2>1, <2>3, <2>4
  <1>7. CASE Send(a) /\ agent' = [agent EXCEPT ![a].pc = "wait", ![a].wire = "open"]
    <2> DEFINE x == [p EXCEPT !.pc = "wait", !.wire = "open"]
    <2>1. /\ agent' = [agent EXCEPT ![a] = x] /\ made' = made
          /\ p.pc = "send" /\ p.next <= Len(Urls)
      BY <1>7 DEF Send, counters
    <2>2. x \in Agent /\ Opens(p, x)
      BY <1>1, <1>2, <2>1 DEF Agent, Opens
    <2>3. x \in Agent /\ Shape(x)
      BY <1>1, <1>7, <2>1, <2>2
    <2> HIDE DEF x, Shape
    <2> QED BY <1>1, <1>7, <2>1, <2>2, <2>3
  <1>8. CASE Send(a) /\ agent' = [agent EXCEPT ![a].next = p.next + 1]
    <2> DEFINE x == [p EXCEPT !.pc = "send", !.wire = "none", !.next = p.next + 1]
    <2>1. made' = made /\ p.pc = "send" /\ p.next <= Len(Urls) /\ p.wire = "none"
      <3>1. made' = made /\ p.pc = "send" /\ p.next <= Len(Urls)
        BY <1>8 DEF Send, counters
      <3> HIDE DEF p
      <3> QED BY <1>2, <3>1
    <2>2. [p EXCEPT !.next = p.next + 1] = x
      BY <1>1, <2>1 DEF Agent
    <2>3. agent' = [agent EXCEPT ![a] = x]
      <3>1. agent' = [agent EXCEPT ![a] = [p EXCEPT !.next = p.next + 1]]
        BY <1>8
      <3> HIDE DEF x, p
      <3> QED BY <2>2, <3>1
    <2>4. x \in Agent /\ Advances(p, x)
      <3>1. p.next + 1 \in 1..(Len(Urls) + 1)
        <4> HIDE DEF p
        <4> QED BY <1>1, <2>1
      <3>2. x \in Agent
        BY <1>1, <3>1 DEF Agent
      <3> QED BY <2>1, <3>2 DEF Advances
    <2>5. x \in Agent /\ Shape(x)
      BY <1>1, <2>1, <2>3, <2>4
    <2> HIDE DEF x, Shape
    <2> QED BY <1>1, <2>1, <2>3, <2>4, <2>5
  <1>9. CASE Result(a)
    <2> DEFINE x == [p EXCEPT !.pc = "send", !.wire = "none", !.next = p.next + 1]
    <2>1. /\ made' = made /\ p.pc = "wait" /\ p.next <= Len(Urls) /\ p.wire # "open"
      <3>1. made' = made /\ p.pc = "wait" /\ p.wire \in {"ok", "lost"}
        BY <1>9 DEF Result, counters
      <3> HIDE DEF p
      <3> QED BY <1>2, <3>1
    <2>2. agent' = [agent EXCEPT ![a] = x]
      BY <1>9 DEF Result, NextUrl
    <2>3. x \in Agent /\ Advances(p, x)
      <3>1. p.next + 1 \in 1..(Len(Urls) + 1)
        <4> HIDE DEF p
        <4> QED BY <1>1, <2>1
      <3>2. x \in Agent
        BY <1>1, <3>1 DEF Agent
      <3> QED BY <2>1, <3>2 DEF Advances
    <2>4. x \in Agent /\ Shape(x)
      BY <1>1, <2>1, <2>2, <2>3
    <2> HIDE DEF x, Shape
    <2> QED BY <1>1, <2>1, <2>2, <2>3, <2>4
  <1>10. ASSUME NEW at \in {"collect", "sleep"}, p.pc \in {"send", "sleep"},
                agent' = [agent EXCEPT ![a].pc = at], made' = made
         PROVE  \E x \in Agent : agent' = [agent EXCEPT ![a] = x] /\ Shape(x)
    <2> DEFINE x == [p EXCEPT !.pc = at]
    <2>1. agent' = [agent EXCEPT ![a] = x]
      BY <1>10
    <2>2. x \in Agent /\ Rests(x)
      BY <1>1, <1>2, <1>10 DEF Agent, Rests
    <2>3. x \in Agent /\ Shape(x)
      BY <1>10, <2>1, <2>2
    <2> HIDE DEF x, Shape
    <2> QED BY <1>1, <1>10, <2>1, <2>2, <2>3
  <1>11. CASE Sleep(a) \/ Wake(a)
    <2>1. made' = made
      BY <1>11 DEF Sleep, Wake, counters
    <2>2. \E x \in Agent : agent' = [agent EXCEPT ![a] = x] /\ Shape(x)
      BY <1>10, <1>11, <2>1 DEF Sleep, Wake
    <2> HIDE DEF Shape
    <2> QED BY <1>1, <2>1, <2>2
  <1>12. CASE Lose(a)
    <2> DEFINE x == [p EXCEPT !.wire = "lost"]
    <2>1. /\ agent' = [agent EXCEPT ![a] = x] /\ made' = made /\ p.wire = "open"
      BY <1>12 DEF Lose, counters
    <2>2. x \in Agent /\ Hears(p, x, "lost")
      BY <1>1, <2>1 DEF Agent, Hears
    <2>3. x \in Agent /\ Shape(x)
      BY <1>1, <1>12, <2>1, <2>2
    <2> HIDE DEF x, Shape
    <2> QED BY <1>1, <1>12, <2>1, <2>2, <2>3
  <1>13. Send(a) => \/ agent' = [agent EXCEPT ![a].pc = "wait", ![a].wire = "open"]
                    \/ agent' = [agent EXCEPT ![a].next = p.next + 1]
    BY DEF Send
  <1> HIDE DEF Shape
  <1> QED BY <1>4, <1>5, <1>6, <1>7, <1>8, <1>9, <1>11, <1>12, <1>13 DEF Acts, Work

LEMMA MoveTypes ==
    ASSUME TypeInv, NEW a \in Agents, Acts(a)
    PROVE  agent' \in [Agents -> Agent] /\ AgentsOK'
  <1> DEFINE p == agent[a]
  <1>1. /\ p \in Agent /\ Len(Urls) \in Nat /\ p.report \in Serials
        /\ p.next \in 1..(Len(Urls) + 1) /\ MaxReports \in Nat \ {0}
        /\ made \in 0..MaxReports /\ made' \in 0..MaxReports /\ made <= made'
    BY Moves, NamesAssumption, SizesAssumption DEF Agent, TypeInv, RestType
  <1>2. PICK x \in Agent :
          /\ Becomes(a, x)
          /\ \/ Rests(x) \/ Begins(x) 
             \/ Advances(p, x) \/ Opens(p, x) \/ Hears(p, x, "lost")
    BY Moves
  <1>3. AgentOK(a)
    BY DEF TypeInv, AgentsOK
  <1>4. AgentOK(a)'
    <2> HIDE DEF p
    <2>1. SUFFICES /\ x.wire # "none" <=> x.pc = "wait"
                   /\ x.pc = "wait" => x.next <= Len(Urls)
                   /\ x.pc \in {"send", "wait"} => x.report <= made'
      BY <1>2, <2>1 DEF Becomes, AgentOK, Active
    <2>2. CASE Rests(x)
      BY <2>2 DEF Rests
    <2>3. CASE Begins(x)
      BY <1>1, <2>3 DEF Begins
    <2>4. CASE Advances(p, x) \/ Opens(p, x) \/ Hears(p, x, "lost")
      <3>1. p.pc \in {"send", "wait"} => p.report <= made'
        BY <1>1, <1>3 DEF AgentOK, Active, p, Serials
      <3> QED BY <1>1, <1>3, <2>4, <3>1 DEF Advances, Opens, Hears, AgentOK, Active, p, Agent
    <2> QED BY <1>2, <2>2, <2>3, <2>4
  <1>5. ASSUME NEW b \in Agents, b # a PROVE AgentOK(b)'
    <2>1. agent'[b] = agent[b] /\ agent[b].report \in Serials /\ AgentOK(b)
      BY <1>2, <1>5 DEF Becomes, TypeInv, RestType, Agent, AgentsOK
    <2> QED BY <1>1, <2>1 DEF AgentOK, Active, Serials
  <1> QED BY <1>2, <1>4, <1>5 DEF Becomes, AgentsOK

LEMMA AsideTypes ==
    ASSUME TypeInv, Aside
    PROVE  UNCHANGED <<store, threads, agent, abandoned, made>> /\ TypeInv'
  <1>1. UNCHANGED <<store, threads, agent, abandoned, made>>
    BY DEF Aside, StartServer, Ask, Leave, SendHeader, counters
  <1>2. up \in [Servers -> BOOLEAN] /\ visit \in [Viewers -> Visit]
    BY DEF TypeInv, RestType
  <1>3. up' \in [Servers -> BOOLEAN]
    BY <1>2 DEF Aside, StartServer, Ask, Leave, SendHeader
  <1>4. visit' \in [Viewers -> Visit]
    <2>1. ASSUME NEW v \in Viewers, NEW s \in Servers, Ask(v, s)
          PROVE  visit' \in [Viewers -> Visit]
      <3>1. [server |-> s, state |-> "asked", gone |-> FALSE] \in Visit
        BY DEF Visit
      <3> QED BY <1>2, <2>1, <3>1 DEF Ask
    <2>2. ASSUME NEW v \in Viewers, Leave(v) \/ SendHeader(v)
          PROVE  visit' \in [Viewers -> Visit]
      BY <1>2, <2>2, ZenonT(60) DEF Leave, SendHeader, Visit
    <2>3. ASSUME NEW s \in Servers, StartServer(s)
          PROVE  visit' = visit
      BY <2>3 DEF StartServer
    <2> QED BY <1>2, <2>1, <2>2, <2>3 DEF Aside
  <1>5. StoreType' /\ AgentsOK'
    BY <1>1 DEF TypeInv, StoreType, AgentsOK, AgentOK, Active
  <1> QED BY <1>1, <1>3, <1>4, <1>5 DEF TypeInv, RestType

LEMMA ActTypes ==
    ASSUME TypeInv, NEW a \in Agents, Acts(a)
    PROVE  TypeInv'
  <1>1. UNCHANGED <<up, store, visit>>
    BY DEF Acts, Work, StartAgent, StopAgent, Collect, Send, Result, Sleep, Wake, Lose
  <1>2. /\ abandoned \subseteq Serials /\ threads \subseteq Thread /\ agent[a] \in Agent
        /\ Urls \in Seq(Servers) /\ AgentOK(a)
    BY NamesAssumption DEF TypeInv, RestType, AgentsOK
  <1>3. abandoned' \subseteq Serials
    BY <1>2 DEF Acts, Work, StartAgent, StopAgent, Collect, Send, Result, Sleep, Wake, Lose,
                Abandon, Agent
  <1>4. threads' \subseteq Thread
    <2>1. CASE Send(a)
      <3>1. agent[a].next \in 1..Len(Urls) /\ agent[a].id \in ClientIds
            /\ agent[a].report \in Serials
        BY <1>2, <2>1 DEF Send, Agent
      <3>2. Urls[agent[a].next] \in Servers
        BY <1>2, <3>1
      <3> QED BY <1>2, <2>1, <3>1, <3>2 DEF Send, Thread
    <2>2. CASE ~ Send(a)
      <3>1. threads' \subseteq threads
        BY <2>2 DEF Acts, Work, StartAgent, StopAgent, Collect, Result, Sleep, Wake, Lose
      <3> QED BY <1>2, <3>1
    <2> QED BY <2>1, <2>2
  <1>5. StoreType'
    BY <1>1 DEF TypeInv, StoreType
  <1>6. made' \in 0..MaxReports /\ agent' \in [Agents -> Agent] /\ AgentsOK'
    BY Moves, MoveTypes
  <1> QED BY <1>1, <1>3, <1>4, <1>5, <1>6 DEF TypeInv, RestType

(***************************************************************************)
(* An answer changes its client's connection, if that is still waiting.    *)
(***************************************************************************)
LEMMA Replies ==
    ASSUME TypeInv, NEW th \in threads, Reply(th)
    PROVE  /\ th.agent \in Agents
           /\ \/ agent' = agent
              \/ /\ IsWaiting(th)
                 /\ \E x \in Agent : Becomes(th.agent, x) /\ Hears(agent[th.agent], x, "ok")
  <1> DEFINE x == [agent[th.agent] EXCEPT !.wire = "ok"]
  <1>1. /\ th.agent \in Agents /\ agent \in [Agents -> Agent]
    BY DEF TypeInv, RestType, Thread
  <1>2. CASE IsWaiting(th)
    <2>1. agent' = [agent EXCEPT ![th.agent] = x]
      BY <1>1, <1>2 DEF Reply
    <2>2. x \in Agent /\ Hears(agent[th.agent], x, "ok")
      BY <1>1, <1>2 DEF Agent, Hears, IsWaiting
    <2> HIDE DEF x
    <2> QED BY <1>1, <1>2, <2>1, <2>2, PutAgent
  <1> QED BY <1>1, <1>2 DEF Reply

LEMMA StoreTypes ==
    ASSUME TypeInv, NEW th \in threads, Store(th)
    PROVE  store' = [u \in Servers |-> store'[u]] /\ StoreType'
  <1> DEFINE s == th.server
             e == [agent |-> th.agent, report |-> th.report]
  <1>1. CASE store' = store
    BY <1>1 DEF TypeInv, RestType, StoreType
  <1>2. CASE store' # store
    <2>1. /\ s \in Servers /\ th.id \in ClientIds /\ HasRoom(s, th.id)
          /\ store' = [u \in Servers |-> store'[u]]
          /\ \A u \in Servers : u # s => store'[u] = store[u]
          /\ DOMAIN store'[s] = DOMAIN store[s] \union {th.id}
          /\ \A c \in DOMAIN store[s] : c # th.id => store'[s][c] = store[s][c]
          /\ store'[s][th.id] = Push(Reports(s, th.id), e)
          /\ Reports(s, th.id) \in Seq(Entry) /\ Len(Reports(s, th.id)) \in 0..HISTORY_SIZE
          /\ e \in Entry
      BY <1>2, StoreStep
    <2> HIDE DEF s, e
    <2>2. store'[s][th.id] \in Seq(Entry) /\ Len(store'[s][th.id]) \in 1..HISTORY_SIZE
      BY <2>1, PushShape
    <2>3. /\ IsFiniteSet(DOMAIN store[s]) /\ DOMAIN store[s] \subseteq ClientIds
          /\ Cardinality(DOMAIN store[s]) <= MAX_CLIENTS
          /\ Cardinality(DOMAIN store[s]) \in Nat
      BY <2>1, FS_CardinalityType DEF TypeInv, StoreType
    <2>4. /\ IsFiniteSet(DOMAIN store'[s])
          /\ Cardinality(DOMAIN store'[s]) <= MAX_CLIENTS
      <3>1. IsFiniteSet(DOMAIN store'[s])
        BY <2>1, <2>3, FS_AddElement, SMTT(30)
      <3>2. CASE th.id \in DOMAIN store[s]
        <4>1. DOMAIN store'[s] = DOMAIN store[s]
          BY <2>1, <3>2
        <4> QED BY <2>3, <4>1
      <3>3. CASE th.id \notin DOMAIN store[s]
        <4>1. Cardinality(DOMAIN store[s]) < MAX_CLIENTS
          BY <2>1, <3>3 DEF HasRoom
        <4>2. Cardinality(DOMAIN store'[s]) = Cardinality(DOMAIN store[s]) + 1
          BY <2>1, <2>3, <3>3, FS_AddElement
        <4> QED BY <2>3, <3>1, <4>1, <4>2, SizesAssumption
      <3> QED BY <3>2, <3>3, <3>1
    <2>5. ASSUME NEW u \in Servers
          PROVE  /\ DOMAIN store'[u] \subseteq ClientIds
                 /\ IsFiniteSet(DOMAIN store'[u])
                 /\ Cardinality(DOMAIN store'[u]) <= MAX_CLIENTS
                 /\ \A c \in DOMAIN store'[u] :
                      store'[u][c] \in Seq(Entry) /\ Len(store'[u][c]) \in 1..HISTORY_SIZE
      <3>1. CASE u # s
        BY <2>1, <3>1 DEF TypeInv, StoreType
      <3>2. CASE u = s
        <4>1. \A c \in DOMAIN store[s] :
                store[s][c] \in Seq(Entry) /\ Len(store[s][c]) \in 1..HISTORY_SIZE
          BY <2>1 DEF TypeInv, StoreType
        <4> QED BY <2>1, <2>2, <2>3, <2>4, <3>2, <4>1
      <3> QED BY <3>1, <3>2
    <2> QED BY <2>1, <2>5 DEF StoreType
  <1> QED BY <1>1, <1>2

LEMMA ThreadTypes ==
    ASSUME TypeInv, NEW th \in threads, Store(th) \/ Reply(th)
    PROVE  TypeInv'
  <1>1. th \in Thread /\ threads \subseteq Thread /\ agent \in [Agents -> Agent]
    BY DEF TypeInv, RestType
  <1>2. UNCHANGED <<up, abandoned, visit, made>>
    BY DEF Store, Reply, counters
  <1>3. threads' \subseteq Thread
    BY <1>1 DEF Store, Reply, Thread
  <1>4. CASE Reply(th)
    <2>1. store' = store
      BY <1>4 DEF Reply
    <2>2. agent' \in [Agents -> Agent] /\ AgentsOK'
      <3>1. CASE agent' = agent
        BY <1>1, <1>2, <3>1 DEF AgentsOK, AgentOK, Active, TypeInv
      <3>2. CASE agent' # agent
        <4>1. PICK x \in Agent : Becomes(th.agent, x) /\ Hears(agent[th.agent], x, "ok")
          BY <1>4, <3>2, Replies
        <4>2. th.agent \in Agents /\ agent[th.agent] \in Agent /\ AgentOK(th.agent)
          BY <1>1 DEF Thread, TypeInv, AgentsOK
        <4>3. AgentOK(th.agent)'
          BY <1>2, <4>1, <4>2 DEF AgentOK, Active, Becomes, Hears, Agent
        <4>4. ASSUME NEW b \in Agents, b # th.agent PROVE AgentOK(b)'
          BY <1>2, <4>1, <4>4 DEF AgentOK, Active, Becomes, TypeInv, AgentsOK
        <4> QED BY <4>1, <4>3, <4>4 DEF Becomes, AgentsOK
      <3> QED BY <3>1, <3>2
    <2>3. StoreType'
      BY <2>1 DEF TypeInv, StoreType
    <2> QED BY <1>2, <1>3, <2>1, <2>2, <2>3 DEF TypeInv, RestType
  <1>5. CASE Store(th)
    <2>1. agent' = agent
      BY <1>5 DEF Store
    <2>2. AgentsOK'
      BY <1>2, <2>1 DEF AgentsOK, AgentOK, Active, TypeInv
    <2>3. store' = [u \in Servers |-> store'[u]] /\ StoreType'
      BY <1>5, StoreTypes
    <2> QED BY <1>2, <1>3, <2>1, <2>2, <2>3 DEF TypeInv, RestType
  <1> QED BY <1>4, <1>5

LEMMA EndTypes ==
    ASSUME TypeInv, NEW s \in Servers, Ends(s), UNCHANGED <<made, abandoned>>
    PROVE  TypeInv'
  <1>1. /\ up \in [Servers -> BOOLEAN] /\ store = [u \in Servers |-> store[u]]
        /\ agent \in [Agents -> Agent] /\ visit \in [Viewers -> Visit]
        /\ threads \subseteq Thread
    BY DEF TypeInv, RestType
  <1>2. up' \in [Servers -> BOOLEAN] /\ threads' \subseteq Thread
    BY <1>1 DEF Ends
  <1>3. ASSUME NEW a \in Agents
        PROVE  agent'[a] \in Agent /\ AgentOK(a)'
    <2>1. agent[a] \in Agent /\ AgentOK(a)
      BY <1>1 DEF TypeInv, AgentsOK
    <2>2. \/ agent'[a] = agent[a]
          \/ agent[a].wire = "open" /\ agent'[a] = [agent[a] EXCEPT !.wire = "lost"]
      BY DEF Ends
    <2> QED BY <2>1, <2>2 DEF Agent, AgentOK, Active
  <1>4. agent' \in [Agents -> Agent]
    BY <1>3 DEF Ends
  <1>5. visit' \in [Viewers -> Visit]
    BY <1>1 DEF Ends, Visit
  <1>6. store' = [u \in Servers |-> store'[u]] /\ StoreType'
    <2>1. store' = [u \in Servers |-> IF u = s THEN EmptyMap ELSE store[u]]
      BY <1>1 DEF Ends
    <2>2. DOMAIN EmptyMap = {} /\ IsFiniteSet({}) /\ Cardinality({}) = 0
      BY FS_EmptySet DEF EmptyMap
    <2> HIDE DEF EmptyMap
    <2>3. ASSUME NEW u \in Servers
          PROVE  /\ DOMAIN store'[u] \subseteq ClientIds
                 /\ IsFiniteSet(DOMAIN store'[u])
                 /\ Cardinality(DOMAIN store'[u]) <= MAX_CLIENTS
                 /\ \A c \in DOMAIN store'[u] :
                      store'[u][c] \in Seq(Entry) /\ Len(store'[u][c]) \in 1..HISTORY_SIZE
      <3>1. CASE u = s
        BY <2>1, <2>2, <3>1, SizesAssumption
      <3>2. CASE u # s
        BY <2>1, <3>2 DEF TypeInv, StoreType
      <3> QED BY <3>1, <3>2
    <2> QED BY <2>1, <2>3 DEF StoreType
  <1> QED BY <1>1, <1>2, <1>3, <1>4, <1>5, <1>6 DEF TypeInv, RestType, AgentsOK

LEMMA NextType == TypeInv /\ [Next]_vars => TypeInv'
  BY Steps, AsideTypes, ActTypes, ThreadTypes, EndTypes

-----------------------------------------------------------------------------
(* Where a report has been sent.                                           *)

In(l, a, n) == \E k \in 1..Len(l) : l[k].agent = a /\ l[k].report = n

Holds(s, a, n) == \E c \in DOMAIN store[s] : In(store[s][c], a, n)

UnderWay(s, a, n) ==
    \E th \in threads : th.server = s /\ th.agent = a /\ th.report = n

Sent(s, a, n) == Holds(s, a, n) \/ UnderWay(s, a, n)

\* The URLs whose turn has come in this round.
Passed(a, i) == i < agent[a].next \/ (agent[a].pc = "wait" /\ i = agent[a].next)

(***************************************************************************)
(* A client that is sending a report has sent no newer one, and that one   *)
(* only to servers whose turn has come.                                    *)
(***************************************************************************)
WasDue(s, a, n) ==
    /\ n <= made
    /\ Active(a) => n <= agent[a].report
    /\ Active(a) /\ n = agent[a].report /\ n < MaxReports
         => \E i \in 1..Len(Urls) : Urls[i] = s /\ Passed(a, i)

SentOK ==
    \A s \in Servers, a \in Agents, n \in Serials : Sent(s, a, n) => WasDue(s, a, n)

LEMMA PushIn ==
    ASSUME NEW l \in Seq(Entry), Len(l) \in 0..HISTORY_SIZE, NEW e \in Entry,
           NEW a, NEW n, In(Push(l, e), a, n)
    PROVE  In(l, a, n) \/ (a = e.agent /\ n = e.report)
  <1> DEFINE p == Push(l, e)
             d == IF Len(l) >= HISTORY_SIZE THEN 1 ELSE 0
  <1>1. /\ Len(p) = Len(l) - d + 1 /\ \A k \in 1..(Len(l) - d) : p[k] = l[k + d]
        /\ p[Len(p)] = e
    BY PushShape
  <1>2. PICK k \in 1..Len(p) : p[k].agent = a /\ p[k].report = n
    BY DEF In
  <1>3. Len(l) \in Nat /\ HISTORY_SIZE \in Nat \ {0}
    BY SizesAssumption
  <1> HIDE DEF p
  <1>4. CASE k = Len(p)
    BY <1>1, <1>2, <1>4
  <1>5. CASE k # Len(p)
    <2>1. k \in 1..(Len(l) - d) /\ k + d \in 1..Len(l)
      BY <1>1, <1>3, <1>5
    <2>2. l[k + d].agent = a /\ l[k + d].report = n
      BY <1>1, <1>2, <2>1
    <2> HIDE DEF d
    <2> QED BY <2>1, <2>2 DEF In
  <1> QED BY <1>4, <1>5

LEMMA StoreHolds ==
    ASSUME TypeInv, NEW th \in threads, Store(th), NEW s \in Servers, NEW a, NEW n,
           Holds(s, a, n)'
    PROVE  \/ Holds(s, a, n)
           \/ s = th.server /\ a = th.agent /\ n = th.report
  <1> DEFINE u == th.server
             e == [agent |-> th.agent, report |-> th.report]
  <1>1. CASE store' = store
    BY <1>1 DEF Holds
  <1>2. CASE store' # store
    <2>1. /\ u \in Servers /\ e \in Entry
          /\ \A v \in Servers : v # u => store'[v] = store[v]
          /\ DOMAIN store'[u] = DOMAIN store[u] \union {th.id}
          /\ \A c \in DOMAIN store[u] : c # th.id => store'[u][c] = store[u][c]
          /\ store'[u][th.id] = Push(Reports(u, th.id), e)
          /\ Reports(u, th.id) \in Seq(Entry) /\ Len(Reports(u, th.id)) \in 0..HISTORY_SIZE
      BY <1>2, StoreStep
    <2>2. CASE s # u
      BY <2>1, <2>2 DEF Holds
    <2>3. CASE s = u
      <3>1. PICK c \in DOMAIN store'[u] : In(store'[u][c], a, n)
        BY <2>3 DEF Holds
      <3>2. CASE c # th.id
        BY <2>1, <2>3, <3>1, <3>2 DEF Holds
      <3>3. CASE c = th.id
        <4> HIDE DEF u
        <4>1. In(Reports(u, th.id), a, n) \/ (a = e.agent /\ n = e.report)
          <5> HIDE DEF e
          <5> QED BY <2>1, <3>1, <3>3, PushIn
        <4>2. ASSUME In(Reports(u, th.id), a, n) PROVE Holds(u, a, n)
          BY <4>2 DEF Reports, Holds, In
        <4> QED BY <2>3, <4>1, <4>2 DEF u
      <3> QED BY <3>2, <3>3
    <2> QED BY <2>2, <2>3
  <1> QED BY <1>1, <1>2

(***************************************************************************)
(* Only Send sends, and only to the server whose turn it is.               *)
(***************************************************************************)
LEMMA SentBefore ==
    ASSUME TypeInv, [Next]_vars,
           NEW s \in Servers, NEW a \in Agents, NEW n \in Serials, Sent(s, a, n)'
    PROVE  \/ Sent(s, a, n)
           \/ /\ Acts(a) /\ Opens(agent[a], agent'[a]) /\ made' = made
              /\ s = Urls[agent[a].next] /\ n = agent[a].report
  <1>1. ASSUME NEW b \in Agents, Acts(b), ~ Send(b)
        PROVE  Sent(s, a, n)
    <2>1. store' = store /\ threads' \subseteq threads
      BY <1>1 DEF Acts, Work, StartAgent, StopAgent, Collect, Result, Sleep, Wake, Lose
    <2> QED BY <2>1 DEF Sent, Holds, UnderWay
  <1>2. ASSUME NEW b \in Agents, Send(b), ~ Sent(s, a, n)
        PROVE  /\ Acts(a) /\ Opens(agent[a], agent'[a]) /\ made' = made
               /\ s = Urls[agent[a].next] /\ n = agent[a].report
    <2> DEFINE new == [agent |-> b, id |-> agent[b].id, report |-> agent[b].report,
                       server |-> Urls[agent[b].next], state |-> "got"]
    <2>1. store' = store /\ made' = made
      BY <1>2 DEF Send, counters
    <2>2. \/ threads' = threads
          \/ /\ threads' = threads \union {new}
             /\ agent' = [agent EXCEPT ![b].pc = "wait", ![b].wire = "open"]
             /\ agent[b].pc = "send" /\ agent[b].next <= Len(Urls)
      BY <1>2 DEF Send
    <2>3. threads' # threads
      BY <1>2, <2>1 DEF Sent, Holds, UnderWay
    <2>4. /\ new.server = s /\ new.agent = a /\ new.report = n
      <3>1. PICK th \in threads' : th.server = s /\ th.agent = a /\ th.report = n
        BY <1>2, <2>1 DEF Sent, Holds, UnderWay
      <3>2. th \notin threads
        BY <1>2, <3>1 DEF Sent, UnderWay
      <3> QED BY <2>2, <2>3, <3>1, <3>2
    <2>5. agent[b].wire = "none"
      BY <2>2, <2>3 DEF TypeInv, AgentsOK, AgentOK
    <2>6. agent'[b] = [agent[b] EXCEPT !.pc = "wait", !.wire = "open"]
      BY <2>2, <2>3 DEF TypeInv, RestType
    <2> QED BY <1>2, <2>1, <2>2, <2>3, <2>4, <2>5, <2>6 DEF Opens, Acts, Work
  <1>3. ASSUME NEW th \in threads, Store(th)
        PROVE  Sent(s, a, n)
    <2>1. CASE Holds(s, a, n)'
      BY <1>3, <2>1, StoreHolds DEF Sent, UnderWay
    <2>2. CASE UnderWay(s, a, n)'
      <3>1. PICK o \in threads' : o.server = s /\ o.agent = a /\ o.report = n
        BY <2>2 DEF UnderWay
      <3>2. CASE o \in threads
        BY <3>1, <3>2 DEF Sent, UnderWay
      <3>3. CASE o \notin threads
        <4>1. o = [th EXCEPT !.state = "stored"] /\ th \in Thread
          BY <1>3, <3>1, <3>3 DEF Store, TypeInv, RestType
        <4> QED BY <3>1, <4>1 DEF Sent, UnderWay, Thread
      <3> QED BY <3>2, <3>3
    <2> QED BY <2>1, <2>2 DEF Sent
  <1>4. ASSUME NEW th \in threads, Reply(th)
        PROVE  Sent(s, a, n)
    BY <1>4 DEF Reply, Sent, Holds, UnderWay
  <1>5. ASSUME NEW u \in Servers, Ends(u)
        PROVE  Sent(s, a, n)
    <2>1. store' = [v \in Servers |-> IF v = u THEN EmptyMap ELSE store[v]]
          /\ threads' \subseteq threads /\ DOMAIN EmptyMap = {}
      BY <1>5 DEF Ends, TypeInv, RestType, EmptyMap
    <2> HIDE DEF EmptyMap
    <2>2. DOMAIN store'[s] = {} \/ store'[s] = store[s]
      BY <2>1
    <2> QED BY <2>1, <2>2 DEF Sent, Holds, UnderWay
  <1>6. CASE Aside
    BY <1>6, AsideTypes DEF Sent, Holds, UnderWay
  <1> QED BY <1>1, <1>2, <1>3, <1>4, <1>5, <1>6, Steps

(***************************************************************************)
(* A round goes from one URL to the next, with one report.                 *)
(***************************************************************************)
LEMMA RoundGoesOn ==
    ASSUME TypeInv, [Next]_vars, NEW a \in Agents
    PROVE  /\ made <= made'
           /\ Active(a)' =>
                \/ /\ agent'[a].report = made'
                   /\ made' = made + 1 \/ (made' = made /\ made = MaxReports)
                \/ /\ Active(a) /\ agent'[a].report = agent[a].report
                   /\ \A i \in 1..Len(Urls) : Passed(a, i) => Passed(a, i)'
  <1>1. /\ made \in 0..MaxReports /\ MaxReports \in Nat /\ agent[a] \in Agent /\ AgentOK(a)
        /\ agent[a].next \in 1..(Len(Urls) + 1) /\ Len(Urls) \in Nat
    BY SizesAssumption, NamesAssumption DEF TypeInv, RestType, AgentsOK, Agent
  <1>2. CASE /\ made' = made /\ agent'[a].pc = agent[a].pc
             /\ agent'[a].report = agent[a].report /\ agent'[a].next = agent[a].next
    BY <1>1, <1>2 DEF Active, Passed
  <1>3. CASE Acts(a)
    <2>1. PICK x \in Agent :
            /\ Becomes(a, x)
            /\ made <= made'
            /\ Rests(x) \/ Begins(x) \/ Advances(agent[a], x) \/ Opens(agent[a], x)
                 \/ Hears(agent[a], x, "lost")
      BY <1>3, Moves
    <2>2. agent'[a] = x
      BY <2>1 DEF Becomes
    <2>3. CASE Rests(x)
      BY <2>1, <2>2, <2>3 DEF Rests, Active
    <2>4. CASE Begins(x)
      BY <2>1, <2>2, <2>4 DEF Begins
    <2>5. CASE Advances(agent[a], x)
      <3>1. /\ agent[a].pc \in {"send", "wait"} /\ agent'[a].report = agent[a].report
            /\ agent'[a].next = agent[a].next + 1
        BY <1>1, <2>2, <2>5 DEF Advances, Agent
      <3> QED BY <1>1, <2>1, <3>1 DEF Active, Passed
    <2>6. CASE Opens(agent[a], x) \/ Hears(agent[a], x, "lost")
      <3>1. /\ agent[a].pc \in {"send", "wait"} /\ agent'[a].report = agent[a].report
            /\ agent'[a].next = agent[a].next
            /\ agent[a].pc = "wait" => agent'[a].pc = "wait"
        BY <1>1, <2>2, <2>6 DEF Opens, Hears, AgentOK, Agent
      <3> QED BY <1>1, <2>1, <3>1 DEF Active, Passed
    <2> QED BY <2>1, <2>3, <2>4, <2>5, <2>6
  <1>4. ASSUME NEW b \in Agents, b # a, Acts(b)
        PROVE  made <= made' /\ agent'[a] = agent[a]
    BY <1>4, Moves DEF Becomes
  <1>5. ASSUME NEW th \in threads, Store(th) \/ Reply(th)
        PROVE  /\ made' = made /\ agent'[a].pc = agent[a].pc
               /\ agent'[a].report = agent[a].report /\ agent'[a].next = agent[a].next
    <2>1. made' = made
      BY <1>5 DEF Store, Reply, counters
    <2>2. CASE agent' = agent
      BY <2>1, <2>2
    <2>3. CASE agent' # agent
      <3>1. Reply(th)
        BY <1>5, <2>3 DEF Store
      <3>2. PICK x \in Agent : Becomes(th.agent, x) /\ Hears(agent[th.agent], x, "ok")
        BY <2>3, <3>1, Replies
      <3> QED BY <1>1, <2>1, <3>2 DEF Becomes, Hears, Agent
    <2> QED BY <2>2, <2>3
  <1>6. ASSUME NEW u \in Servers, Ends(u), UNCHANGED <<made, abandoned>>
        PROVE  /\ made' = made /\ agent'[a].pc = agent[a].pc
               /\ agent'[a].report = agent[a].report /\ agent'[a].next = agent[a].next
    <2>1. agent'[a] = agent[a] \/ agent'[a] = [agent[a] EXCEPT !.wire = "lost"]
      BY <1>6 DEF Ends
    <2> QED BY <1>1, <1>6, <2>1 DEF Agent
  <1>7. CASE Aside
    BY <1>1, <1>2, <1>7, AsideTypes
  <1>8. CASE made <= made' /\ agent'[a] = agent[a]
    BY <1>1, <1>8 DEF Active, Passed
  <1> QED BY <1>2, <1>3, <1>4, <1>5, <1>6, <1>7, <1>8, Steps

LEMMA NextSent == TypeInv /\ SentOK /\ [Next]_vars => SentOK'
  <1> SUFFICES ASSUME TypeInv, SentOK, [Next]_vars,
                      NEW s \in Servers, NEW a \in Agents, NEW n \in Serials, Sent(s, a, n)'
               PROVE  WasDue(s, a, n)'
    BY DEF SentOK, Serials
  <1>1. /\ made \in 0..MaxReports /\ MaxReports \in Nat \ {0} /\ agent[a] \in Agent
        /\ agent[a].report \in Serials /\ agent[a].next \in 1..(Len(Urls) + 1)
        /\ Len(Urls) \in Nat
    BY SizesAssumption, NamesAssumption DEF TypeInv, RestType, Agent
  <1>2. CASE Sent(s, a, n)
    <2>1. WasDue(s, a, n)
      BY <1>2 DEF SentOK
    <2>2. made <= made' /\ made' \in 0..MaxReports
      BY NextType, RoundGoesOn DEF TypeInv, RestType
    <2>3. n <= made'
      BY <1>1, <2>1, <2>2 DEF WasDue, Serials
    <2>4. CASE ~ Active(a)'
      BY <2>3, <2>4 DEF WasDue
    <2>5. CASE /\ agent'[a].report = made'
               /\ made' = made + 1 \/ (made' = made /\ made = MaxReports)
      <3>1. n <= made
        BY <2>1 DEF WasDue
      <3>2. n <= agent'[a].report /\ ~ (n = agent'[a].report /\ n < MaxReports)
        BY <1>1, <2>3, <2>5, <3>1 DEF Serials
      <3> QED BY <2>3, <3>2 DEF WasDue
    <2>6. CASE /\ Active(a) /\ agent'[a].report = agent[a].report
               /\ \A i \in 1..Len(Urls) : Passed(a, i) => Passed(a, i)'
      BY <2>1, <2>3, <2>6 DEF WasDue
    <2> QED BY <2>4, <2>5, <2>6, RoundGoesOn
  <1>3. CASE /\ Acts(a) /\ Opens(agent[a], agent'[a]) /\ made' = made
             /\ s = Urls[agent[a].next] /\ n = agent[a].report
    <2>1. /\ agent'[a].pc = "wait" /\ agent'[a].report = n /\ agent'[a].next = agent[a].next
          /\ agent[a].pc = "send" /\ agent[a].next <= Len(Urls)
      BY <1>1, <1>3 DEF Opens, Agent
    <2>2. n <= made
      BY <1>3, <2>1 DEF TypeInv, AgentsOK, AgentOK, Active
    <2>3. agent[a].next \in 1..Len(Urls) /\ Passed(a, agent[a].next)'
      BY <1>1, <2>1 DEF Passed
    <2> QED BY <1>1, <1>3, <2>1, <2>2, <2>3 DEF WasDue, Active, Serials
  <1> QED BY <1>2, <1>3, SentBefore

-----------------------------------------------------------------------------
(* A report is stored once.                                                *)

Alike(t, u) == t.server = u.server /\ t.agent = u.agent /\ t.report = u.report

Once(l) == \A j, k \in 1..Len(l) : Same(l[j], l[k]) => j = k

(***************************************************************************)
(* A report has one thread on a server, and is in its store only after     *)
(* that thread has put it there.                                           *)
(***************************************************************************)
OneThread ==
    \A t, u \in threads : Alike(t, u) /\ t.report < MaxReports => t = u

NotYet ==
    \A t \in threads :
      t.state = "got" /\ t.report < MaxReports => ~ Holds(t.server, t.agent, t.report)

AllOnce == \A s \in Servers : \A c \in DOMAIN store[s] : Once(store[s][c])

OnceOK == OneThread /\ NotYet /\ AllOnce

LEMMA PushOnce ==
    ASSUME NEW l \in Seq(Entry), Len(l) \in 0..HISTORY_SIZE, NEW e \in Entry, Once(l),
           e.report < MaxReports => ~ In(l, e.agent, e.report)
    PROVE  Once(Push(l, e))
  <1> DEFINE p == Push(l, e)
             d == IF Len(l) >= HISTORY_SIZE THEN 1 ELSE 0
  <1>1. /\ Len(p) = Len(l) - d + 1 /\ \A k \in 1..(Len(l) - d) : p[k] = l[k + d]
        /\ p[Len(p)] = e
    BY PushShape
  <1>2. Len(l) \in Nat /\ HISTORY_SIZE \in Nat \ {0}
    BY SizesAssumption
  <1> HIDE DEF p
  <1>3. ASSUME NEW k \in 1..Len(p), k # Len(p)
        PROVE  k + d \in 1..Len(l) /\ p[k] = l[k + d] /\ ~ Same(p[k], e) /\ ~ Same(e, p[k])
    <2>1. k \in 1..(Len(l) - d) /\ k + d \in 1..Len(l)
      BY <1>1, <1>2, <1>3
    <2>2. p[k] = l[k + d]
      BY <1>1, <2>1
    <2>3. e.report < MaxReports => ~ (l[k + d].agent = e.agent /\ l[k + d].report = e.report)
      <3> HIDE DEF d
      <3> QED BY <2>1 DEF In
    <2> HIDE DEF d
    <2> QED BY <2>1, <2>2, <2>3 DEF Same
  <1>4. ASSUME NEW j \in 1..Len(p), NEW k \in 1..Len(p), Same(p[j], p[k])
        PROVE  j = k
    <2>1. CASE j # Len(p) /\ k # Len(p)
      <3>1. Same(l[j + d], l[k + d]) /\ j + d \in 1..Len(l) /\ k + d \in 1..Len(l)
        <4> HIDE DEF d
        <4> QED BY <1>3, <1>4, <2>1
      <3>2. j + d = k + d
        <4> HIDE DEF d
        <4> QED BY <3>1 DEF Once
      <3> QED BY <1>1, <1>2, <3>2
    <2>2. CASE j = Len(p) /\ k # Len(p)
      BY <1>1, <1>3, <1>4, <2>2
    <2>3. CASE j # Len(p) /\ k = Len(p)
      BY <1>1, <1>3, <1>4, <2>3
    <2>4. CASE j = Len(p) /\ k = Len(p)
      BY <2>4
    <2> QED BY <2>1, <2>2, <2>3, <2>4
  <1> QED BY <1>4 DEF Once, p

LEMMA FewerOnce ==
    ASSUME OnceOK, threads' \subseteq threads,
           \A s \in Servers : store'[s] = store[s] \/ DOMAIN store'[s] = {},
           TypeInv
    PROVE  OnceOK'
  <1>1. \A t \in threads : t.server \in Servers
    BY DEF TypeInv, RestType, Thread
  <1>2. NotYet'
    BY <1>1 DEF OnceOK, NotYet, Holds
  <1>3. AllOnce'
    BY DEF OnceOK, AllOnce
  <1> QED BY <1>2, <1>3 DEF OnceOK, OneThread

LEMMA SendOnce ==
    ASSUME UrlsDiffer, TypeInv, SentOK, OnceOK, NEW a \in Agents, Send(a)
    PROVE  OnceOK'
  <1> DEFINE s == Urls[agent[a].next]
             new == [agent |-> a, id |-> agent[a].id, report |-> agent[a].report,
                     server |-> s, state |-> "got"]
  <1>1. /\ agent[a].pc = "send" /\ agent[a].next \in 1..Len(Urls) /\ s \in Servers
        /\ agent[a].report \in Serials /\ store' = store
        /\ threads' = threads \/ threads' = threads \union {new}
    <2>1. agent[a] \in Agent /\ Urls \in Seq(Servers)
      BY NamesAssumption DEF TypeInv, RestType
    <2>2. agent[a].pc = "send" /\ agent[a].next <= Len(Urls) /\ store' = store
          /\ (threads' = threads \/ threads' = threads \union {new})
      BY DEF Send
    <2>3. agent[a].next \in 1..Len(Urls) /\ agent[a].report \in Serials
      BY <2>1, <2>2 DEF Agent
    <2> QED BY <2>1, <2>2, <2>3
  <1>2. agent[a].report < MaxReports => ~ Sent(s, a, agent[a].report)
    <2> SUFFICES ASSUME agent[a].report < MaxReports, Sent(s, a, agent[a].report) PROVE FALSE
      OBVIOUS
    <2>1. WasDue(s, a, agent[a].report)
      <3> HIDE DEF s
      <3> QED BY <1>1 DEF SentOK
    <2>2. PICK i \in 1..Len(Urls) : Urls[i] = s /\ Passed(a, i)
      BY <1>1, <2>1 DEF WasDue, Active
    <2>3. i = agent[a].next
      BY <1>1, <2>2 DEF UrlsDiffer
    <2>4. agent[a].next \in Int
      BY <1>1
    <2> QED BY <1>1, <2>2, <2>3, <2>4 DEF Passed
  <1>3. AllOnce'
    BY <1>1 DEF OnceOK, AllOnce
  <1>4. CASE threads' = threads
    BY <1>1, <1>3, <1>4 DEF OnceOK, OneThread, NotYet, Holds
  <1>5. CASE threads' = threads \union {new}
    <2>1. new.server = s /\ new.agent = a /\ new.report = agent[a].report
      OBVIOUS
    <2> HIDE DEF new, s
    <2>2. \A t \in threads : ~ (Alike(t, new) /\ new.report < MaxReports)
      BY <1>2, <2>1 DEF Alike, Sent, UnderWay
    <2>3. OneThread'
      <3>1. ASSUME NEW t \in threads', NEW u \in threads', Alike(t, u), t.report < MaxReports
            PROVE  t = u
        <4>1. u.report < MaxReports /\ Alike(u, t)
          BY <3>1 DEF Alike
        <4> QED BY <1>5, <2>2, <3>1, <4>1 DEF OnceOK, OneThread, Alike
      <3> QED BY <3>1 DEF OneThread
    <2>4. NotYet'
      BY <1>1, <1>2, <1>5, <2>1 DEF OnceOK, NotYet, Holds, Sent
    <2> QED BY <1>3, <2>3, <2>4 DEF OnceOK
  <1> QED BY <1>1, <1>4, <1>5

LEMMA StoreOnce ==
    ASSUME TypeInv, OnceOK, NEW th \in threads, Store(th)
    PROVE  OnceOK'
  <1> DEFINE u == th.server
             e == [agent |-> th.agent, report |-> th.report]
             done == [th EXCEPT !.state = "stored"]
  <1>1. /\ th \in Thread /\ threads' = (threads \ {th}) \union {done} /\ th.state = "got"
    BY DEF Store, TypeInv, RestType
  <1>2. Alike(done, th) /\ done.state = "stored" /\ done.report = th.report
    BY <1>1 DEF Alike, Thread
  <1> HIDE DEF done
  <1>3. OneThread'
    <2>1. ASSUME NEW t \in threads', NEW v \in threads', Alike(t, v), t.report < MaxReports
          PROVE  t = v
      <3>1. CASE t # done /\ v # done
        BY <1>1, <2>1, <3>1 DEF OnceOK, OneThread
      <3>2. CASE t = done /\ v # done
        <4>1. v \in threads /\ v # th /\ Alike(th, v) /\ th.report < MaxReports
          BY <1>1, <1>2, <2>1, <3>2 DEF Alike
        <4> QED BY <4>1 DEF OnceOK, OneThread
      <3>3. CASE t # done /\ v = done
        <4>1. t \in threads /\ t # th /\ Alike(t, th) /\ t.report < MaxReports
          BY <1>1, <1>2, <2>1, <3>3 DEF Alike
        <4> QED BY <4>1 DEF OnceOK, OneThread
      <3>4. CASE t = done /\ v = done
        BY <3>4
      <3> QED BY <3>1, <3>2, <3>3, <3>4
    <2> QED BY <2>1 DEF OneThread
  <1>4. NotYet'
    <2>1. ASSUME NEW t \in threads', t.state = "got", t.report < MaxReports,
                 Holds(t.server, t.agent, t.report)'
          PROVE  FALSE
      <3>1. t \in threads /\ t # th /\ t.server \in Servers
        BY <1>1, <1>2, <2>1 DEF TypeInv, RestType, Thread
      <3>2. ~ Holds(t.server, t.agent, t.report)
        BY <2>1, <3>1 DEF OnceOK, NotYet
      <3>3. Alike(t, th)
        BY <2>1, <3>1, <3>2, StoreHolds DEF Alike
      <3> QED BY <2>1, <3>1, <3>3 DEF OnceOK, OneThread
    <2> QED BY <2>1 DEF NotYet
  <1>5. AllOnce'
    <2>1. CASE store' = store
      BY <2>1 DEF OnceOK, AllOnce
    <2>2. CASE store' # store
      <3>1. /\ u \in Servers /\ e \in Entry
            /\ \A v \in Servers : v # u => store'[v] = store[v]
            /\ DOMAIN store'[u] = DOMAIN store[u] \union {th.id}
            /\ \A c \in DOMAIN store[u] : c # th.id => store'[u][c] = store[u][c]
            /\ store'[u][th.id] = Push(Reports(u, th.id), e)
            /\ Reports(u, th.id) \in Seq(Entry) /\ Len(Reports(u, th.id)) \in 0..HISTORY_SIZE
        BY <2>2, StoreStep
      <3>2. Once(Reports(u, th.id))
        BY <3>1 DEF OnceOK, AllOnce, Reports, Once
      <3>3. th.report < MaxReports => ~ In(Reports(u, th.id), th.agent, th.report)
        <4>1. th.report < MaxReports => ~ Holds(u, th.agent, th.report)
          BY <1>1 DEF OnceOK, NotYet
        <4>2. In(Reports(u, th.id), th.agent, th.report) => Holds(u, th.agent, th.report)
          BY DEF Reports, In, Holds
        <4> QED BY <4>1, <4>2
      <3>4. Once(store'[u][th.id])
        <4>1. e.report = th.report /\ e.agent = th.agent
          OBVIOUS
        <4> HIDE DEF e, u
        <4> QED BY <3>1, <3>2, <3>3, <4>1, PushOnce
      <3> HIDE DEF u, e
      <3> QED BY <3>1, <3>4 DEF OnceOK, AllOnce
    <2> QED BY <2>1, <2>2
  <1> QED BY <1>3, <1>4, <1>5 DEF OnceOK

LEMMA NextOnce ==
    ASSUME UrlsDiffer
    PROVE  TypeInv /\ SentOK /\ OnceOK /\ [Next]_vars => OnceOK'
  <1> SUFFICES ASSUME TypeInv, SentOK, OnceOK, [Next]_vars PROVE OnceOK'
    OBVIOUS
  <1>1. ASSUME NEW a \in Agents, Acts(a), ~ Send(a) PROVE OnceOK'
    <2>1. store' = store /\ threads' \subseteq threads
      BY <1>1 DEF Acts, Work, StartAgent, StopAgent, Collect, Result, Sleep, Wake, Lose
    <2> QED BY <2>1, FewerOnce
  <1>2. ASSUME NEW th \in threads, Reply(th) PROVE OnceOK'
    BY <1>2, FewerOnce DEF Reply
  <1>3. ASSUME NEW u \in Servers, Ends(u) PROVE OnceOK'
    <2>1. store' = [v \in Servers |-> IF v = u THEN EmptyMap ELSE store[v]]
          /\ threads' \subseteq threads /\ DOMAIN EmptyMap = {}
      BY <1>3 DEF Ends, TypeInv, RestType, EmptyMap
    <2> HIDE DEF EmptyMap
    <2> QED BY <2>1, FewerOnce
  <1>4. CASE Aside
    BY <1>4, AsideTypes, FewerOnce
  <1> QED BY <1>1, <1>2, <1>3, <1>4, SendOnce, StoreOnce, Steps

LEMMA InitOnce == Init => SentOK /\ OnceOK
  <1> SUFFICES ASSUME Init PROVE SentOK /\ OnceOK
    OBVIOUS
  <1>1. threads = {} /\ \A s \in Servers : DOMAIN store[s] = {}
    BY DEF Init, EmptyMap
  <1> QED BY <1>1 DEF SentOK, Sent, Holds, UnderWay, OnceOK, OneThread, NotYet, AllOnce

(***************************************************************************)
(* Nothing is sent again, so that a report is stored by a server at most   *)
(* once, whatever connections break and whoever stops in between.          *)
(***************************************************************************)
THEOREM StoredOnceCorrect ==
    ASSUME UrlsDiffer
    PROVE  Spec => []StoredOnce
  <1> DEFINE Inv == TypeInv /\ SentOK /\ OnceOK
  <1>1. Init => Inv
    BY InitType, InitOnce
  <1>2. Inv /\ [Next]_vars => Inv'
    BY NextType, NextSent, NextOnce
  <1>3. Inv => StoredOnce
    <2> SUFFICES ASSUME Inv PROVE StoredOnce
      OBVIOUS
    <2>1. TypeOK
      BY DEF TypeInv, RestType, StoreType, TypeOK
    <2>2. ASSUME NEW s \in Servers, NEW c \in DOMAIN store[s],
                 NEW j \in DOMAIN store[s][c], NEW k \in DOMAIN store[s][c],
                 Same(store[s][c][j], store[s][c][k])
          PROVE  j = k
      <3>1. store[s][c] \in Seq(Entry) /\ Once(store[s][c])
        BY DEF TypeInv, StoreType, OnceOK, AllOnce
      <3> QED BY <2>2, <3>1 DEF Once
    <2> QED BY <2>1, <2>2 DEF StoredOnce
  <1> QED BY <1>1, <1>2, <1>3, PTL DEF Spec

-----------------------------------------------------------------------------
(* Reports are stored in order.                                            *)

(***************************************************************************)
(* Whoever has not abandoned a report that a thread has yet to store is    *)
(* waiting for that thread.                                                *)
(***************************************************************************)
WaitOK ==
    \A t \in threads :
      t.state = "got" /\ t.report < MaxReports /\ t.report \notin abandoned => IsWaiting(t)

Ordered(l) ==
    \A j, k \in 1..Len(l) :
      j < k /\ l[j].agent = l[k].agent /\ l[j].report > l[k].report
        => l[k].report \in abandoned

OrderOK == \A s \in Servers : \A c \in DOMAIN store[s] : Ordered(store[s][c])

LEMMA AbandonedGrows == TypeInv /\ [Next]_vars => abandoned \subseteq abandoned'
  <1>1. ASSUME NEW a \in Agents, Acts(a) PROVE abandoned \subseteq abandoned'
    BY <1>1 DEF Acts, Work, StartAgent, StopAgent, Collect, Send, Result, Sleep, Wake, Lose, Abandon
  <1>2. ASSUME NEW t \in threads, Store(t) \/ Reply(t) PROVE abandoned \subseteq abandoned'
    BY <1>2 DEF Store, Reply
  <1> QED BY <1>1, <1>2, Steps, AsideTypes

(***************************************************************************)
(* The only way not to wait to the end is to abandon the report, or to     *)
(* lose it before its thread has it.                                       *)
(***************************************************************************)
LEMMA ActWaits ==
    ASSUME TypeInv, OnceOK, WaitOK, NEW a \in Agents, Acts(a)
    PROVE  WaitOK'
  <1> SUFFICES ASSUME NEW t \in threads', t.state = "got", t.report < MaxReports,
                      t.report \notin abandoned'
               PROVE  IsWaiting(t)'
    BY DEF WaitOK
  <1>1. /\ agent \in [Agents -> Agent] /\ AgentOK(a) /\ threads \subseteq Thread
        /\ abandoned \subseteq abandoned'
    <2>1. abandoned \subseteq abandoned'
      BY DEF Acts, Work, StartAgent, StopAgent, Collect, Send, Result, Sleep, Wake, Lose, Abandon
    <2> QED BY <2>1 DEF TypeInv, RestType, AgentsOK
  <1>2. \A b \in Agents : b # a => agent'[b] = agent[b]
    BY Moves DEF Becomes
  <1>3. CASE t \in threads
    <2>1. IsWaiting(t) /\ t.agent \in Agents
      BY <1>1, <1>3 DEF WaitOK, Thread
    <2>2. CASE t.agent # a
      BY <1>2, <2>1, <2>2 DEF IsWaiting
    <2>3. CASE t.agent = a
      <3>1. agent[a].wire = "open" /\ agent[a].pc = "wait" /\ agent[a].report = t.report
        BY <1>1, <2>1, <2>3 DEF IsWaiting, AgentOK
      <3>2. StopAgent(a) \/ Lose(a)
        BY <3>1 DEF Acts, Work, StartAgent, Collect, Send, Result, Sleep, Wake
      <3>3. abandoned' # abandoned \union {t.report}
        OBVIOUS
      <3>4. Lose(a) /\ abandoned' # Abandon(a)
        BY <3>1, <3>2, <3>3 DEF StopAgent, Abandon
      <3>5. PICK u \in threads : /\ IsWaiting(u) /\ u.agent = a
                                 /\ threads' = threads \ {u}
        BY <3>4 DEF Lose
      <3>6. Alike(t, u)
        BY <2>1, <2>3, <3>5 DEF Alike, IsWaiting
      <3>7. t = u
        BY <1>3, <3>6 DEF OnceOK, OneThread
      <3> QED BY <3>5, <3>7
    <2> QED BY <2>2, <2>3
  <1>4. CASE t \notin threads
    <2>1. Send(a)
      BY <1>4 DEF Acts, Work, StartAgent, StopAgent, Collect, Result, Sleep, Wake, Lose
    <2>2. /\ t = [agent |-> a, id |-> agent[a].id, report |-> agent[a].report,
                  server |-> Urls[agent[a].next], state |-> "got"]
          /\ agent' = [agent EXCEPT ![a].pc = "wait", ![a].wire = "open"]
      BY <1>4, <2>1 DEF Send
    <2>3. /\ agent'[a].wire = "open" /\ agent'[a].report = agent[a].report
          /\ agent'[a].next = agent[a].next
      BY <1>1, <2>2 DEF Agent
    <2> QED BY <2>2, <2>3 DEF IsWaiting
  <1> QED BY <1>3, <1>4

LEMMA NextWait == TypeInv /\ OnceOK /\ WaitOK /\ [Next]_vars => WaitOK'
  <1> SUFFICES ASSUME TypeInv, OnceOK, WaitOK, [Next]_vars PROVE WaitOK'
    OBVIOUS
  <1>1. /\ threads \subseteq Thread /\ abandoned \subseteq abandoned'
    BY AbandonedGrows DEF TypeInv, RestType
  <1>2. ASSUME NEW t \in threads, Store(t) PROVE WaitOK'
    <2>1. /\ agent' = agent /\ t \in Thread
          /\ threads' = (threads \ {t}) \union {[t EXCEPT !.state = "stored"]}
      BY <1>1, <1>2 DEF Store
    <2>2. [t EXCEPT !.state = "stored"].state # "got"
      BY <2>1 DEF Thread
    <2> QED BY <1>1, <2>1, <2>2 DEF WaitOK, IsWaiting
  <1>3. ASSUME NEW t \in threads, Reply(t) PROVE WaitOK'
    <2>1. threads' = threads \ {t}
      BY <1>3 DEF Reply
    <2>2. CASE agent' = agent
      BY <1>1, <2>1, <2>2 DEF WaitOK, IsWaiting
    <2>3. CASE agent' # agent
      <3>1. PICK x \in Agent : IsWaiting(t) /\ Becomes(t.agent, x)
        BY <1>3, <2>3, Replies
      <3>2. ASSUME NEW u \in threads', u.state = "got", u.report < MaxReports,
                   u.report \notin abandoned'
            PROVE  IsWaiting(u)'
        <4>1. u \in threads /\ u # t /\ IsWaiting(u) /\ u.agent \in Agents
          BY <1>1, <2>1, <3>2 DEF WaitOK, Thread
        <4>2. u.agent # t.agent
          <5>1. u.agent = t.agent => Alike(u, t)
            BY <3>1, <4>1 DEF IsWaiting, Alike
          <5> QED BY <3>2, <4>1, <5>1 DEF OnceOK, OneThread
        <4> QED BY <3>1, <4>1, <4>2 DEF Becomes, IsWaiting
      <3> QED BY <3>2 DEF WaitOK
    <2> QED BY <2>2, <2>3
  <1>4. ASSUME NEW s \in Servers, Ends(s) PROVE WaitOK'
    <2>1. ASSUME NEW t \in threads', t.state = "got", t.report < MaxReports,
                 t.report \notin abandoned'
          PROVE  IsWaiting(t)'
      <3>1. t \in threads /\ t.server # s /\ IsWaiting(t) /\ t.agent \in Agents
        BY <1>1, <1>4, <2>1 DEF Ends, WaitOK, Thread
      <3>2. agent'[t.agent] = agent[t.agent]
        BY <1>4, <3>1 DEF Ends, IsWaiting
      <3> QED BY <3>1, <3>2 DEF IsWaiting
    <2> QED BY <2>1 DEF WaitOK
  <1>5. CASE Aside
    BY <1>1, <1>5, AsideTypes DEF WaitOK, IsWaiting
  <1> QED BY <1>2, <1>3, <1>4, <1>5, ActWaits, Steps

LEMMA PushOrdered ==
    ASSUME NEW l \in Seq(Entry), Len(l) \in 0..HISTORY_SIZE, NEW e \in Entry, Ordered(l),
           \A n \in Serials : In(l, e.agent, n) /\ n > e.report => e.report \in abandoned
    PROVE  Ordered(Push(l, e))
  <1> DEFINE p == Push(l, e)
             d == IF Len(l) >= HISTORY_SIZE THEN 1 ELSE 0
  <1>1. /\ Len(p) = Len(l) - d + 1 /\ \A k \in 1..(Len(l) - d) : p[k] = l[k + d]
        /\ p[Len(p)] = e
    BY PushShape
  <1>2. Len(l) \in Nat /\ HISTORY_SIZE \in Nat \ {0}
    BY SizesAssumption
  <1> HIDE DEF p
  <1>3. ASSUME NEW j \in 1..Len(p), NEW k \in 1..Len(p),
               j < k, p[j].agent = p[k].agent, p[j].report > p[k].report
        PROVE  p[k].report \in abandoned
    <2>1. j \in 1..(Len(l) - d) /\ j + d \in 1..Len(l)
      BY <1>1, <1>2, <1>3
    <2>2. p[j] = l[j + d]
      BY <1>1, <2>1
    <2>3. CASE k = Len(p)
      <3>1. l[j + d] \in Entry
        <4> HIDE DEF d
        <4> QED BY <2>1
      <3>2. In(l, e.agent, l[j + d].report)
        <4> HIDE DEF d
        <4> QED BY <1>1, <1>3, <2>1, <2>2, <2>3 DEF In
      <3>3. l[j + d].report \in Serials /\ l[j + d].report > e.report
        <4> HIDE DEF d
        <4> QED BY <1>1, <1>3, <2>2, <2>3, <3>1 DEF Entry
      <3> HIDE DEF d
      <3> QED BY <1>1, <2>3, <3>2, <3>3
    <2>4. CASE k # Len(p)
      <3>1. k \in 1..(Len(l) - d) /\ k + d \in 1..Len(l) /\ j + d < k + d
        BY <1>1, <1>2, <1>3, <2>4
      <3>2. p[k] = l[k + d]
        BY <1>1, <3>1
      <3> HIDE DEF d
      <3> QED BY <1>3, <2>1, <2>2, <3>1, <3>2 DEF Ordered
    <2> QED BY <2>3, <2>4
  <1> QED BY <1>3 DEF Ordered, p

(***************************************************************************)
(* A report that is waited for finds none of its client's that is newer.   *)
(***************************************************************************)
LEMMA StoreOrder ==
    ASSUME TypeInv, SentOK, WaitOK, OrderOK, NEW t \in threads, Store(t)
    PROVE  OrderOK'
  <1> DEFINE s == t.server
             e == [agent |-> t.agent, report |-> t.report]
  <1>1. abandoned' = abandoned /\ t.state = "got" /\ t \in Thread
    BY DEF Store, TypeInv, RestType
  <1>2. CASE store' = store
    BY <1>1, <1>2 DEF OrderOK, Ordered
  <1>3. CASE store' # store
    <2>1. /\ s \in Servers /\ e \in Entry
          /\ \A v \in Servers : v # s => store'[v] = store[v]
          /\ DOMAIN store'[s] = DOMAIN store[s] \union {t.id}
          /\ \A c \in DOMAIN store[s] : c # t.id => store'[s][c] = store[s][c]
          /\ store'[s][t.id] = Push(Reports(s, t.id), e)
          /\ Reports(s, t.id) \in Seq(Entry) /\ Len(Reports(s, t.id)) \in 0..HISTORY_SIZE
      BY <1>3, StoreStep
    <2>2. Ordered(Reports(s, t.id))
      BY <2>1 DEF OrderOK, Reports, Ordered
    <2>3. ASSUME NEW n \in Serials, In(Reports(s, t.id), t.agent, n), n > t.report,
                 t.report \notin abandoned
          PROVE  FALSE
      <3>1. t.agent \in Agents /\ t.report \in Serials /\ MaxReports \in Nat
        BY <1>1, SizesAssumption DEF Thread
      <3>2. t.report < MaxReports
        BY <2>3, <3>1 DEF Serials
      <3>3. IsWaiting(t)
        BY <1>1, <2>3, <3>2 DEF WaitOK
      <3>4. Active(t.agent) /\ agent[t.agent].report = t.report
        BY <3>1, <3>3 DEF IsWaiting, Active, TypeInv, AgentsOK, AgentOK
      <3>5. Sent(s, t.agent, n)
        BY <2>3 DEF Reports, In, Holds, Sent
      <3>6. n <= agent[t.agent].report
        BY <2>1, <3>1, <3>4, <3>5 DEF SentOK, WasDue
      <3> QED BY <2>3, <3>1, <3>4, <3>6 DEF Serials
    <2>4. Ordered(store'[s][t.id])
      <3>1. e.report = t.report /\ e.agent = t.agent
        OBVIOUS
      <3> HIDE DEF e, s
      <3> QED BY <2>1, <2>2, <2>3, <3>1, PushOrdered
    <2> HIDE DEF s, e
    <2>5. ASSUME NEW u \in Servers, NEW c \in DOMAIN store'[u]
          PROVE  Ordered(store'[u][c])
      <3>1. CASE u # s \/ c # t.id
        BY <2>1, <3>1 DEF OrderOK
      <3>2. CASE u = s /\ c = t.id
        BY <2>4, <3>2
      <3> QED BY <3>1, <3>2
    <2> QED BY <1>1, <2>5 DEF OrderOK, Ordered
  <1> QED BY <1>2, <1>3

LEMMA NextOrder == TypeInv /\ SentOK /\ WaitOK /\ OrderOK /\ [Next]_vars => OrderOK'
  <1> SUFFICES ASSUME TypeInv, SentOK, WaitOK, OrderOK, [Next]_vars PROVE OrderOK'
    OBVIOUS
  <1>1. CASE \A s \in Servers : store'[s] = store[s] \/ DOMAIN store'[s] = {}
    <2>1. abandoned \subseteq abandoned'
      BY AbandonedGrows
    <2> QED BY <1>1, <2>1 DEF OrderOK, Ordered
  <1>2. ASSUME NEW a \in Agents, Acts(a) PROVE store' = store
    BY <1>2 DEF Acts, Work, StartAgent, StopAgent, Collect, Send, Result, Sleep, Wake, Lose
  <1>3. ASSUME NEW t \in threads, Reply(t) PROVE store' = store
    BY <1>3 DEF Reply
  <1>4. ASSUME NEW u \in Servers, Ends(u)
        PROVE  \A s \in Servers : store'[s] = store[s] \/ DOMAIN store'[s] = {}
    <2>1. store' = [v \in Servers |-> IF v = u THEN EmptyMap ELSE store[v]]
          /\ DOMAIN EmptyMap = {}
      BY <1>4 DEF Ends, TypeInv, RestType, EmptyMap
    <2> HIDE DEF EmptyMap
    <2> QED BY <2>1
  <1> QED BY <1>1, <1>2, <1>3, <1>4, StoreOrder, AsideTypes, Steps

(***************************************************************************)
(* Reports of a machine are stored in the order of their collection,       *)
(* except for those whose answer was not waited for.                       *)
(***************************************************************************)
THEOREM StoredInOrderCorrect ==
    ASSUME UrlsDiffer
    PROVE  Spec => []StoredInOrder
  <1> DEFINE Inv == TypeInv /\ SentOK /\ OnceOK /\ WaitOK /\ OrderOK
  <1>1. Init => Inv
    <2>1. Init => WaitOK /\ OrderOK
      BY DEF Init, WaitOK, OrderOK, EmptyMap
    <2> QED BY <2>1, InitType, InitOnce
  <1>2. Inv /\ [Next]_vars => Inv'
    BY NextType, NextSent, NextOnce, NextWait, NextOrder
  <1>3. Inv => StoredInOrder
    <2> SUFFICES ASSUME Inv PROVE StoredInOrder
      OBVIOUS
    <2>1. \A s \in Servers : \A c \in DOMAIN store[s] : store[s][c] \in Seq(Entry)
      BY DEF TypeInv, StoreType
    <2> QED BY <2>1 DEF StoredInOrder, OrderOK, Ordered
  <1> QED BY <1>1, <1>2, <1>3, PTL DEF Spec

=============================================================================
