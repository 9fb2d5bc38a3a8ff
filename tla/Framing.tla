------------------------------ MODULE Framing ------------------------------
(***************************************************************************)
(* One connection: a peer that sends a request and reads its answer, and   *)
(* the server's thread, which takes the request out of the byte stream     *)
(* (handle_client in server.c, send_http_post in client.c).                *)
(*                                                                         *)
(* A stream is a sequence of units.  A unit is a stretch of bytes such     *)
(* that it makes no difference to either side where inside it a recv()     *)
(* ends: "target" ends with the first letter of the version, and "end" is  *)
(* the last byte of the empty line after the header.  What is under way    *)
(* can be cut anywhere between units.                                      *)
(***************************************************************************)
EXTENDS Naturals, Sequences, SequencesExt

CONSTANTS
    Bodies,       \* the bodies of reports, sequences of units
    Targets,      \* the URLs reports are sent to, subset of Paths
    Readers,      \* how peers read an answer, subset of {"recv", "net/http"}
    Location,     \* the URL in a redirect, "ok" if it has these letters
    BUFFER_SIZE   \* units in the server's first buffer, one for the '\0'

ASSUME BodiesAssumption == Bodies \subseteq Seq(STRING) \ {<<>>}
ASSUME BufferAssumption == BUFFER_SIZE \in Nat \ {0, 1}
ASSUME ReadersAssumption == Readers \subseteq {"recv", "net/http"}

(***************************************************************************)
(* The paths that handle_request tells apart: "page" has "/index.html" or  *)
(* "/data" somewhere in it, which a prefix such as datacenter/v1 is enough *)
(* for, and "put" is any other.                                            *)
(***************************************************************************)
Paths == {"put", "page", "/"}
ASSUME TargetsAssumption == Targets \subseteq Paths
ASSUME LocationAssumption == Location \in {"location", "ok"}

VARIABLES
    up, down,     \* units under way to the server and to the peer
    broken,       \* the connection was lost in between
    peer,         \* "idle", "connected", "waiting", "done", "gone", "vanished"
    request,      \* what it sends
    got,          \* what it has read of the answer
    verdict,      \* what it takes the answer for
    pc,           \* the server's side of the connection
    first,        \* what the first recv() brought
    content_length, body,
    taken         \* history: what was parsed as a complete report

vars == <<up, down, broken, peer, request, got, verdict, pc, first,
          content_length, body, taken>>
peerVars == <<peer, request, got, verdict>>
threadVars == <<first, content_length, body, taken>>

-----------------------------------------------------------------------------
(***************************************************************************)
(* Requests and answers.                                                   *)
(***************************************************************************)
View == [method |-> "GET", target |-> "page", body |-> <<>>, reader |-> "net/http"]
RequestType == {[method |-> "POST", target |-> t, body |-> b, reader |-> r] :
                   t \in Targets, b \in Bodies, r \in Readers} \union {View}

Announced_LessOne(b) == Len(b) - 1
Announced(b) == Len(b)

Message(r) == <<"method", "target", "fields", "end">> \o r.body

(***************************************************************************)
(* A status line is cut before the last digit of its code.                 *)
(***************************************************************************)
OkAnswer == <<"version", "200", "head", "ok">>
NotFound == <<"version", "404", "head">>
Redirect == <<"version", "301", Location, "head">>
ViewHeader == <<"version", "200", "head">>
ViewBody == <<"json">>

Has(s, unit) == \E i \in 1 .. Len(s) : s[i] = unit

(***************************************************************************)
(* The C client decides after one recv(), by whether "200" or "ok" is      *)
(* somewhere in it; net/http reads on to the end of the header, and a      *)
(* redirect it follows with a GET, over a connection of its own.           *)
(***************************************************************************)
Enough(g) == IF request.reader = "recv" THEN g # <<>> ELSE Has(g, "head")
SaysOk_LastUnit(g) == Has(g, "ok")
SaysOk(g) == Has(g, "200") \/ Has(g, "ok")
Verdicts(g) ==
    IF request.reader = "net/http" /\ Has(g, "301") THEN {"ok", "failed"}
    ELSE IF SaysOk(g) THEN {"ok"} ELSE {"failed"}

-----------------------------------------------------------------------------
Init ==
    /\ up = <<>> /\ down = <<>> /\ broken = FALSE
    /\ peer = "idle" /\ request = View /\ got = <<>> /\ verdict = "none"
    /\ pc = "listen" /\ first = <<>> /\ content_length = 0 /\ body = <<>>
    /\ taken = <<>>

Connect(r) ==
    /\ peer = "idle"
    /\ peer' = "connected" /\ request' = r
    /\ pc' = "backlog"
    /\ UNCHANGED <<up, down, broken, got, verdict, threadVars>>

Send ==
    /\ peer = "connected"
    /\ peer' = "waiting"
    /\ up' = IF broken \/ pc = "closed" THEN up ELSE Message(request)
    /\ UNCHANGED <<down, broken, request, got, verdict, pc, threadVars>>

(***************************************************************************)
(* recv() of the peer: it returns what has arrived, at least one unit.     *)
(***************************************************************************)
Read ==
    /\ peer = "waiting"
    /\ \E n \in 1 .. Len(down) :
          LET g == got \o SubSeq(down, 1, n) IN
          /\ down' = SubSeq(down, n + 1, Len(down))
          /\ got' = g
          /\ IF Enough(g)
             THEN /\ peer' = "done"
                  /\ verdict' \in Verdicts(g)
             ELSE UNCHANGED <<peer, verdict>>
    /\ UNCHANGED <<up, broken, request, pc, threadVars>>

ReadEnd ==
    /\ peer = "waiting" /\ down = <<>>
    /\ broken \/ pc = "closed"
    /\ peer' = "done" /\ verdict' = "failed"
    /\ UNCHANGED <<up, down, broken, request, got, pc, threadVars>>

Beginnings(s) == {SubSeq(s, 1, n) : n \in 0 .. Len(s)}

(***************************************************************************)
(* The peer's process ends, and what it has sent still arrives; or its     *)
(* machine does, without another word to the server.                       *)
(***************************************************************************)
Die ==
    /\ peer \in {"connected", "waiting"}
    /\ \/ peer' = "gone" /\ UNCHANGED up
       \/ peer' = "vanished" /\ up' \in Beginnings(up)
    /\ down' = <<>>
    /\ UNCHANGED <<broken, request, got, verdict, pc, threadVars>>

(***************************************************************************)
(* The connection is reset: either side may still read what had arrived.   *)
(***************************************************************************)
Break ==
    /\ peer # "idle" /\ ~broken
    /\ broken' = TRUE
    /\ up' \in Beginnings(up) /\ down' \in Beginnings(down)
    /\ UNCHANGED <<peerVars, pc, threadVars>>

(***************************************************************************)
(* A thread whose peer's machine vanished waits in recv() for ever: there  *)
(* is no timeout.                                                          *)
(***************************************************************************)
Stuck ==
    /\ peer = "vanished" /\ ~broken /\ up = <<>>
    /\ pc = "recv" \/ (pc = "body" /\ Len(body) < content_length)

-----------------------------------------------------------------------------
(***************************************************************************)
(* The server.  accept() and pthread_create(): when no thread can be       *)
(* created, nobody ever reads from the connection or closes it.            *)
(***************************************************************************)
Accept ==
    /\ pc = "backlog"
    /\ pc' \in {"recv", "leaked"}
    /\ UNCHANGED <<up, down, broken, peerVars, threadVars>>

(***************************************************************************)
(* recv() returns 0 or -1.                                                 *)
(***************************************************************************)
Ended == up = <<>> /\ (broken \/ peer \in {"done", "gone"})

BodyStart(piece) == SubSeq(piece, 5, Len(piece))
HeaderCame(piece) == Has(piece, "end")

(***************************************************************************)
(* The first recv().  sscanf() needs all of the request line; only a POST  *)
(* whose header came in full gets a body, if there is memory for it.       *)
(***************************************************************************)
RecvFirst ==
    /\ pc = "recv"
    /\ \E n \in 1 .. Len(up) :
          LET piece == SubSeq(up, 1, n) IN
          /\ n <= BUFFER_SIZE - 1
          /\ up' = SubSeq(up, n + 1, Len(up))
          /\ first' = piece
          /\ \/ /\ ~Has(piece, "target")
                /\ pc' = "close"
                /\ UNCHANGED <<content_length, body>>
             \/ /\ Has(piece, "target")
                /\ request.method = "GET" \/ ~HeaderCame(piece)
                /\ pc' = "handle_request"
                /\ UNCHANGED <<content_length, body>>
             \/ /\ request.method = "POST" /\ HeaderCame(piece)
                /\ content_length' = Announced(request.body)
                /\ \/ /\ body' = BodyStart(piece)
                      /\ pc' = "body"
                   \/ /\ pc' = "nomemory"
                      /\ UNCHANGED body
    /\ UNCHANGED <<down, broken, peerVars, taken>>

RecvNothing ==
    /\ pc = "recv" /\ Ended
    /\ pc' = "close"
    /\ UNCHANGED <<up, down, broken, peerVars, threadVars>>

Extended_FromStart(b, piece) == piece \o SubSeq(b, Len(piece) + 1, Len(b))
Extended(b, piece) == b \o piece

(***************************************************************************)
(* recv(body + body_len, content_length - body_len) in a loop.             *)
(***************************************************************************)
RecvMore ==
    /\ pc = "body" /\ Len(body) < content_length
    /\ \E n \in 1 .. Len(up) :
          /\ n <= content_length - Len(body)
          /\ body' = Extended(body, SubSeq(up, 1, n))
          /\ up' = SubSeq(up, n + 1, Len(up))
    /\ UNCHANGED <<down, broken, peerVars, pc, first, content_length, taken>>

(***************************************************************************)
(* The loop ended.  With nothing of a body the request goes the way of     *)
(* those without one.  Otherwise what there is of it is parsed and         *)
(* answered with ok; a report lacking its end does not parse.              *)
(***************************************************************************)
LoopEnds_Once == TRUE
LoopEnds_Spins == Len(body) >= content_length
LoopEnds == Len(body) >= content_length \/ Ended

Answer(units) ==
    down' = IF broken \/ peer # "waiting" THEN down
                                           ELSE down \o units

Parse ==
    /\ pc = "body" /\ LoopEnds
    /\ IF body = <<>>
       THEN /\ pc' = "handle_request"
            /\ UNCHANGED <<taken, down>>
       ELSE /\ taken' = IF Len(body) = Len(request.body)
                           THEN Append(taken, body) ELSE taken
            /\ Answer(OkAnswer)
            /\ pc' = "close"
    /\ UNCHANGED <<up, broken, peerVars, first, content_length, body>>

(***************************************************************************)
(* handle_request, for a view or for a report without a body: it goes by   *)
(* the path and asks for the method only then.  A view is answered with    *)
(* two calls of send().                                                    *)
(***************************************************************************)
HandleRequest ==
    /\ pc \in {"handle_request", "nomemory"}
    /\ \/ request.target = "/" /\ Answer(Redirect) /\ pc' = "close"
       \/ request.target = "page" /\ Answer(ViewHeader) /\ pc' = "view"
       \/ request.target = "put" /\ Answer(NotFound) /\ pc' = "close"
    /\ UNCHANGED <<up, broken, peerVars, threadVars>>

SendView ==
    /\ pc = "view"
    /\ Answer(ViewBody)
    /\ pc' = "close"
    /\ UNCHANGED <<up, broken, peerVars, threadVars>>

Close_Forgotten ==
    /\ pc = "close" /\ Has(first, "target")
    /\ pc' = "closed"
    /\ up' = <<>>
    /\ down' \in IF up = <<>> THEN {down} ELSE Beginnings(down)
    /\ UNCHANGED <<broken, peerVars, threadVars>>

(***************************************************************************)
(* close().  With something left unread the connection is reset, which may *)
(* overtake the answer.                                                    *)
(***************************************************************************)
Close ==
    /\ pc = "close"
    /\ pc' = "closed"
    /\ up' = <<>>
    /\ down' \in IF up = <<>> THEN {down} ELSE Beginnings(down)
    /\ UNCHANGED <<broken, peerVars, threadVars>>

-----------------------------------------------------------------------------
Peer == \/ \E r \in RequestType : Connect(r)
        \/ Send \/ Read \/ ReadEnd \/ Die

Thread == \/ RecvFirst \/ RecvNothing \/ RecvMore \/ Parse
          \/ HandleRequest \/ SendView \/ Close

Next == Peer \/ Break \/ Accept \/ Thread

Spec == Init /\ [][Next]_vars

(***************************************************************************)
(* The server and the peer go on when they can, and the network brings     *)
(* what was sent; nothing needs to break, and nobody needs to end.         *)
(***************************************************************************)
FairSpec ==
    /\ Spec
    /\ WF_vars(Accept) /\ WF_vars(Thread)
    /\ WF_vars(Send) /\ WF_vars(Read) /\ WF_vars(ReadEnd)

-----------------------------------------------------------------------------
(***************************************************************************)
(* The types; a body is made of units of the one that was sent.            *)
(***************************************************************************)
TypeOK ==
    /\ broken \in BOOLEAN
    /\ peer \in {"idle", "connected", "waiting", "done", "gone", "vanished"}
    /\ request \in RequestType
    /\ verdict \in {"none", "ok", "failed"}
    /\ pc \in {"listen", "backlog", "leaked", "recv", "body", "nomemory",
               "handle_request", "view", "close", "closed"}
    /\ content_length \in Nat
    /\ \A i \in 1 .. Len(body) : \E j \in 1 .. Len(request.body) :
          body[i] = request.body[j]

(***************************************************************************)
(* Whatever the cuts, what the server has of a body is the beginning of    *)
(* the body that was sent, and what it parses as a report is all of it;    *)
(* it does so at most once.  The body never outgrows the content_length+1  *)
(* bytes allocated for it, of which the last is the '\0': the length that  *)
(* the clients announce is that of what they send.  (The pointer           *)
(* arithmetic of the two ways in which body is filled, lines 669-687.)     *)
(***************************************************************************)
TakenIsSent ==
    /\ TypeOK
    /\ Len(body) <= content_length
    /\ IsPrefix(body, request.body)
    /\ taken \in {<<>>, <<request.body>>}

(***************************************************************************)
(* The two reasons for which a POST gets to handle_request: its header     *)
(* came in more than one piece, or there was no memory for its body.       *)
(***************************************************************************)
Refused == ~HeaderCame(first) \/ (content_length > 0 /\ body = <<>>)

(***************************************************************************)
(* A client that takes the answer for an ok has had its report parsed,     *)
(* complete: neither a 404 nor the answer to half a report can be taken    *)
(* for it, although the server answers half a report with ok.  There is    *)
(* one exception: a report that was refused, sent to a URL for which the   *)
(* server has a page or a redirect.                                        *)
(***************************************************************************)
OkMeansTaken ==
    verdict = "ok" /\ request.method = "POST" =>
        \/ taken = <<request.body>>
        \/ Refused /\ request.target # "put"

(***************************************************************************)
(* A report over a connection that held fails for one of two reasons: it   *)
(* was refused, or, though it was taken whole, the one recv() of the C     *)
(* client returned less of the answer than the code in its first line.     *)
(***************************************************************************)
FailsOnlyWhenCut ==
    verdict = "failed" /\ ~broken /\ request.method = "POST" =>
        \/ Refused
        \/ request.reader = "recv" /\ got = <<"version">> /\ taken = <<request.body>>

(***************************************************************************)
(* A thread ends once its peer has sent all, has gone or the connection    *)
(* broke.  Only a machine that vanished keeps it for ever.                 *)
(***************************************************************************)
ThreadEnds == pc = "recv" ~> (pc = "closed" \/ Stuck)

(***************************************************************************)
(* A peer that waits for its answer gets one or sees the connection end,   *)
(* unless no thread was created for it: then it waits for ever.            *)
(***************************************************************************)
PeerReturns == peer = "waiting" ~> (peer # "waiting" \/ pc = "leaked")
=============================================================================
