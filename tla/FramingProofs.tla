--------------------------- MODULE FramingProofs ---------------------------
(***************************************************************************)
(* Proofs about one connection, for any bodies, any size of the first      *)
(* buffer and wherever the stream is cut: what is parsed as a report is    *)
(* what was sent, an "ok" means it was parsed unless its URL has a page,   *)
(* and what a report can fail for over a connection that held.             *)
(***************************************************************************)
EXTENDS Framing, SequenceTheorems, TLAPS

-----------------------------------------------------------------------------
(* The invariant.                                                          *)

(***************************************************************************)
(* The provers are told of the units of headers and answers by name.       *)
(***************************************************************************)
Unit == {"method", "target", "fields", "end", "version", "200", "301", "404",
         "location", "head", "ok", "json"} \union STRING

Units == Seq(Unit)

StreamsOK == /\ up \in Units /\ down \in Units /\ got \in Units
             /\ first \in Units /\ body \in Units

BasicOK ==
    /\ broken \in BOOLEAN
    /\ peer \in {"idle", "connected", "waiting", "done", "gone", "vanished"}
    /\ request \in RequestType
    /\ verdict \in {"none", "ok", "failed"}
    /\ pc \in {"listen", "backlog", "leaked", "recv", "body", "nomemory",
               "handle_request", "view", "close", "closed"}
    /\ content_length \in Nat

Begins(s, t) ==
    /\ Len(s) <= Len(t)
    /\ \A i \in 1 .. Len(s) : s[i] = t[i]

Early == {"listen", "backlog", "leaked", "recv"}
IsPost == request.method = "POST"

(***************************************************************************)
(* What may come to be taken for an ok: one, or a redirect, which net/http *)
(* follows.  A POST that was refused meets them if its URL is Served.      *)
(***************************************************************************)
Promises(units) == SaysOk(units) \/ Has(units, "301")
Served == Refused /\ request.target # "put"
IsTaken == taken = <<request.body>>

Unanswered == got = <<>> /\ down = <<>> /\ taken = <<>> /\ verdict # "ok"

(***************************************************************************)
(* A peer that has not sent yet has nothing under way, and what a waiting  *)
(* peer has read is not enough to decide.                                  *)
(***************************************************************************)
PeerOK ==
    /\ peer = "idle" => pc = "listen"
    /\ peer \in {"idle", "connected"} => up = <<>> /\ (pc \in Early \/ broken)
    /\ peer \in {"idle", "connected"} => pc # "body" /\ got = <<>>
    /\ peer \in {"idle", "connected", "waiting"} => verdict = "none"
    /\ peer = "waiting" => ~Enough(got)

(***************************************************************************)
(* Before the first recv() what is under way begins the request.           *)
(***************************************************************************)
StartOK ==
    pc \in Early =>
      /\ Begins(up, Message(request))
      /\ first = <<>> /\ body = <<>> /\ content_length = 0
      /\ Unanswered

(***************************************************************************)
(* While the body is read, what there is of it and what is under way make  *)
(* a beginning of the body sent.                                           *)
(***************************************************************************)
BodyOK ==
    /\ Begins(body, request.body)
    /\ Len(body) <= content_length
    /\ pc = "body" =>
         /\ IsPost
         /\ content_length = Len(request.body)
         /\ Begins(body \o up, request.body)
         /\ Unanswered

RefusalOK ==
    /\ pc \in {"handle_request", "nomemory"} => Unanswered /\ (IsPost => Refused)
    /\ pc = "view" /\ IsPost => Served

(***************************************************************************)
(* An ok is under way, or has been read, for a parsed report only, or for  *)
(* one that was refused and whose URL is that of a page.                   *)
(***************************************************************************)
TakenOK ==
    /\ taken \in {<<>>, <<request.body>>}
    /\ IsPost /\ (Promises(got) \/ Promises(down)) => IsTaken \/ Served
    /\ OkMeansTaken

(***************************************************************************)
(* On a connection that held, the whole of the ok is on its way to a peer  *)
(* that waits, or the report was refused.                                  *)
(***************************************************************************)
AnswerOK ==
    /\ IsPost /\ ~broken /\ peer = "waiting" /\ pc \in {"close", "closed"} =>
         \/ Refused
         \/ got \o down = OkAnswer /\ IsTaken /\ (pc = "close" => up = <<>>)
    /\ verdict = "failed" /\ ~broken /\ IsPost =>
         /\ pc \in {"view", "close", "closed"}
         /\ FailsOnlyWhenCut

ConnInv == /\ StreamsOK /\ BasicOK /\ PeerOK /\ StartOK /\ BodyOK
           /\ RefusalOK /\ TakenOK /\ AnswerOK

-----------------------------------------------------------------------------
(* Sequences of units.                                                     *)

LEMMA FirstUnits ==
    ASSUME NEW s \in Units, NEW n \in 0 .. Len(s)
    PROVE  /\ SubSeq(s, 1, n) \in Units
           /\ Len(SubSeq(s, 1, n)) = n
           /\ \A i \in 1 .. n : SubSeq(s, 1, n)[i] = s[i]
           /\ SubSeq(s, n + 1, Len(s)) \in Units
           /\ Len(SubSeq(s, n + 1, Len(s))) = Len(s) - n
           /\ \A i \in 1 .. (Len(s) - n) : SubSeq(s, n + 1, Len(s))[i] = s[n + i]
  <1>1. Len(s) \in Nat /\ \A i \in 1 .. Len(s) : s[i] \in Unit
    BY ElementOfSeq DEF Units
  <1>2. \A i \in 1 .. n : s[i] \in Unit
    BY <1>1
  <1>3. \A i \in n + 1 .. Len(s) : s[i] \in Unit
    BY <1>1
  <1>4. SubSeq(s, 1, n) \in Units
    BY <1>1, <1>2, SubSeqProperties DEF Units
  <1>5. SubSeq(s, n + 1, Len(s)) \in Units
    BY <1>1, <1>3, SubSeqProperties DEF Units
  <1> QED
    BY <1>1, <1>4, <1>5 DEF Units

LEMMA Rejoined ==
    ASSUME NEW s \in Units, NEW n \in 0 .. Len(s)
    PROVE  SubSeq(s, 1, n) \o SubSeq(s, n + 1, Len(s)) = s
  <1>1. Len(s) \in Nat
    BY DEF Units
  <1>2. /\ 1 \in 1 .. Len(s) + 1
        /\ n \in 1 - 1 .. Len(s)
        /\ Len(s) \in n .. Len(s)
    BY <1>1
  <1>3. SubSeq(s, 1, n) \o SubSeq(s, n + 1, Len(s)) = SubSeq(s, 1, Len(s))
    BY <1>2, ConcatAdjacentSubSeq DEF Units
  <1> QED
    BY <1>3, SubSeqFull DEF Units

LEMMA HasFirst ==
    ASSUME NEW s \in Units, NEW n \in 0 .. Len(s), NEW u
    PROVE  /\ Has(SubSeq(s, 1, n), u) => Has(s, u)
           /\ Has(SubSeq(s, n + 1, Len(s)), u) => Has(s, u)
  <1>1. Len(s) \in Nat
    BY DEF Units
  <1> QED
    BY <1>1, FirstUnits DEF Has

LEMMA HasJoined ==
    ASSUME NEW s \in Units, NEW t \in Units, NEW u, Has(s \o t, u)
    PROVE  Has(s, u) \/ Has(t, u)
  <1>1. Len(s) \in Nat /\ Len(t) \in Nat /\ Len(s \o t) = Len(s) + Len(t)
    BY DEF Units
  <1>2. PICK i \in 1 .. (Len(s) + Len(t)) : (s \o t)[i] = u
    BY <1>1 DEF Has
  <1>3. CASE i <= Len(s)
    BY <1>1, <1>2, <1>3 DEF Has, Units
  <1>4. CASE i > Len(s)
    <2>1. i - Len(s) \in 1 .. Len(t) /\ t[i - Len(s)] = u
      BY <1>1, <1>2, <1>4 DEF Units
    <2> QED
      BY <2>1 DEF Has
  <1> QED
    BY <1>1, <1>3, <1>4

LEMMA HasNothing == \A u : ~Has(<<>>, u)
  BY DEF Has

LEMMA BeginningsOf ==
    ASSUME NEW s \in Units, NEW t \in Beginnings(s)
    PROVE  t \in Units /\ Begins(t, s) /\ \A u : Has(t, u) => Has(s, u)
  <1>1. PICK n \in 0 .. Len(s) : t = SubSeq(s, 1, n)
    BY DEF Beginnings
  <1>2. Len(s) \in Nat
    BY DEF Units
  <1> QED
    BY <1>1, <1>2, FirstUnits, HasFirst DEF Begins

LEMMA BeginsTransitive ==
    ASSUME NEW s \in Units, NEW t \in Units, NEW r \in Units,
           Begins(s, t), Begins(t, r)
    PROVE  Begins(s, r)
  <1>1. Len(s) \in Nat /\ Len(t) \in Nat /\ Len(r) \in Nat
    BY DEF Units
  <1> QED
    BY <1>1 DEF Begins

LEMMA BeginsIsPrefix ==
    ASSUME NEW s \in Units, NEW t \in Units
    PROVE  Begins(s, t) => IsPrefix(s, t)
  <1>1. Len(s) \in Nat /\ Len(t) \in Nat
    BY DEF Units
  <1> SUFFICES ASSUME Begins(s, t) PROVE IsPrefix(s, t)
    OBVIOUS
  <1>2. Len(s) \in 0 .. Len(s) /\ Len(s) \in 0 .. Len(t)
    BY <1>1 DEF Begins
  <1>3. SubSeq(s, 1, Len(s)) = SubSeq(t, 1, Len(s))
    BY <1>1, <1>2, FirstUnits, SeqEqual DEF Begins, Units
  <1> QED
    BY <1>3 DEF IsPrefix, Begins

LEMMA BeginsAll ==
    ASSUME NEW s \in Units, NEW t \in Units, Begins(s, t), Len(s) >= Len(t)
    PROVE  s = t
  <1>1. Len(s) \in Nat /\ Len(t) \in Nat
    BY DEF Units
  <1> QED
    BY <1>1, SeqEqual DEF Begins, Units

LEMMA NothingBegins ==
    ASSUME NEW t \in Units
    PROVE  Begins(<<>>, t)
  BY DEF Begins, Units

(***************************************************************************)
(* A request: four units of header, then its body.                         *)
(***************************************************************************)
LEMMA RequestUnits ==
    ASSUME NEW r \in RequestType
    PROVE  /\ r.body \in Units
           /\ r.method \in {"POST", "GET"}
           /\ r.method = "POST" => Len(r.body) > 0
           /\ Message(r) \in Units
           /\ Len(Message(r)) = 4 + Len(r.body)
           /\ Message(r)[1] = "method" /\ Message(r)[2] = "target"
           /\ Message(r)[3] = "fields" /\ Message(r)[4] = "end"
           /\ \A i \in 1 .. Len(r.body) : Message(r)[4 + i] = r.body[i]
  <1>1. r = View \/ \E u \in Targets, b \in Bodies, t \in Readers :
                r = [method |-> "POST", target |-> u, body |-> b, reader |-> t]
    BY DEF RequestType
  <1>2. <<>> \in Units /\ \A b \in Bodies : b \in Units /\ b # <<>>
    <2>1. Seq(STRING) \subseteq Units
      BY SeqMonotonic DEF Unit, Units
    <2> QED
      BY <2>1, BodiesAssumption DEF Units
  <1>3. r.body \in Units /\ r.method \in {"POST", "GET"}
    BY <1>1, <1>2 DEF View
  <1>4. r.method = "POST" => r.body # <<>>
    BY <1>1, <1>2 DEF View
  <1>5. Len(r.body) \in Nat /\ (r.method = "POST" => Len(r.body) > 0)
    BY <1>3, <1>4, EmptySeq DEF Units
  <1> DEFINE h == <<"method", "target", "fields", "end">>
  <1>6. h \in Units /\ Len(h) = 4 /\ h[1] = "method" /\ h[2] = "target"
        /\ h[3] = "fields" /\ h[4] = "end"
    BY DEF Unit, Units
  <1> HIDE DEF h
  <1>7. /\ h \o r.body \in Units
        /\ Len(h \o r.body) = Len(h) + Len(r.body)
        /\ \A i \in 1 .. Len(h) + Len(r.body) :
             (h \o r.body)[i] = IF i <= Len(h) THEN h[i] ELSE r.body[i - Len(h)]
    BY <1>3, <1>6, ConcatProperties, Zenon DEF Units
  <1>8. Message(r) = h \o r.body
    BY DEF Message, h
  <1>9. \A i \in 1 .. Len(r.body) : (h \o r.body)[4 + i] = r.body[i]
    BY <1>5, <1>6, <1>7
  <1>10. \A i \in 1 .. 4 : (h \o r.body)[i] = h[i]
    BY <1>5, <1>6, <1>7
  <1> QED
    BY <1>3, <1>5, <1>6, <1>7, <1>8, <1>9, <1>10

LEMMA AnswerUnits ==
    /\ OkAnswer \in Units /\ NotFound \in Units /\ Redirect \in Units
    /\ ViewHeader \in Units /\ ViewBody \in Units
    /\ Len(OkAnswer) = 4 /\ OkAnswer[1] = "version" /\ OkAnswer[2] = "200"
    /\ OkAnswer # <<>> /\ Has(OkAnswer, "head") /\ ~Has(OkAnswer, "301")
    /\ ~Promises(NotFound)
  <1>1. OkAnswer \in Units /\ NotFound \in Units
    BY DEF OkAnswer, NotFound, Units, Unit
  <1>2. ViewHeader \in Units /\ ViewBody \in Units
    BY DEF ViewHeader, ViewBody, Units, Unit
  <1>3. Redirect \in Units
    BY LocationAssumption DEF Redirect, Units, Unit
  <1>4. /\ Len(OkAnswer) = 4 /\ OkAnswer[1] = "version" /\ OkAnswer[2] = "200"
        /\ OkAnswer # <<>>
    BY DEF OkAnswer
  <1>5. Has(OkAnswer, "head")
    <2>1. 3 \in 1 .. Len(OkAnswer) /\ OkAnswer[3] = "head"
      BY DEF OkAnswer
    <2> QED
      BY <2>1 DEF Has
  <1>6. ~Has(OkAnswer, "301")
    <2>1. \A i \in 1 .. Len(OkAnswer) : OkAnswer[i] \in {"version", "200", "head", "ok"}
      BY DEF OkAnswer
    <2> QED
      BY <2>1, SMTT(30) DEF Has
  <1>7. ~Promises(NotFound)
    <2>1. \A i \in 1 .. Len(NotFound) : NotFound[i] \in {"version", "404", "head"}
      BY DEF NotFound
    <2> QED
      BY <2>1, SMTT(30) DEF Promises, SaysOk, Has
  <1> QED
    BY <1>1, <1>2, <1>3, <1>4, <1>5, <1>6, <1>7

LEMMA SelfBeginning ==
    ASSUME NEW s \in Units
    PROVE  s \in Beginnings(s) /\ <<>> \in Beginnings(s) /\ Begins(s, s)
  <1>1. Len(s) \in 0 .. Len(s) /\ 0 \in 0 .. Len(s)
    BY DEF Units
  <1>2. SubSeq(s, 1, Len(s)) = s
    BY SubSeqFull DEF Units
  <1>3. SubSeq(s, 1, 0) = <<>>
    BY SubSeqEmpty
  <1>4. Begins(s, s)
    BY <1>1 DEF Begins
  <1> QED
    BY <1>1, <1>2, <1>3, <1>4, Zenon DEF Beginnings

LEMMA BeginsJoined ==
    ASSUME NEW b \in Units, NEW s \in Units, NEW t \in Units, NEW r \in Units
    PROVE  /\ Begins(b \o s, r) /\ Begins(t, s) => Begins(b \o t, r)
           /\ Begins(b \o s, r) => Begins(b, r) /\ Len(b) + Len(s) <= Len(r)
  <1>1. Len(b) \in Nat /\ Len(s) \in Nat /\ Len(t) \in Nat /\ Len(r) \in Nat
    BY DEF Units
  <1>2. /\ Len(b \o s) = Len(b) + Len(s)
        /\ \A i \in 1 .. Len(b) + Len(s) :
             (b \o s)[i] = IF i <= Len(b) THEN b[i] ELSE s[i - Len(b)]
    BY ConcatProperties, Zenon DEF Units
  <1>3. /\ Len(b \o t) = Len(b) + Len(t)
        /\ \A i \in 1 .. Len(b) + Len(t) :
             (b \o t)[i] = IF i <= Len(b) THEN b[i] ELSE t[i - Len(b)]
    BY ConcatProperties, Zenon DEF Units
  <1> DEFINE bs == b \o s
             bt == b \o t
  <1> HIDE DEF bs, bt
  <1>4. Begins(bs, r) => Begins(b, r) /\ Len(b) + Len(s) <= Len(r)
    BY <1>1, <1>2 DEF Begins, bs
  <1>5. ASSUME Begins(bs, r), Begins(t, s) PROVE Begins(bt, r)
    <2>1. Len(t) <= Len(s) /\ \A i \in 1 .. Len(t) : t[i] = s[i]
      BY <1>5 DEF Begins
    <2>2. \A i \in 1 .. Len(b) + Len(t) : bt[i] = bs[i]
      <3> SUFFICES ASSUME NEW i \in 1 .. Len(b) + Len(t) PROVE bt[i] = bs[i]
        OBVIOUS
      <3>1. i \in 1 .. Len(b) + Len(s)
        BY <1>1, <2>1
      <3>2. bs[i] = IF i <= Len(b) THEN b[i] ELSE s[i - Len(b)]
        BY <1>2, <3>1, Zenon DEF bs
      <3>3. bt[i] = IF i <= Len(b) THEN b[i] ELSE t[i - Len(b)]
        BY <1>3, Zenon DEF bt
      <3>4. ~ (i <= Len(b)) => i - Len(b) \in 1 .. Len(t)
        BY <1>1
      <3>5. ~ (i <= Len(b)) => t[i - Len(b)] = s[i - Len(b)]
        BY <2>1, <3>4, Zenon
      <3>6. CASE i <= Len(b)
        BY <3>2, <3>3, <3>6
      <3>7. CASE ~ (i <= Len(b))
        BY <3>2, <3>3, <3>5, <3>7
      <3> QED BY <3>6, <3>7
    <2>3. Len(bt) = Len(b) + Len(t) /\ Len(bs) = Len(b) + Len(s)
      BY <1>2, <1>3 DEF bs, bt
    <2> QED
      BY <1>1, <1>5, <2>1, <2>2, <2>3 DEF Begins
  <1> QED
    BY <1>4, <1>5 DEF bs, bt

LEMMA NoUnits == <<>> \in Units
  BY DEF Units

LEMMA JoinedThree ==
    ASSUME NEW s \in Units, NEW a \in Units, NEW b \in Units
    PROVE  (s \o a) \o b = s \o (a \o b)
  BY ConcatAssociative DEF Units

LEMMA JoinedUnits ==
    ASSUME NEW s \in Units, NEW t \in Units
    PROVE  s \o t \in Units /\ <<>> \o t = t /\ s \o <<>> = s
  BY ConcatProperties, ConcatEmptySeq DEF Units

-----------------------------------------------------------------------------
(* The invariant holds at first.                                           *)

LEMMA InitConn == Init => ConnInv
  <1> SUFFICES ASSUME Init PROVE ConnInv
    OBVIOUS
  <1> USE DEF Init
  <1>1. View \in RequestType /\ View.body = <<>> /\ View.method # "POST"
    BY DEF RequestType, View
  <1>2. View.body \in Units /\ Message(View) \in Units
    BY <1>1, RequestUnits
  <1>3. StreamsOK /\ BasicOK
    BY <1>1, <1>2 DEF StreamsOK, BasicOK
  <1>4. PeerOK
    BY DEF PeerOK, Early
  <1>5. StartOK
    BY <1>2, NothingBegins DEF StartOK, Unanswered
  <1>6. BodyOK /\ RefusalOK
    BY <1>2, NothingBegins DEF BodyOK, RefusalOK, Served, Refused, IsPost
  <1>7. TakenOK /\ AnswerOK
    BY <1>1
       DEF TakenOK, AnswerOK, IsPost, OkMeansTaken, IsTaken, Served, Refused,
           FailsOnlyWhenCut
  <1> QED
    BY <1>3, <1>4, <1>5, <1>6, <1>7 DEF ConnInv

-----------------------------------------------------------------------------
(* Steps of the peer.                                                      *)

LEMMA NothingSaid == ~Promises(<<>>)
  BY HasNothing DEF Promises, SaysOk

LEMMA ConnectConn ==
    ASSUME ConnInv, NEW r \in RequestType, Connect(r)
    PROVE  ConnInv'
  <1> USE DEF Connect, threadVars
  <1>1. pc = "listen" /\ up = <<>> /\ verdict = "none" /\ pc \in Early
    BY DEF ConnInv, PeerOK, Early
  <1>2. first = <<>> /\ body = <<>> /\ content_length = 0 /\ Unanswered
    BY <1>1 DEF ConnInv, StartOK
  <1>3. StreamsOK' /\ BasicOK'
    BY DEF ConnInv, StreamsOK, BasicOK
  <1>4. PeerOK'
    BY <1>1, <1>2 DEF PeerOK, Early, Unanswered
  <1>5. StartOK' /\ BodyOK'
    BY <1>1, <1>2, RequestUnits, NothingBegins DEF StartOK, BodyOK, Unanswered
  <1>6. RefusalOK' /\ AnswerOK'
    BY <1>1
       DEF RefusalOK, AnswerOK, FailsOnlyWhenCut, IsTaken, Refused, IsPost, Served
  <1>7. TakenOK'
    BY <1>1, <1>2, NothingSaid
       DEF TakenOK, OkMeansTaken, Unanswered, IsTaken, Served, Refused, IsPost
  <1> QED
    BY <1>3, <1>4, <1>5, <1>6, <1>7 DEF ConnInv

LEMMA SendConn ==
    ASSUME ConnInv, Send
    PROVE  ConnInv'
  <1> USE DEF Send, threadVars
  <1>1. up = <<>> /\ (pc \in Early \/ broken) /\ pc # "body" /\ got = <<>>
    BY DEF ConnInv, PeerOK
  <1>2. pc # "closed" \/ broken
    BY <1>1 DEF Early
  <1>3. Message(request) \in Units /\ Begins(Message(request), Message(request))
    BY RequestUnits, SelfBeginning DEF ConnInv, BasicOK
  <1>4. StreamsOK' /\ BasicOK'
    BY <1>3 DEF ConnInv, StreamsOK, BasicOK
  <1>5. PeerOK'
    BY <1>1, HasNothing DEF ConnInv, PeerOK, Enough
  <1>6. StartOK'
    BY <1>1, <1>3 DEF ConnInv, StartOK, Unanswered
  <1>7. BodyOK' /\ RefusalOK' /\ TakenOK'
    BY <1>1
       DEF ConnInv, BodyOK, RefusalOK, TakenOK, OkMeansTaken, Unanswered, Refused,
           IsPost, IsTaken, Served
  <1>8. AnswerOK'
    BY <1>1 DEF ConnInv, AnswerOK, Refused, IsPost, Early, FailsOnlyWhenCut, IsTaken
  <1> QED
    BY <1>4, <1>5, <1>6, <1>7, <1>8 DEF ConnInv

LEMMA OneOrMore == \A n \in Nat : n > 0 => n >= 2 \/ n = 1
  OBVIOUS

LEMMA OneUnit ==
    ASSUME NEW s \in Units, NEW u, Len(s) = 1, s[1] = u
    PROVE  s = <<u>>
  <1> DEFINE t == <<u>>
  <1>1. u \in Unit
    BY ElementOfSeq DEF Units
  <1>2. t \in Seq(Unit) /\ Len(t) = 1 /\ t[1] = u
    BY <1>1
  <1> HIDE DEF t
  <1>3. s = t
    BY <1>2, SeqEqual DEF Units
  <1> QED
    BY <1>3 DEF t

(***************************************************************************)
(* Whoever has read something of the ok answer has read its code, or the   *)
(* first unit alone.                                                       *)
(***************************************************************************)
OkBegun(g) == (Has(g, "200") \/ g = <<"version">>) /\ ~Has(g, "301")

LEMMA JoinSplits ==
    ASSUME NEW s \in Units, NEW a \in Units, NEW b \in Units, Len(a) > 0
    PROVE  /\ s \o a \in Units /\ s \o a # <<>>
           /\ (s \o a) \o b = s \o (a \o b)
           /\ s \o (a \o b) = OkAnswer => OkBegun(s \o a)
  <1>1. Len(s) \in Nat /\ Len(a) \in Nat /\ Len(b) \in Nat
    BY DEF Units
  <1> DEFINE g == s \o a
  <1>2. g \in Units /\ Len(g) = Len(s) + Len(a)
    BY ConcatProperties DEF Units
  <1>3. g \o b = s \o (a \o b)
    BY ConcatAssociative, SMTT(30) DEF Units
  <1> HIDE DEF g
  <1>4. Len(g) \in Nat /\ Len(g) > 0
    BY <1>1, <1>2
  <1>5. g # <<>>
    BY <1>4
  <1>6. /\ Len(g \o b) = Len(g) + Len(b)
        /\ \A i \in 1 .. Len(g) + Len(b) :
              (g \o b)[i] = IF i <= Len(g) THEN g[i] ELSE b[i - Len(g)]
    <2>1. g \in Seq(Unit) /\ b \in Seq(Unit)
      BY <1>2 DEF Units
    <2> QED
      BY <2>1, ConcatProperties, Zenon
  <1>7. ASSUME g \o b = OkAnswer PROVE OkBegun(g)
    <2>1. \A i \in 1 .. Len(g) : i \in 1 .. Len(OkAnswer) /\ g[i] = OkAnswer[i]
      <3> SUFFICES ASSUME NEW i \in 1 .. Len(g)
                   PROVE  i \in 1 .. Len(OkAnswer) /\ g[i] = OkAnswer[i]
        OBVIOUS
      <3>1. i \in 1 .. Len(g) + Len(b) /\ i <= Len(g)
        BY <1>1, <1>4
      <3>2. (g \o b)[i] = g[i]
        BY <1>6, <3>1
      <3> QED
        BY <1>6, <1>7, <3>1, <3>2
    <2>2. ~Has(g, "301")
      BY <2>1, AnswerUnits DEF Has
    <2>3. CASE Len(g) >= 2
      <3>1. 2 \in 1 .. Len(g)
        BY <1>4, <2>3
      <3>2. g[2] = "200"
        BY <2>1, <3>1, AnswerUnits
      <3> QED
        BY <2>2, <3>1, <3>2 DEF OkBegun, Has
    <2>4. CASE Len(g) = 1
      <3>1. g[1] = "version"
        BY <2>1, <2>4, AnswerUnits
      <3>2. g = <<"version">>
        BY <1>2, <2>4, <3>1, OneUnit, Zenon
      <3> QED
        BY <2>2, <3>2 DEF OkBegun
    <2>5. Len(g) >= 2 \/ Len(g) = 1
      BY <1>4, OneOrMore, Zenon
    <2> QED
      BY <2>3, <2>4, <2>5
  <1> QED
    BY <1>2, <1>3, <1>5, <1>7 DEF g

(***************************************************************************)
(* What was read and what is left to read stay the same answer.            *)
(***************************************************************************)
LEMMA ReadSplits ==
    ASSUME ConnInv, NEW n \in 1 .. Len(down)
    PROVE  LET g == got \o SubSeq(down, 1, n)
               rest == SubSeq(down, n + 1, Len(down)) IN
           /\ g \in Units /\ rest \in Units /\ g # <<>>
           /\ g \o rest = got \o down
           /\ Promises(g) \/ Promises(rest) => Promises(got) \/ Promises(down)
           /\ got \o down = OkAnswer => OkBegun(g)
  <1>1. got \in Units /\ down \in Units /\ Len(down) \in Nat
    BY DEF ConnInv, StreamsOK, Units
  <1>2. n \in 0 .. Len(down) /\ n > 0
    BY <1>1
  <1> DEFINE part == SubSeq(down, 1, n)
             rest == SubSeq(down, n + 1, Len(down))
  <1>3. part \in Units /\ Len(part) = n /\ rest \in Units
    BY <1>1, <1>2, FirstUnits
  <1>4. part \o rest = down
    BY <1>1, <1>2, Rejoined
  <1>5. \A u : (Has(part, u) => Has(down, u)) /\ (Has(rest, u) => Has(down, u))
    BY <1>1, <1>2, HasFirst
  <1> HIDE DEF part, rest
  <1>6. /\ got \o part \in Units /\ got \o part # <<>>
        /\ (got \o part) \o rest = got \o (part \o rest)
        /\ got \o (part \o rest) = OkAnswer => OkBegun(got \o part)
    <2>1. Len(part) > 0
      BY <1>2, <1>3
    <2> QED
      BY <1>1, <1>3, <2>1, JoinSplits, Zenon
  <1>7. Promises(got \o part) \/ Promises(rest) => Promises(got) \/ Promises(down)
    BY <1>1, <1>3, <1>5, HasJoined DEF Promises, SaysOk
  <1> QED
    BY <1>3, <1>4, <1>6, <1>7 DEF part, rest

LEMMA ReadConn ==
    ASSUME ConnInv, Read
    PROVE  ConnInv'
  <1>1. PICK n \in 1 .. Len(down) :
          LET g == got \o SubSeq(down, 1, n) IN
          /\ down' = SubSeq(down, n + 1, Len(down))
          /\ got' = g
          /\ IF Enough(g)
             THEN /\ peer' = "done"
                  /\ verdict' \in Verdicts(g)
             ELSE UNCHANGED <<peer, verdict>>
    BY DEF Read
  <1>2. UNCHANGED <<up, broken, request, pc, first, content_length, body, taken>>
        /\ peer = "waiting" /\ verdict = "none"
    BY DEF Read, threadVars, ConnInv, PeerOK
  <1>3. /\ got' \in Units /\ down' \in Units
        /\ got' \o down' = got \o down
        /\ Promises(got') \/ Promises(down') => Promises(got) \/ Promises(down)
        /\ got \o down = OkAnswer => OkBegun(got')
    BY <1>1, ReadSplits
  <1>4. down # <<>>
    BY <1>1
  <1>5. pc \in {"view", "close", "closed"}
    BY <1>4
       DEF ConnInv, BasicOK, StartOK, BodyOK, RefusalOK, Unanswered, Early,
           Served, Refused, IsPost
  <1>6. \/ peer' = "waiting" /\ verdict' = "none" /\ ~Enough(got')
        \/ peer' = "done" /\ verdict' = "ok" /\ Promises(got')
        \/ /\ peer' = "done" /\ verdict' = "failed" /\ Enough(got')
           /\ SaysOk(got') => Has(got', "301")
    BY <1>1, <1>2 DEF Verdicts, Promises
  <1>7. got' = <<"version">> /\ Enough(got') => request.reader = "recv"
    BY DEF Enough, Has
  <1>8. OkBegun(got') => SaysOk(got') \/ got' = <<"version">>
    BY DEF OkBegun, SaysOk, Promises
  <1>9. StreamsOK' /\ BasicOK'
    BY <1>2, <1>3, <1>6 DEF ConnInv, StreamsOK, BasicOK
  <1>10. PeerOK'
    BY <1>2, <1>6 DEF PeerOK, Enough
  <1>11. StartOK' /\ BodyOK' /\ RefusalOK'
    BY <1>2, <1>5
       DEF ConnInv, StartOK, BodyOK, RefusalOK, Early, IsPost, Served, Refused
  <1>12. TakenOK'
    BY <1>2, <1>3, <1>6
       DEF ConnInv, TakenOK, OkMeansTaken, IsPost, IsTaken, Served, Refused
  <1>13. AnswerOK'
    <2>1. IsPost /\ ~broken =>
             \/ Refused
             \/ /\ pc \in {"close", "closed"} /\ IsTaken /\ OkBegun(got')
                /\ got' \o down' = OkAnswer /\ (pc = "close" => up = <<>>)
      BY <1>2, <1>3, <1>5
         DEF ConnInv, AnswerOK, RefusalOK, Served, FailsOnlyWhenCut, IsTaken,
             Refused, IsPost
    <2>2. IsPost' /\ ~broken' /\ verdict' = "failed" => FailsOnlyWhenCut'
      BY <1>2, <1>6, <1>7, <1>8, <2>1
         DEF FailsOnlyWhenCut, Refused, IsPost, IsTaken, OkBegun
    <2> QED
      BY <1>2, <1>5, <2>1, <2>2
         DEF AnswerOK, Refused, IsPost, IsTaken, FailsOnlyWhenCut
  <1> QED
    BY <1>9, <1>10, <1>11, <1>12, <1>13 DEF ConnInv

LEMMA ReadEndConn ==
    ASSUME ConnInv, ReadEnd
    PROVE  ConnInv'
  <1> USE DEF ReadEnd, threadVars
  <1>1. StreamsOK' /\ BasicOK' /\ PeerOK'
    BY DEF ConnInv, StreamsOK, BasicOK, PeerOK
  <1>2. StartOK' /\ BodyOK' /\ RefusalOK'
    BY DEF ConnInv, StartOK, BodyOK, RefusalOK, Unanswered, Refused, IsPost, Served
  <1>3. TakenOK'
    BY DEF ConnInv, TakenOK, OkMeansTaken, IsPost, IsTaken, Served, Refused
  <1>4. got \o down # OkAnswer
    <2>1. got \o down = got
      BY JoinedUnits DEF ConnInv, StreamsOK
    <2>2. ~Enough(got)
      BY DEF ConnInv, PeerOK
    <2> QED
      BY <2>1, <2>2, AnswerUnits DEF Enough
  <1>5. AnswerOK'
    BY <1>4 DEF ConnInv, AnswerOK, Refused, IsPost, FailsOnlyWhenCut, IsTaken
  <1> QED
    BY <1>1, <1>2, <1>3, <1>5 DEF ConnInv

(***************************************************************************)
(* What is under way may be cut without harm to what has arrived.          *)
(***************************************************************************)
LEMMA CutConn ==
    ASSUME ConnInv, up' \in Beginnings(up), down' \in Beginnings(down),
           UNCHANGED <<request, got, verdict, pc, first, content_length, body, taken>>
    PROVE  StreamsOK' /\ StartOK' /\ BodyOK' /\ RefusalOK' /\ TakenOK'
  <1>1. up \in Units /\ down \in Units /\ body \in Units
    BY DEF ConnInv, StreamsOK
  <1>2. /\ up' \in Units /\ Begins(up', up)
        /\ down' \in Units /\ \A u : Has(down', u) => Has(down, u)
    BY <1>1, BeginningsOf
  <1>3. request.body \in Units /\ Message(request) \in Units
    BY RequestUnits DEF ConnInv, BasicOK
  <1>4. down = <<>> => down' = <<>>
    BY <1>2, BeginningsOf, EmptySeq DEF Begins, Beginnings, Units
  <1>5. StreamsOK'
    BY <1>2 DEF ConnInv, StreamsOK
  <1>6. StartOK'
    BY <1>1, <1>2, <1>3, <1>4, BeginsTransitive DEF ConnInv, StartOK, Unanswered
  <1>7. BodyOK'
    BY <1>1, <1>2, <1>3, <1>4, BeginsJoined DEF ConnInv, BodyOK, IsPost, Unanswered
  <1>8. RefusalOK'
    BY <1>4 DEF ConnInv, RefusalOK, Refused, IsPost, Unanswered, Served
  <1>9. TakenOK'
    BY <1>2
       DEF ConnInv, TakenOK, OkMeansTaken, IsPost, SaysOk, IsTaken, Served,
           Refused, Promises
  <1> QED
    BY <1>5, <1>6, <1>7, <1>8, <1>9

LEMMA DieConn ==
    ASSUME ConnInv, Die
    PROVE  ConnInv'
  <1>1. up' \in Beginnings(up) /\ down' \in Beginnings(down)
    BY SelfBeginning DEF Die, ConnInv, StreamsOK
  <1>2. /\ UNCHANGED <<broken, request, got, verdict, pc, first, content_length, body, taken>>
        /\ peer' \in {"gone", "vanished"}
    BY DEF Die, threadVars
  <1>3. StreamsOK' /\ StartOK' /\ BodyOK' /\ RefusalOK' /\ TakenOK'
    BY <1>1, <1>2, CutConn
  <1>4. BasicOK' /\ PeerOK'
    BY <1>2 DEF ConnInv, BasicOK, PeerOK
  <1>5. AnswerOK'
    BY <1>2 DEF ConnInv, AnswerOK, Refused, IsPost, FailsOnlyWhenCut, IsTaken
  <1> QED
    BY <1>3, <1>4, <1>5 DEF ConnInv

LEMMA BreakConn ==
    ASSUME ConnInv, Break
    PROVE  ConnInv'
  <1>1. up' \in Beginnings(up) /\ down' \in Beginnings(down)
    BY DEF Break
  <1>2. /\ UNCHANGED <<request, got, verdict, pc, first, content_length, body, taken, peer>>
        /\ broken' = TRUE
    BY DEF Break, threadVars, peerVars
  <1>3. StreamsOK' /\ StartOK' /\ BodyOK' /\ RefusalOK' /\ TakenOK'
    BY <1>1, <1>2, CutConn
  <1>4. up = <<>> => up' = <<>>
    BY <1>1 DEF Beginnings
  <1>5. BasicOK' /\ PeerOK'
    BY <1>2, <1>4 DEF ConnInv, BasicOK, PeerOK, Enough
  <1>6. AnswerOK'
    BY <1>2 DEF AnswerOK, FailsOnlyWhenCut, IsTaken, Refused, IsPost
  <1> QED
    BY <1>3, <1>5, <1>6 DEF ConnInv

-----------------------------------------------------------------------------
(* Steps of the server.                                                    *)

LEMMA AcceptConn ==
    ASSUME ConnInv, Accept
    PROVE  ConnInv'
  <1> USE DEF Accept, threadVars, peerVars
  <1>1. StreamsOK' /\ BasicOK'
    BY DEF ConnInv, StreamsOK, BasicOK
  <1>2. PeerOK'
    BY DEF ConnInv, PeerOK, Enough, Early
  <1>3. StartOK' /\ BodyOK' /\ RefusalOK'
    BY DEF ConnInv, StartOK, BodyOK, RefusalOK, Unanswered, Early, IsPost, Served,
           Refused
  <1>4. TakenOK' /\ AnswerOK'
    BY DEF ConnInv, TakenOK, OkMeansTaken, AnswerOK, IsPost, Refused, IsTaken,
           Served, FailsOnlyWhenCut
  <1> QED
    BY <1>1, <1>2, <1>3, <1>4 DEF ConnInv

(***************************************************************************)
(* The first piece begins the request: with less than two units there is   *)
(* no target, and with the header's end there are four and a beginning of  *)
(* the body.                                                               *)
(***************************************************************************)
LEMMA FirstPiece ==
    ASSUME NEW r \in RequestType, NEW s \in Units, Begins(s, Message(r)),
           NEW n \in 1 .. Len(s)
    PROVE  LET piece == SubSeq(s, 1, n)
               rest == SubSeq(s, n + 1, Len(s)) IN
           /\ piece \in Units /\ rest \in Units
           /\ ~Has(piece, "target") => ~HeaderCame(piece)
           /\ HeaderCame(piece) =>
                /\ BodyStart(piece) \in Units
                /\ Begins(BodyStart(piece) \o rest, r.body)
  <1> DEFINE piece == SubSeq(s, 1, n)
             rest == SubSeq(s, n + 1, Len(s))
  <1>1. Len(s) \in Nat /\ n \in 0 .. Len(s) /\ n \in Nat /\ n > 0 /\ n <= Len(s)
    BY DEF Units
  <1>2. /\ piece \in Units /\ Len(piece) = n /\ \A i \in 1 .. n : piece[i] = s[i]
        /\ rest \in Units /\ Len(rest) = Len(s) - n
        /\ \A i \in 1 .. (Len(s) - n) : rest[i] = s[n + i]
    BY <1>1, FirstUnits
  <1> HIDE DEF piece, rest
  <1>3. /\ r.body \in Units /\ Len(r.body) \in Nat
        /\ Len(s) <= 4 + Len(r.body)
        /\ \A i \in 1 .. Len(s) : s[i] = Message(r)[i]
    BY RequestUnits DEF Begins, Units
  <1>4. Message(r)[1] # "end" /\ Message(r)[2] # "end" /\ Message(r)[3] # "end"
    BY RequestUnits
  <1>5. HeaderCame(piece) => n >= 4
    <2>1. SUFFICES ASSUME HeaderCame(piece) PROVE n >= 4
      OBVIOUS
    <2>2. PICK i \in 1 .. n : piece[i] = "end"
      BY <1>2, <2>1 DEF HeaderCame, Has
    <2>3. Message(r)[i] = "end"
      BY <1>1, <1>2, <1>3, <2>2
    <2> QED
      BY <1>1, <1>4, <2>2, <2>3
  <1>6. n >= 2 => Has(piece, "target")
    <2>1. SUFFICES ASSUME n >= 2 PROVE Has(piece, "target")
      OBVIOUS
    <2>2. 2 \in 1 .. n /\ 2 \in 1 .. Len(s)
      BY <1>1, <2>1
    <2>3. piece[2] = "target"
      BY <1>2, <1>3, <2>2, RequestUnits
    <2> QED
      BY <1>2, <2>2, <2>3 DEF Has
  <1>7. ASSUME n >= 4
        PROVE  /\ BodyStart(piece) \in Units
               /\ Begins(BodyStart(piece) \o rest, r.body)
    <2> DEFINE b == BodyStart(piece)
    <2>1. \A i \in 5 .. n : piece[i] \in Unit
      BY <1>1, <1>2, ElementOfSeq DEF Units
    <2>2. /\ b \in Units
          /\ Len(b) = n - 4
          /\ \A i \in 1 .. n - 4 : b[i] = piece[4 + i]
      BY <1>1, <1>2, <1>7, <2>1, SubSeqProperties DEF BodyStart, Units
    <2> HIDE DEF b
    <2>3. /\ Len(b \o rest) = Len(b) + Len(rest)
          /\ \A i \in 1 .. Len(b) + Len(rest) :
               (b \o rest)[i] = IF i <= Len(b) THEN b[i] ELSE rest[i - Len(b)]
      BY <1>2, <2>2, ConcatProperties, ZenonT(60) DEF Units
    <2>4. Len(b \o rest) = Len(s) - 4
      BY <1>1, <1>2, <2>2, <2>3
    <2>5. \A i \in 1 .. Len(s) - 4 : (b \o rest)[i] = s[4 + i]
      <3> SUFFICES ASSUME NEW i \in 1 .. Len(s) - 4 PROVE (b \o rest)[i] = s[4 + i]
        OBVIOUS
      <3>1. i \in 1 .. Len(b) + Len(rest)
        BY <1>1, <1>2, <2>2
      <3>2. CASE i <= n - 4
        <4>1. (b \o rest)[i] = b[i] /\ b[i] = piece[4 + i] /\ 4 + i \in 1 .. n
          BY <1>1, <2>2, <2>3, <3>1, <3>2
        <4> QED
          BY <1>2, <4>1
      <3>3. CASE i > n - 4
        <4>1. (b \o rest)[i] = rest[i - (n - 4)]
          BY <1>1, <1>2, <1>7, <2>2, <2>3, <3>1, <3>3
        <4>2. i - (n - 4) \in 1 .. Len(s) - n
          BY <1>1, <1>7, <3>3
        <4>3. rest[i - (n - 4)] = s[n + (i - (n - 4))]
          BY <1>2, <4>2
        <4>4. n + (i - (n - 4)) = 4 + i
          BY <1>1
        <4> QED
          BY <4>1, <4>3, <4>4, Zenon
      <3>4. i <= n - 4 \/ i > n - 4
        BY <1>1
      <3> QED
        BY <3>2, <3>3, <3>4, Zenon
    <2>6. \A i \in 1 .. Len(s) - 4 : s[4 + i] = r.body[i]
      <3> SUFFICES ASSUME NEW i \in 1 .. Len(s) - 4 PROVE s[4 + i] = r.body[i]
        OBVIOUS
      <3>1. 4 + i \in 1 .. Len(s) /\ i \in 1 .. Len(r.body)
        BY <1>1, <1>3
      <3> QED
        BY <1>3, <3>1, RequestUnits
    <2>7. Begins(b \o rest, r.body)
      BY <1>1, <1>3, <2>4, <2>5, <2>6, SMTT(30) DEF Begins
    <2> QED
      BY <2>2, <2>7 DEF b
  <1> QED
    BY <1>1, <1>2, <1>5, <1>6, <1>7 DEF piece, rest

LEMMA RecvFirstConn ==
    ASSUME ConnInv, RecvFirst
    PROVE  ConnInv'
  <1>1. PICK n \in 1 .. Len(up) :
          LET piece == SubSeq(up, 1, n) IN
          /\ up' = SubSeq(up, n + 1, Len(up))
          /\ first' = piece
          /\ \/ /\ ~Has(piece, "target")
                /\ pc' = "close"
                /\ UNCHANGED <<content_length, body>>
             \/ /\ Has(piece, "target")
                /\ request.method = "GET" \/ ~HeaderCame(piece)
                /\ pc' = "handle_request"
                /\ UNCHANGED <<content_length, body>>
             \/ /\ request.method = "POST" /\ HeaderCame(piece)
                /\ content_length' = Announced(request.body)
                /\ \/ /\ body' = BodyStart(piece)
                      /\ pc' = "body"
                   \/ /\ pc' = "nomemory"
                      /\ UNCHANGED body
    BY DEF RecvFirst
  <1>2. /\ UNCHANGED <<down, broken, peer, request, got, verdict, taken>>
        /\ pc = "recv" /\ pc \in Early
    BY DEF RecvFirst, peerVars, Early
  <1>3. /\ Begins(up, Message(request)) /\ body = <<>> /\ content_length = 0
        /\ got = <<>> /\ down = <<>> /\ taken = <<>> /\ verdict # "ok"
    BY <1>2 DEF ConnInv, StartOK, Unanswered
  <1>4. /\ request \in RequestType /\ request.body \in Units /\ Len(request.body) \in Nat
        /\ request.method = "POST" => Len(request.body) > 0
        /\ request.method \in {"POST", "GET"}
    BY RequestUnits DEF ConnInv, BasicOK, Units
  <1>5. /\ first' \in Units /\ up' \in Units
        /\ ~Has(first', "target") => ~HeaderCame(first')
        /\ HeaderCame(first') =>
             /\ BodyStart(first') \in Units
             /\ Begins(BodyStart(first') \o up', request.body)
    <2>1. up \in Units
      BY DEF ConnInv, StreamsOK
    <2> QED
      BY <1>1, <1>3, <1>4, <2>1, FirstPiece
  <1>6. \/ /\ pc' = "close" /\ ~HeaderCame(first')
           /\ body' = <<>> /\ content_length' = 0
        \/ /\ pc' = "handle_request" /\ (IsPost => ~HeaderCame(first'))
           /\ body' = <<>> /\ content_length' = 0
        \/ /\ pc' = "nomemory" /\ IsPost
           /\ body' = <<>> /\ content_length' = Len(request.body)
        \/ /\ pc' = "body" /\ IsPost /\ content_length' = Len(request.body)
           /\ body' \in Units /\ Begins(body' \o up', request.body)
    BY <1>1, <1>3, <1>5 DEF IsPost, Announced
  <1>7. peer \notin {"idle", "connected"}
    BY <1>1 DEF ConnInv, PeerOK
  <1>8. body' \in Units /\ Begins(body', request.body) /\ Len(body') <= content_length'
    <2>1. CASE body' = <<>>
      BY <1>4, <1>6, <2>1, NothingBegins DEF Units
    <2>2. CASE body' # <<>>
      <3>1. /\ body' \in Units /\ Begins(body' \o up', request.body)
            /\ content_length' = Len(request.body)
        BY <1>6, <2>2
      <3>2. Begins(body', request.body)
        BY <1>4, <1>5, <3>1, BeginsJoined
      <3> QED
        BY <3>1, <3>2 DEF Begins
    <2> QED
      BY <2>1, <2>2
  <1>9. StreamsOK'
    BY <1>2, <1>5, <1>8 DEF ConnInv, StreamsOK
  <1>10. BasicOK'
    BY <1>2, <1>4, <1>6 DEF ConnInv, BasicOK
  <1>11. PeerOK'
    BY <1>2, <1>7 DEF ConnInv, PeerOK, Enough
  <1>12. StartOK'
    BY <1>6 DEF StartOK, Early
  <1>13. BodyOK'
    BY <1>2, <1>3, <1>6, <1>8 DEF BodyOK, IsPost, Unanswered
  <1>14. RefusalOK'
    BY <1>2, <1>3, <1>4, <1>6 DEF RefusalOK, Refused, IsPost, Unanswered, Served
  <1>15. TakenOK'
    BY <1>2, <1>3, NothingSaid DEF TakenOK, OkMeansTaken, IsTaken
  <1>16. AnswerOK'
    BY <1>2, <1>6 DEF ConnInv, AnswerOK, Refused, IsPost, FailsOnlyWhenCut, IsTaken
  <1> QED
    BY <1>9, <1>10, <1>11, <1>12, <1>13, <1>14, <1>15, <1>16 DEF ConnInv

LEMMA RecvNothingConn ==
    ASSUME ConnInv, RecvNothing
    PROVE  ConnInv'
  <1> USE DEF RecvNothing, peerVars, threadVars
  <1>1. StreamsOK' /\ BasicOK'
    BY DEF ConnInv, StreamsOK, BasicOK
  <1>2. PeerOK'
    BY DEF ConnInv, PeerOK, Enough, Ended
  <1>3. StartOK' /\ BodyOK' /\ RefusalOK'
    BY DEF ConnInv, StartOK, BodyOK, RefusalOK, Early, IsPost, Served, Refused
  <1>4. TakenOK'
    BY DEF ConnInv, TakenOK, OkMeansTaken, IsPost, IsTaken, Served, Refused
  <1>5. ~HeaderCame(first)
    BY HasNothing DEF ConnInv, StartOK, Early, HeaderCame
  <1>6. AnswerOK'
    BY <1>5 DEF ConnInv, AnswerOK, Refused, IsPost, FailsOnlyWhenCut, IsTaken
  <1> QED
    BY <1>1, <1>2, <1>3, <1>4, <1>6 DEF ConnInv

LEMMA RecvMoreConn ==
    ASSUME ConnInv, RecvMore
    PROVE  ConnInv'
  <1>1. PICK n \in 1 .. Len(up) :
          /\ body' = body \o SubSeq(up, 1, n)
          /\ up' = SubSeq(up, n + 1, Len(up))
    BY DEF RecvMore, Extended
  <1>2. /\ UNCHANGED <<down, broken, peer, request, got, verdict, pc, first,
                       content_length, taken>>
        /\ pc = "body"
    BY DEF RecvMore, peerVars
  <1>3. /\ IsPost /\ content_length = Len(request.body)
        /\ Begins(body \o up, request.body)
        /\ Unanswered
    BY <1>2 DEF ConnInv, BodyOK
  <1>4. up \in Units /\ body \in Units /\ n \in 0 .. Len(up)
    BY DEF ConnInv, StreamsOK, Units
  <1>5. request.body \in Units
    BY RequestUnits DEF ConnInv, BasicOK
  <1>6. /\ SubSeq(up, 1, n) \in Units /\ up' \in Units
        /\ SubSeq(up, 1, n) \o up' = up
    BY <1>1, <1>4, FirstUnits, Rejoined
  <1> DEFINE piece == SubSeq(up, 1, n)
  <1> HIDE DEF piece
  <1>7. body' \in Units /\ body' \o up' = body \o up
    <2>1. body' = body \o piece /\ piece \in Units /\ piece \o up' = up
      BY <1>1, <1>6 DEF piece
    <2>2. body \o piece \in Units
      BY <1>4, <2>1, ConcatProperties DEF Units
    <2>3. (body \o piece) \o up' = body \o (piece \o up')
      BY <1>4, <1>6, <2>1, JoinedThree, ZenonT(60)
    <2> QED
      BY <2>1, <2>2, <2>3, Zenon
  <1>8. Begins(body' \o up', request.body) /\ Begins(body', request.body)
    BY <1>3, <1>5, <1>6, <1>7, BeginsJoined, Zenon
  <1>9. Len(body') <= content_length'
    BY <1>2, <1>3, <1>8 DEF Begins
  <1>10. peer \notin {"idle", "connected"}
    BY <1>2 DEF ConnInv, PeerOK
  <1>11. StreamsOK' /\ BasicOK'
    BY <1>2, <1>6, <1>7 DEF ConnInv, StreamsOK, BasicOK
  <1>12. PeerOK'
    BY <1>2, <1>10 DEF ConnInv, PeerOK, Enough
  <1>13. StartOK' /\ RefusalOK'
    BY <1>2 DEF StartOK, RefusalOK, Early, Served, Refused, IsPost
  <1>14. BodyOK'
    BY <1>2, <1>3, <1>8, <1>9 DEF BodyOK, IsPost, Unanswered
  <1>15. TakenOK' /\ AnswerOK'
    BY <1>2, <1>3, NothingSaid
       DEF ConnInv, Unanswered, TakenOK, OkMeansTaken, AnswerOK, IsPost, IsTaken,
           Served, Refused, FailsOnlyWhenCut
  <1> QED
    BY <1>11, <1>12, <1>13, <1>14, <1>15 DEF ConnInv

(***************************************************************************)
(* A peer that waits on a connection that held is answered ok for the      *)
(* whole of a report only; nobody else is answered.                        *)
(***************************************************************************)
LEMMA ParseConn ==
    ASSUME ConnInv, Parse
    PROVE  ConnInv'
  <1>1. /\ UNCHANGED <<up, broken, peer, request, got, verdict, first, content_length, body>>
        /\ pc = "body"
    BY DEF Parse, peerVars
  <1>2. /\ IsPost /\ content_length = Len(request.body)
        /\ Begins(body \o up, request.body)
        /\ Begins(body, request.body) /\ Len(body) <= content_length
        /\ got = <<>> /\ down = <<>> /\ taken = <<>> /\ verdict # "ok"
    BY <1>1 DEF ConnInv, BodyOK, Unanswered
  <1>3. /\ request \in RequestType /\ request.body \in Units
        /\ Len(request.body) \in Nat /\ Len(request.body) > 0
        /\ body \in Units /\ up \in Units /\ Len(body) \in Nat /\ Len(up) \in Nat
    BY <1>2, RequestUnits DEF ConnInv, BasicOK, StreamsOK, Units, IsPost
  <1>4. peer \notin {"idle", "connected"}
    BY <1>1 DEF ConnInv, PeerOK
  <1>5. verdict # "failed" \/ broken
    BY <1>1, <1>2 DEF ConnInv, AnswerOK, FailsOnlyWhenCut, IsTaken, Refused, IsPost
  <1>6. \/ /\ body = <<>> /\ pc' = "handle_request" /\ taken' = <<>> /\ down' = <<>>
        \/ /\ pc' = "close" /\ taken' \in {<<>>, <<request.body>>}
           /\ broken \/ peer # "waiting"
           /\ down' = <<>>
        \/ /\ pc' = "close" /\ taken' = <<request.body>>
           /\ up = <<>> /\ down' = OkAnswer
    <2>1. CASE body = <<>>
      BY <1>2, <2>1 DEF Parse
    <2>2. CASE body # <<>>
      <3>1. /\ taken' = IF Len(body) = Len(request.body) THEN <<body>> ELSE <<>>
            /\ down' = IF broken \/ peer # "waiting" THEN <<>> ELSE <<>> \o OkAnswer
            /\ pc' = "close"
        BY <1>2, <2>2 DEF Parse, Answer
      <3>2. Len(body) = Len(request.body) => body = request.body
        BY <1>2, <1>3, BeginsAll
      <3>3. taken' \in {<<>>, <<request.body>>}
        BY <3>1, <3>2
      <3>4. CASE broken \/ peer # "waiting"
        BY <3>1, <3>3, <3>4
      <3>5. CASE ~(broken \/ peer # "waiting")
        <4>1. Len(body) = Len(request.body)
          BY <1>2, <1>3, <3>5 DEF Parse, LoopEnds, Ended
        <4>2. taken' = <<request.body>>
          BY <3>1, <3>2, <4>1
        <4>3. Len(body) + Len(up) <= Len(request.body)
          BY <1>2, <1>3, BeginsJoined
        <4>4. up = <<>>
          BY <1>3, <4>1, <4>3, EmptySeq DEF Units
        <4>5. down' = OkAnswer
          BY <3>1, <3>5, JoinedUnits, AnswerUnits
        <4> QED
          BY <3>1, <4>2, <4>4, <4>5
      <3> QED
        BY <3>4, <3>5
    <2> QED
      BY <2>1, <2>2
  <1>7. down' \in Units
    BY <1>6, AnswerUnits, NoUnits
  <1>8. StreamsOK' /\ BasicOK'
    BY <1>1, <1>6, <1>7 DEF ConnInv, StreamsOK, BasicOK
  <1>9. PeerOK'
    BY <1>1, <1>4 DEF ConnInv, PeerOK, Enough
  <1>10. StartOK'
    BY <1>6 DEF StartOK, Early
  <1>11. BodyOK'
    BY <1>1, <1>2, <1>6 DEF BodyOK
  <1>12. RefusalOK'
    BY <1>1, <1>2, <1>3, <1>6 DEF RefusalOK, Unanswered, Refused, Served, IsPost
  <1>13. TakenOK'
    <2>1. taken' \in {<<>>, <<request'.body>>}
      BY <1>1, <1>6
    <2>2. ~Promises(got')
      BY <1>1, <1>2, NothingSaid
    <2>3. Promises(down') => taken' = <<request'.body>>
      BY <1>1, <1>6, NothingSaid
    <2> QED
      BY <1>1, <1>2, <2>1, <2>2, <2>3
         DEF TakenOK, OkMeansTaken, SaysOk, IsTaken, Served, Refused, IsPost,
             Promises
  <1>14. AnswerOK'
    <2>1. down' = OkAnswer => got' \o down' = OkAnswer
      BY <1>1, <1>2, JoinedUnits, AnswerUnits
    <2> QED
      BY <1>1, <1>5, <1>6, <2>1
         DEF AnswerOK, FailsOnlyWhenCut, IsTaken, Refused, IsPost
  <1> QED
    BY <1>8, <1>9, <1>10, <1>11, <1>12, <1>13, <1>14 DEF ConnInv

LEMMA HandleRequestConn ==
    ASSUME ConnInv, HandleRequest
    PROVE  ConnInv'
  <1>1. /\ UNCHANGED <<up, broken, peer, request, got, verdict, first,
                       content_length, body, taken>>
        /\ pc \in {"handle_request", "nomemory"}
    BY DEF HandleRequest, peerVars, threadVars
  <1>2. /\ got = <<>> /\ down = <<>> /\ taken = <<>> /\ verdict # "ok"
        /\ IsPost => Refused
    BY <1>1 DEF ConnInv, RefusalOK, Unanswered, Served, Refused, IsPost
  <1>3. \/ request.target # "put" /\ pc' = "view" /\ down' \in {<<>>, ViewHeader}
        \/ request.target # "put" /\ pc' = "close" /\ down' \in {<<>>, Redirect}
        \/ pc' = "close" /\ down' \in {<<>>, NotFound}
    BY <1>2, JoinedUnits, AnswerUnits DEF HandleRequest, Answer
  <1>4. pc' = "view" => request.target # "put"
    BY <1>3
  <1>5. down' \in Units /\ (Promises(down') => request.target # "put")
    BY <1>3, AnswerUnits, NothingSaid, NoUnits
  <1>6. StreamsOK' /\ BasicOK'
    BY <1>1, <1>3, <1>5 DEF ConnInv, StreamsOK, BasicOK
  <1>7. PeerOK'
    BY <1>1, <1>2, <1>3, <1>4 DEF ConnInv, PeerOK, Enough, Early
  <1>8. StartOK' /\ BodyOK' /\ RefusalOK'
    BY <1>1, <1>2, <1>3, <1>4
       DEF ConnInv, StartOK, BodyOK, RefusalOK, Early, IsPost, Served, Refused
  <1>9. TakenOK'
    <2>1. ~Promises(got)
      BY <1>2, NothingSaid
    <2> QED
      BY <1>1, <1>2, <1>5, <2>1
         DEF TakenOK, OkMeansTaken, IsPost, SaysOk, IsTaken, Served, Refused,
             Promises
  <1>10. AnswerOK'
    BY <1>1, <1>2, <1>3
       DEF ConnInv, AnswerOK, IsPost, Refused, FailsOnlyWhenCut, IsTaken
  <1> QED
    BY <1>6, <1>7, <1>8, <1>9, <1>10 DEF ConnInv

LEMMA SendViewConn ==
    ASSUME ConnInv, SendView
    PROVE  ConnInv'
  <1>1. /\ UNCHANGED <<up, broken, peer, request, got, verdict, first,
                       content_length, body, taken>>
        /\ pc = "view" /\ pc' = "close"
    BY DEF SendView, peerVars, threadVars
  <1>2. IsPost => Served
    BY <1>1 DEF ConnInv, RefusalOK, Served, Refused, IsPost
  <1>3. down' \in Units
    BY JoinedUnits, AnswerUnits DEF SendView, Answer, ConnInv, StreamsOK
  <1>4. StreamsOK' /\ BasicOK'
    BY <1>1, <1>3 DEF ConnInv, StreamsOK, BasicOK
  <1>5. PeerOK'
    BY <1>1 DEF ConnInv, PeerOK, Enough, Early
  <1>6. StartOK' /\ BodyOK' /\ RefusalOK'
    BY <1>1 DEF ConnInv, StartOK, BodyOK, RefusalOK, Early, Served, Refused, IsPost
  <1>7. TakenOK' /\ AnswerOK'
    BY <1>1, <1>2
       DEF ConnInv, TakenOK, OkMeansTaken, AnswerOK, IsPost, IsTaken, Served,
           Refused, FailsOnlyWhenCut
  <1> QED
    BY <1>4, <1>5, <1>6, <1>7 DEF ConnInv

LEMMA CloseConn ==
    ASSUME ConnInv, Close
    PROVE  ConnInv'
  <1>1. /\ UNCHANGED <<broken, peer, request, got, verdict, first,
                       content_length, body, taken>>
        /\ pc = "close" /\ pc' = "closed" /\ up' = <<>>
        /\ up = <<>> => down' = down
    BY DEF Close, peerVars, threadVars
  <1>2. down' \in Beginnings(down)
    BY SelfBeginning DEF Close, ConnInv, StreamsOK
  <1>3. down' \in Units /\ \A u : Has(down', u) => Has(down, u)
    BY <1>2, BeginningsOf DEF ConnInv, StreamsOK
  <1>4. StreamsOK' /\ BasicOK'
    BY <1>1, <1>3 DEF ConnInv, StreamsOK, BasicOK, Units
  <1>5. PeerOK'
    BY <1>1 DEF ConnInv, PeerOK, Enough, Early
  <1>6. StartOK' /\ BodyOK' /\ RefusalOK'
    BY <1>1 DEF ConnInv, StartOK, BodyOK, RefusalOK, Early, Served, Refused, IsPost
  <1>7. TakenOK'
    BY <1>1, <1>3
       DEF ConnInv, TakenOK, OkMeansTaken, IsPost, SaysOk, IsTaken, Served,
           Refused, Promises
  <1>8. AnswerOK'
    BY <1>1 DEF ConnInv, AnswerOK, IsPost, Refused, FailsOnlyWhenCut, IsTaken
  <1> QED
    BY <1>4, <1>5, <1>6, <1>7, <1>8 DEF ConnInv

-----------------------------------------------------------------------------
(* Every step preserves the invariant.                                     *)

LEMMA NextConn == ConnInv /\ [Next]_vars => ConnInv'
  <1> SUFFICES ASSUME ConnInv, [Next]_vars PROVE ConnInv'
    OBVIOUS
  <1>1. ASSUME NEW r \in RequestType, Connect(r) PROVE ConnInv'
    BY <1>1, ConnectConn
  <1>2. CASE Send \/ Read \/ ReadEnd \/ Die \/ Break
    BY <1>2, SendConn, ReadConn, ReadEndConn, DieConn, BreakConn
  <1>3. CASE Accept \/ RecvFirst \/ RecvNothing \/ RecvMore
    BY <1>3, AcceptConn, RecvFirstConn, RecvNothingConn, RecvMoreConn
  <1>4. CASE Parse \/ HandleRequest \/ SendView \/ Close
    BY <1>4, ParseConn, HandleRequestConn, SendViewConn, CloseConn
  <1>5. CASE UNCHANGED vars
    <2> USE <1>5 DEF vars
    <2>1. StreamsOK' /\ BasicOK' /\ PeerOK'
      BY DEF ConnInv, StreamsOK, BasicOK, PeerOK, Enough
    <2>2. StartOK' /\ BodyOK' /\ RefusalOK'
      BY DEF ConnInv, StartOK, BodyOK, RefusalOK, Refused, IsPost, Unanswered,
             Served
    <2>3. TakenOK' /\ AnswerOK'
      BY DEF ConnInv, TakenOK, OkMeansTaken, AnswerOK, Refused, IsPost, IsTaken,
             Served, FailsOnlyWhenCut
    <2> QED
      BY <2>1, <2>2, <2>3 DEF ConnInv
  <1> QED
    BY <1>1, <1>2, <1>3, <1>4, <1>5 DEF Next, Peer, Thread

LEMMA ConnInvariant == Spec => []ConnInv
  BY InitConn, NextConn, PTL DEF Spec

-----------------------------------------------------------------------------
(* Theorems.                                                               *)

(***************************************************************************)
(* Wherever the stream is cut, what the server has of a body begins the    *)
(* body that was sent and fits the memory for it, and what it parses as a  *)
(* report is all of it, at most once.                                      *)
(***************************************************************************)
THEOREM TakenCorrect == Spec => []TakenIsSent
  <1>1. ConnInv => TakenIsSent
    <2> SUFFICES ASSUME ConnInv PROVE TakenIsSent
      OBVIOUS
    <2>1. body \in Units /\ request.body \in Units /\ Begins(body, request.body)
      BY RequestUnits DEF ConnInv, StreamsOK, BasicOK, BodyOK
    <2>2. IsPrefix(body, request.body)
      BY <2>1, BeginsIsPrefix
    <2>3. \A i \in 1 .. Len(body) : \E j \in 1 .. Len(request.body) :
            body[i] = request.body[j]
      <3>1. Len(body) \in Nat /\ Len(request.body) \in Nat
        BY <2>1 DEF Units
      <3>2. \A i \in 1 .. Len(body) :
              i \in 1 .. Len(request.body) /\ body[i] = request.body[i]
        BY <2>1, <3>1 DEF Begins
      <3> QED
        BY <3>2
    <2>4. TypeOK
      BY <2>3 DEF ConnInv, BasicOK, TypeOK
    <2> QED
      BY <2>2, <2>4
         DEF ConnInv, BodyOK, TakenOK, TakenIsSent, OkMeansTaken, IsTaken, Served,
             Refused, IsPost
  <1> QED
    BY <1>1, ConnInvariant, PTL

(***************************************************************************)
(* A client that takes the answer for an ok has had its report parsed,     *)
(* complete, but for one that was refused and whose URL has a page.        *)
(***************************************************************************)
THEOREM OkCorrect == Spec => []OkMeansTaken
  <1>1. ConnInv => OkMeansTaken
    BY DEF ConnInv, TakenOK, OkMeansTaken, IsTaken, Served, Refused, IsPost
  <1> QED
    BY <1>1, ConnInvariant, PTL

(***************************************************************************)
(* A report over a connection that held fails only when its header came in *)
(* pieces, when there was no memory for its body, or when the C client's   *)
(* one recv() ended before the code of the answer, which says ok then.     *)
(***************************************************************************)
THEOREM FailureCorrect == Spec => []FailsOnlyWhenCut
  <1>1. ConnInv => FailsOnlyWhenCut
    BY DEF ConnInv, AnswerOK, FailsOnlyWhenCut, Refused, IsPost, IsTaken
  <1> QED
    BY <1>1, ConnInvariant, PTL
=============================================================================
