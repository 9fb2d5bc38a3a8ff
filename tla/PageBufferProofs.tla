-------------------------- MODULE PageBufferProofs --------------------------
(***************************************************************************)
(* For which sizes an answer fits into its buffer.  The argument is a      *)
(* timetable: Due[p] is the position that is reached at the latest when    *)
(* piece p begins, and Most[p] what one such piece takes at most.          *)
(***************************************************************************)
EXTENDS PageBuffer, SequenceTheorems, TLAPS

Pieces == DOMAIN After \union {"send"}

Timetable(Due, Most) ==
    /\ Due \in [Pieces -> Nat] /\ Most \in [Pieces -> Nat]
    /\ \A p \in Texts : Due[p] + Most[p] <= Due[After[p]]
    /\ \A p \in Loops : Due[p] + MAX_CLIENTS * Most[p] <= Due[After[p]]
    /\ Due["send"] < PAGE_SIZE

(***************************************************************************)
(* What the lengths have to be for a timetable to be kept.                 *)
(***************************************************************************)
Keeps(Most) ==
    /\ \A p \in (DOMAIN After) \ {"script", "entry"} :
          \A n \in Lens[p] : n \in 0 .. Most[p]
    /\ \A n \in Lens["hidden"] : n \in 0 .. Most["hint"]
    /\ \A h \in 1 .. HISTORY_SIZE : \A n \in EntryLens(h) :
          /\ n \in Nat
          /\ n + 1 <= Most["script"]
          /\ n + 1 <= Most["entry"]

Sizes ==
    /\ MAX_CLIENTS \in Nat /\ HISTORY_SIZE \in Nat \ {0} /\ PAGE_SIZE \in Nat \ {0}
    /\ Tables \subseteq {t \in Seq(1 .. HISTORY_SIZE) : Len(t) <= MAX_CLIENTS}

TypeInv ==
    /\ table \in Seq(1 .. HISTORY_SIZE) /\ Len(table) <= MAX_CLIENTS
    /\ part \in Pieces \union {"idle"}
    /\ i \in Nat /\ i <= Len(table) /\ (part \notin Loops => i = 0)
    /\ pos \in Nat

InTime(Due, Most) ==
    /\ part = "idle" => pos = 0
    /\ part \in Pieces => pos <= Due[part] + i * Most[part]

-----------------------------------------------------------------------------
(* Facts about numbers and about the order of the pieces.                  *)

LEMMA ProductGrows ==
    ASSUME NEW a \in Nat, NEW m \in Nat
    PROVE  /\ (a + 1) * m = a * m + m
           /\ 0 * m = 0
           /\ a * m \in Nat
OBVIOUS

LEMMA ProductBounded ==
    ASSUME NEW a \in Nat, NEW b \in Nat, NEW m \in Nat, a <= b
    PROVE  a * m <= b * m
<1>1. PICK d \in Nat : b = a + d
  <2>1. b - a \in Nat /\ b = a + (b - a)
    OBVIOUS
  <2>. QED  BY <2>1
<1>2. b * m = a * m + d * m /\ d * m \in Nat /\ a * m \in Nat
  BY <1>1
<1>. QED  BY <1>2

LEMMA PartsKnown ==
    /\ Texts \union Loops = DOMAIN After
    /\ Texts \intersect Loops = {}
    /\ Texts \subseteq Pieces /\ Loops \subseteq Pieces
    /\ \A p \in DOMAIN After : After[p] \in Pieces
    /\ "send" \notin DOMAIN After /\ "idle" \notin Pieces
    /\ "head" \in Texts /\ "open" \in Texts
    /\ "hint" \in Texts /\ "script" \in Loops /\ "entry" \in Loops
BY DEF Texts, Loops, After, Pieces

-----------------------------------------------------------------------------
(* The invariants.                                                         *)

LEMMA TypeInitial == Sizes /\ Init => TypeInv
BY DEF Sizes, Init, TypeInv, Pieces, Loops

(***************************************************************************)
(* A piece takes no more than its share of the timetable.                  *)
(***************************************************************************)
LEMMA TextKeeps ==
    ASSUME NEW Most, Most \in [Pieces -> Nat], Keeps(Most), part \in Texts
    PROVE  \A n \in TextLens : n \in 0 .. Most[part]
BY PartsKnown DEF TextLens, Keeps, Pieces

LEMMA ClientKeeps ==
    ASSUME NEW Most, Most \in [Pieces -> Nat], Sizes, Keeps(Most), TypeInv,
           part \in Loops, i < Len(table)
    PROVE  \A n \in ClientLens(i + 1) : n \in 0 .. Most[part]
<1>1. table[i + 1] \in 1 .. HISTORY_SIZE
  <2>1. table \in Seq(1 .. HISTORY_SIZE) /\ i + 1 \in 1 .. Len(table)
    BY DEF TypeInv
  <2>. QED  BY <2>1, ElementOfSeq
<1>2. CASE part \in {"script", "entry"}
  BY <1>1, <1>2, PartsKnown DEF ClientLens, Keeps
<1>3. CASE part \notin {"script", "entry"}
  BY <1>3, PartsKnown DEF ClientLens, Keeps
<1>. QED  BY <1>2, <1>3

LEMMA TypeStep ==
    ASSUME NEW Most, Most \in [Pieces -> Nat], Sizes, Keeps(Most), TypeInv, [Next]_vars
    PROVE  TypeInv'
<1>. USE PartsKnown DEF TypeInv
<1>1. CASE Report
  <2>1. i = 0
    BY <1>1 DEF Report, Locked
  <2>2. table' \in Seq(1 .. HISTORY_SIZE) /\ Len(table') <= MAX_CLIENTS
    <3>1. CASE Len(table) < MAX_CLIENTS /\ table' = Append(table, 1)
      BY <3>1 DEF Sizes
    <3>2. ASSUME NEW c \in DOMAIN table,
                 table' = [table EXCEPT ![c] = IF @ < HISTORY_SIZE THEN @ + 1 ELSE @]
          PROVE  table' \in Seq(1 .. HISTORY_SIZE) /\ Len(table') = Len(table)
      <4>1. table[c] \in 1 .. HISTORY_SIZE /\ c \in 1 .. Len(table)
        <5>1. c \in 1 .. Len(table)
          BY <3>2, LenProperties
        <5>. QED  BY <5>1, ElementOfSeq
      <4>2. (IF table[c] < HISTORY_SIZE THEN table[c] + 1 ELSE table[c]) \in 1 .. HISTORY_SIZE
        BY <4>1, SMTT(30) DEF Sizes
      <4>. QED  BY <3>2, <4>1, <4>2, ExceptSeq
    <3>. QED  BY <1>1, <3>1, <3>2 DEF Report
  <2>. QED  BY <1>1, <2>1, <2>2 DEF Report
<1>2. CASE Start
  BY <1>2 DEF Start
<1>3. CASE WriteText
  <2>1. \A n \in TextLens : n \in Nat
    BY <1>3, SMTT(30) DEF WriteText, TextLens, Keeps
  <2>. QED  BY <1>3, <2>1, SMTT(30) DEF WriteText, Write
<1>4. CASE WriteClient
  <2>1. part \in Loops /\ i < Len(table)
    BY <1>4 DEF WriteClient
  <2>2. \A n \in ClientLens(i + 1) : n \in Nat
    BY <2>1, ClientKeeps
  <2>3. PICK n \in ClientLens(i + 1) : pos' = pos + n
    BY <1>4 DEF WriteClient, Write
  <2>4. table' = table /\ part' = part /\ i' = i + 1
    BY <1>4, Zenon DEF WriteClient
  <2>5. pos' \in Nat /\ i' \in Nat /\ i' <= Len(table)
    <3>1. n \in Nat
      BY <2>2, Zenon
    <3>. QED  BY <2>1, <2>3, <2>4, <3>1
  <2>6. table \in Seq(1 .. HISTORY_SIZE) /\ Len(table) <= MAX_CLIENTS /\ part \in Pieces
    BY <2>1
  <2>. HIDE DEF TypeInv
  <2>. QED  BY <2>1, <2>4, <2>5, <2>6 DEF TypeInv
<1>5. CASE LoopEnds
  BY <1>5 DEF LoopEnds
<1>6. CASE Send
  BY <1>6 DEF Send
<1>7. CASE UNCHANGED vars
  BY <1>7 DEF vars
<1>. QED  BY <1>1, <1>2, <1>3, <1>4, <1>5, <1>6, <1>7 DEF Next

LEMMA TimeStep ==
    ASSUME NEW Due, NEW Most, Timetable(Due, Most), Sizes, Keeps(Most),
           TypeInv, TypeInv', InTime(Due, Most), [Next]_vars,
           Due["head"] = 0, Due["open"] = 0
    PROVE  InTime(Due, Most)'
<1>. USE PartsKnown DEF InTime
<1>0. Due \in [Pieces -> Nat] /\ Most \in [Pieces -> Nat] /\ i \in Nat
      /\ \A p \in Pieces : 0 * Most[p] = 0
  BY ProductGrows DEF Timetable, TypeInv
<1>8. ASSUME part' \in Pieces, i' = 0, pos' <= Due[part']
      PROVE  InTime(Due, Most)'
  <2>1. Due[part'] + i' * Most[part'] = Due[part']
    BY <1>0, <1>8
  <2>2. part' # "idle"
    BY <1>8
  <2>. QED  BY <1>8, <2>1, <2>2
<1>1. CASE Report
  BY <1>1 DEF Report, Locked
<1>2. CASE Start
  BY <1>0, <1>2, <1>8 DEF Start, TypeInv
<1>3. CASE WriteText
  <2>1. i = 0 /\ part \in Pieces /\ part' = After[part] /\ part' \in Pieces /\ i' = 0
    BY <1>3 DEF WriteText, TypeInv
  <2>2. PICK n \in 0 .. Most[part] : pos' = pos + n
    BY <1>0, <1>3, TextKeeps DEF WriteText, Write
  <2>3. Due[part] + Most[part] <= Due[part']
    BY <1>3, <2>1 DEF WriteText, Timetable
  <2>4. pos <= Due[part] + 0 * Most[part] /\ pos \in Nat
    BY <2>1 DEF TypeInv
  <2>5. 0 * Most[part] = 0 /\ Most[part] \in Nat /\ Due[part] \in Nat /\ Due[part'] \in Nat
    BY <1>0, <2>1
  <2>6. pos' <= Due[part']
    BY <2>2, <2>3, <2>4, <2>5
  <2>. QED  BY <1>8, <2>1, <2>6
<1>4. CASE WriteClient
  <2>1. part \in Loops /\ part \in Pieces /\ part' = part /\ i' = i + 1
    BY <1>4 DEF WriteClient
  <2>2. PICK n \in 0 .. Most[part] : pos' = pos + n
    BY <1>0, <1>4, ClientKeeps DEF WriteClient, Write
  <2>3. (i + 1) * Most[part] = i * Most[part] + Most[part] /\ i * Most[part] \in Nat
    BY <1>0, <2>1, ProductGrows
  <2>4. pos <= Due[part] + i * Most[part] /\ pos \in Nat
    BY <2>1 DEF TypeInv
  <2>5. pos' <= Due[part] + (i + 1) * Most[part]
    BY <1>0, <2>1, <2>2, <2>3, <2>4
  <2>. QED  BY <2>1, <2>5
<1>5. CASE LoopEnds
  <2>1. part \in Loops /\ part \in Pieces /\ part' = After[part] /\ part' \in Pieces
        /\ i' = 0 /\ pos' = pos
    BY <1>5 DEF LoopEnds
  <2>2. i * Most[part] <= MAX_CLIENTS * Most[part]
    <3>1. i <= MAX_CLIENTS /\ MAX_CLIENTS \in Nat
      BY DEF TypeInv, Sizes
    <3>. QED  BY <1>0, <2>1, <3>1, ProductBounded
  <2>3. Due[part] + MAX_CLIENTS * Most[part] <= Due[part']
    BY <2>1 DEF Timetable
  <2>4. pos <= Due[part] + i * Most[part] /\ pos \in Nat
    BY <2>1 DEF TypeInv
  <2>5. i * Most[part] \in Nat /\ MAX_CLIENTS * Most[part] \in Nat
    BY <1>0, <2>1, ProductGrows DEF Sizes
  <2>6. pos' <= Due[part']
    <3>1. Due[part] \in Nat /\ Due[part'] \in Nat
      BY <1>0, <2>1
    <3>. QED  BY <2>1, <2>2, <2>3, <2>4, <2>5, <3>1
  <2>. QED  BY <1>8, <2>1, <2>6
<1>6. CASE Send
  BY <1>6 DEF Send
<1>7. CASE UNCHANGED vars
  BY <1>7 DEF vars
<1>. QED  BY <1>1, <1>2, <1>3, <1>4, <1>5, <1>6, <1>7 DEF Next

(***************************************************************************)
(* No piece begins later than the answer is sent.                          *)
(***************************************************************************)
LEMMA SendIsLast ==
    ASSUME NEW Due, NEW Most, Timetable(Due, Most), MAX_CLIENTS \in Nat
    PROVE  \A p \in Pieces : Due[p] \in Nat /\ Due[p] <= Due["send"]
<1>0. Due \in [Pieces -> Nat] /\ Most \in [Pieces -> Nat]
  BY DEF Timetable
<1>1. \A p \in DOMAIN After : Due[p] \in Nat /\ Due[After[p]] \in Nat /\ Due[p] <= Due[After[p]]
  <2>1. TAKE p \in DOMAIN After
  <2>2. Due[p] \in Nat /\ Due[After[p]] \in Nat /\ Most[p] \in Nat
    BY <1>0, PartsKnown DEF Pieces
  <2>3. CASE p \in Texts
    BY <2>2, <2>3 DEF Timetable
  <2>4. CASE p \in Loops
    <3>1. MAX_CLIENTS * Most[p] \in Nat
      BY <2>2, ProductGrows
    <3>. QED  BY <2>2, <2>4, <3>1 DEF Timetable
  <2>. QED  BY <2>2, <2>3, <2>4, PartsKnown
<1>2. /\ Due["tail"] <= Due["send"] /\ Due["script"] <= Due["tail"]
      /\ Due["chart"] <= Due["script"] /\ Due["hint"] <= Due["chart"]
      /\ Due["detail"] <= Due["hint"] /\ Due["middle"] <= Due["detail"]
      /\ Due["notice"] <= Due["middle"] /\ Due["side"] <= Due["notice"]
      /\ Due["head"] <= Due["side"] /\ Due["close"] <= Due["send"]
      /\ Due["entry"] <= Due["close"] /\ Due["open"] <= Due["entry"]
  BY <1>1 DEF After
<1>3. \A p \in Pieces : Due[p] \in Nat
  BY <1>0
<1>. QED  BY <1>2, <1>3 DEF Pieces, After

LEMMA InTimeFits ==
    ASSUME NEW Due, NEW Most, Timetable(Due, Most), Sizes, TypeInv, InTime(Due, Most)
    PROVE  AnswerFits
<1>0. Due \in [Pieces -> Nat] /\ Most \in [Pieces -> Nat] /\ MAX_CLIENTS \in Nat
      /\ i \in Nat /\ i <= MAX_CLIENTS /\ pos \in Nat /\ Due["send"] < PAGE_SIZE
      /\ PAGE_SIZE \in Nat \ {0}
  BY DEF Timetable, Sizes, TypeInv
<1>1. CASE part = "idle"
  BY <1>0, <1>1 DEF InTime, AnswerFits
<1>2. CASE part \in Pieces /\ part \notin Loops
  <2>1. i = 0 /\ 0 * Most[part] = 0
    BY <1>0, <1>2, ProductGrows DEF TypeInv
  <2>2. pos <= Due[part] /\ Due[part] \in Nat /\ Due[part] <= Due["send"]
    BY <1>0, <1>2, <2>1, SendIsLast DEF InTime
  <2>. QED  BY <1>0, <2>2, SendIsLast, PartsKnown DEF AnswerFits, Pieces
<1>3. CASE part \in Loops
  <2>1. part \in Pieces /\ After[part] \in Pieces
    BY <1>3, PartsKnown
  <2>2. i * Most[part] <= MAX_CLIENTS * Most[part]
        /\ i * Most[part] \in Nat /\ MAX_CLIENTS * Most[part] \in Nat
    BY <1>0, <2>1, ProductBounded, ProductGrows
  <2>3. Due[part] + MAX_CLIENTS * Most[part] <= Due[After[part]]
    BY <1>3 DEF Timetable
  <2>4. Due[After[part]] <= Due["send"] /\ Due[After[part]] \in Nat
        /\ Due["send"] \in Nat /\ Due[part] \in Nat
    BY <1>0, <2>1, SendIsLast DEF Pieces
  <2>5. pos <= Due[part] + i * Most[part]
    BY <2>1 DEF InTime
  <2>. QED  BY <1>0, <2>2, <2>3, <2>4, <2>5 DEF AnswerFits
<1>. QED  BY <1>1, <1>2, <1>3 DEF TypeInv

-----------------------------------------------------------------------------
(***************************************************************************)
(* The answers fit if their lengths keep a timetable that ends within the  *)
(* buffer, whatever reports come while they are written (server.c 39-522,  *)
(* 556-627).  The code has nothing that would see to it.                   *)
(***************************************************************************)
THEOREM AnswersInTimeFit ==
    ASSUME NEW CONSTANT Due, NEW CONSTANT Most, Sizes, Keeps(Most),
           Timetable(Due, Most), Due["head"] = 0, Due["open"] = 0
    PROVE  Spec => []AnswerFits
<1>. DEFINE Inv == TypeInv /\ InTime(Due, Most)
<1>0. Due \in [Pieces -> Nat] /\ Most \in [Pieces -> Nat]
  BY DEF Timetable
<1>1. Init => Inv
  BY TypeInitial, PartsKnown DEF Init, InTime
<1>2. Inv /\ [Next]_vars => Inv'
  <2>1. TypeInv /\ [Next]_vars => TypeInv'
    BY <1>0, TypeStep
  <2>2. Inv /\ [Next]_vars /\ TypeInv' => InTime(Due, Most)'
    BY TimeStep
  <2>. QED  BY <2>1, <2>2
<1>3. Inv => AnswerFits
  BY InTimeFits
<1>. QED  BY <1>1, <1>2, <1>3, PTL DEF Spec

(***************************************************************************)
(* How long an answer can be: a page, and what /data answers.              *)
(***************************************************************************)
PageLength(Most) ==
    Most["head"] + Most["notice"] + Most["middle"] + Most["hint"] + Most["chart"]
      + Most["tail"] + MAX_CLIENTS * (Most["side"] + Most["detail"] + Most["script"])

DataLength(Most) == Most["open"] + MAX_CLIENTS * Most["entry"] + Most["close"]

(***************************************************************************)
(* The timetable that leaves no gaps.                                      *)
(***************************************************************************)
Tight(Most) ==
    LET side == Most["head"]
        notice == side + MAX_CLIENTS * Most["side"]
        middle == notice + Most["notice"]
        detail == middle + Most["middle"]
        hint == detail + MAX_CLIENTS * Most["detail"]
        chart == hint + Most["hint"]
        script == chart + Most["chart"]
        tail == script + MAX_CLIENTS * Most["script"]
    IN  [head |-> 0, side |-> side, notice |-> notice, middle |-> middle,
         detail |-> detail, hint |-> hint, chart |-> chart, script |-> script,
         tail |-> tail, open |-> 0, entry |-> Most["open"],
         close |-> Most["open"] + MAX_CLIENTS * Most["entry"], send |-> PAGE_SIZE - 1]

LEMMA TightIsKept ==
    ASSUME NEW Most \in [Pieces -> Nat], MAX_CLIENTS \in Nat, PAGE_SIZE \in Nat \ {0},
           PageLength(Most) < PAGE_SIZE, DataLength(Most) < PAGE_SIZE
    PROVE  Timetable(Tight(Most), Most)
<1>1. /\ Most["head"] \in Nat /\ Most["side"] \in Nat /\ Most["notice"] \in Nat
      /\ Most["middle"] \in Nat /\ Most["detail"] \in Nat /\ Most["hint"] \in Nat
      /\ Most["chart"] \in Nat /\ Most["script"] \in Nat /\ Most["tail"] \in Nat
      /\ Most["open"] \in Nat /\ Most["entry"] \in Nat /\ Most["close"] \in Nat
  BY DEF Pieces, After
<1>2. PICK side \in Nat, detail \in Nat, script \in Nat, entry \in Nat :
         /\ side = MAX_CLIENTS * Most["side"] /\ detail = MAX_CLIENTS * Most["detail"]
         /\ script = MAX_CLIENTS * Most["script"] /\ entry = MAX_CLIENTS * Most["entry"]
  BY <1>1, ProductGrows
<1>3. MAX_CLIENTS * (Most["side"] + Most["detail"] + Most["script"]) = side + detail + script
  BY <1>1, <1>2, SMTT(30)
<1>4. /\ Most["head"] + Most["notice"] + Most["middle"] + Most["hint"] + Most["chart"]
           + Most["tail"] + (side + detail + script) <= PAGE_SIZE - 1
      /\ Most["open"] + entry + Most["close"] <= PAGE_SIZE - 1
      /\ PAGE_SIZE - 1 \in Nat
  BY <1>1, <1>2, <1>3 DEF PageLength, DataLength
<1>5. Tight(Most) \in [Pieces -> Nat]
  BY <1>1, <1>2, <1>4 DEF Tight, Pieces, After
<1>6. ASSUME NEW p \in Texts
      PROVE  Tight(Most)[p] + Most[p] <= Tight(Most)[After[p]]
  <2>1. /\ Tight(Most)["head"] + Most["head"] <= Tight(Most)["side"]
        /\ Tight(Most)["notice"] + Most["notice"] <= Tight(Most)["middle"]
        /\ Tight(Most)["middle"] + Most["middle"] <= Tight(Most)["detail"]
        /\ Tight(Most)["hint"] + Most["hint"] <= Tight(Most)["chart"]
        /\ Tight(Most)["chart"] + Most["chart"] <= Tight(Most)["script"]
        /\ Tight(Most)["tail"] + Most["tail"] <= Tight(Most)["send"]
        /\ Tight(Most)["open"] + Most["open"] <= Tight(Most)["entry"]
        /\ Tight(Most)["close"] + Most["close"] <= Tight(Most)["send"]
    BY <1>1, <1>2, <1>4 DEF Tight
  <2>2. p \in {"head", "notice", "middle", "hint", "chart", "tail", "open", "close"}
    BY <1>6 DEF Texts, Loops, After
  <2>. QED  BY <2>1, <2>2 DEF After
<1>7. ASSUME NEW p \in Loops
      PROVE  Tight(Most)[p] + MAX_CLIENTS * Most[p] <= Tight(Most)[After[p]]
  BY <1>1, <1>2, <1>4, <1>7 DEF Tight, Loops, After
<1>8. Tight(Most)["send"] < PAGE_SIZE
  BY <1>4 DEF Tight
<1>. QED  BY <1>5, <1>6, <1>7, <1>8 DEF Timetable

(***************************************************************************)
(* The answers fit, whatever reports come while they are written, if the   *)
(* buffer has room for the longest page and the longest answer to /data:   *)
(* their texts at their longest, once, and those of a client MAX_CLIENTS   *)
(* times (server.c 39-522, 556-627).                                       *)
(***************************************************************************)
THEOREM AnswersWithinSumsFit ==
    ASSUME NEW CONSTANT Most \in [Pieces -> Nat], Sizes, Keeps(Most),
           PageLength(Most) < PAGE_SIZE, DataLength(Most) < PAGE_SIZE
    PROVE  Spec => []AnswerFits
<1>1. Timetable(Tight(Most), Most)
  BY TightIsKept DEF Sizes
<1>2. Tight(Most)["head"] = 0 /\ Tight(Most)["open"] = 0
  BY DEF Tight
<1>. QED  BY <1>1, <1>2, AnswersInTimeFit

(***************************************************************************)
(* Six clients fit: those of the example of the documentation, with full   *)
(* histories and the chart library as it is.  TLC shows that a seventh     *)
(* does not.                                                               *)
(***************************************************************************)
SixMost ==
    [head |-> 2466, side |-> 189, notice |-> 61, middle |-> 26,
     detail |-> 1133, hint |-> 112, chart |-> 208700, script |-> 5473,
     tail |-> 9813, open |-> 1, entry |-> 5473, close |-> 1, send |-> 0]

COROLLARY SixClientsFit ==
    ASSUME PAGE_SIZE = 262144, HISTORY_SIZE = 128, MAX_CLIENTS = 6,
           Lens = ExampleLens, \A h : EntryLens(h) = ExampleEntryLens(h),
           Tables \subseteq {t \in Seq(1 .. HISTORY_SIZE) : Len(t) <= 6}
    PROVE  Spec => []AnswerFits
<1>1. Sizes
  BY DEF Sizes
<1>2. SixMost \in [Pieces -> Nat]
  BY DEF SixMost, Pieces, After
<1>3. PageLength(SixMost) < PAGE_SIZE /\ DataLength(SixMost) < PAGE_SIZE
  BY DEF PageLength, DataLength, SixMost
<1>4. Keeps(SixMost)
  <2>1. \A p \in (DOMAIN After) \ {"script", "entry"} : \A n \in Lens[p] : n \in 0 .. SixMost[p]
    BY DEF ExampleLens, SixMost, After
  <2>2. \A n \in Lens["hidden"] : n \in 0 .. SixMost["hint"]
    BY DEF ExampleLens, SixMost
  <2>3. \A h \in 1 .. HISTORY_SIZE : \A n \in EntryLens(h) :
           n \in Nat /\ n + 1 <= SixMost["script"] /\ n + 1 <= SixMost["entry"]
    BY DEF ExampleEntryLens, SixMost
  <2>. QED  BY <2>1, <2>2, <2>3 DEF Keeps
<1>. QED  BY <1>1, <1>2, <1>3, <1>4, AnswersWithinSumsFit
=============================================================================
