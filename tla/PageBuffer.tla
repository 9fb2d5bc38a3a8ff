----------------------------- MODULE PageBuffer -----------------------------
(***************************************************************************)
(* The buffer an answer is written into: generate_html and /data           *)
(* (server.c 39-522, 556-627), one piece of text after another.            *)
(*                                                                         *)
(* Each piece is written by snprintf into what is left, and pos advances   *)
(* by what the piece would take, whether or not it fitted.  Nothing        *)
(* compares pos with the size: once it is beyond, what is left is a        *)
(* negative number, which snprintf takes for a very large one.  What       *)
(* happens then is undefined; the model goes on counting.                  *)
(*                                                                         *)
(* A text is its length.  A client is the length of its histories, which   *)
(* are written in full; its other texts have some length of a given set.   *)
(***************************************************************************)
EXTENDS Integers, Sequences

CONSTANTS
    PAGE_SIZE,      \* BUFFER_SIZE * 4
    MAX_CLIENTS, HISTORY_SIZE,   \* common.h
    Lens,           \* the lengths each piece but those of EntryLens may have
    EntryLens(_),   \* those of a client's record, given its history_count
    Tables,         \* tables of a server that has run for a while
    MaxReports      \* bound: reports that come while answers are written

(***************************************************************************)
(* The lengths for clients whose reports are the example of                *)
(* doc/项目概述.md:71-92, with the chart library as it is: what is in the  *)
(* source between the quotes, and the example's values.                    *)
(***************************************************************************)
ExampleLens ==
    [head |-> {2466}, side |-> {189}, notice |-> {61}, middle |-> {26},
     detail |-> {1133}, hint |-> {91}, hidden |-> {112}, chart |-> {208700},
     tail |-> {9813}, open |-> {1}, close |-> {1}]

ExampleEntryLens(h) == {352 + 40 * h}

VARIABLES
    table,      \* history_count of each client, in the order of the table
    part,       \* the piece to be written next; "idle" without an answer
    i,          \* loop counter: clients already written in this part
    pos,
    reports

vars == <<table, part, i, pos, reports>>

-----------------------------------------------------------------------------
(***************************************************************************)
(* The pieces of a page and of /data in their order.  In a loop there is   *)
(* one for each client.                                                    *)
(***************************************************************************)
After ==
    [head |-> "side", side |-> "notice", notice |-> "middle",
     middle |-> "detail", detail |-> "hint", hint |-> "chart",
     chart |-> "script", script |-> "tail", tail |-> "send",
     open |-> "entry", entry |-> "close", close |-> "send"]

Loops == {"side", "detail", "script", "entry"}
Texts == DOMAIN After \ Loops

(***************************************************************************)
(* The mutex is held in each loop, and from end to end in /data.           *)
(***************************************************************************)
Locked == part \in Loops \union {"open", "close"}

Init ==
    /\ table \in Tables
    /\ part = "idle" /\ i = 0 /\ pos = 0 /\ reports = 0

(***************************************************************************)
(* handle_client, in another thread.                                       *)
(***************************************************************************)
Report ==
    /\ ~ Locked
    /\ reports < MaxReports
    /\ reports' = reports + 1
    /\ \/ /\ Len(table) < MAX_CLIENTS
          /\ table' = Append(table, 1)
       \/ \E c \in DOMAIN table :
            table' = [table EXCEPT ![c] = IF @ < HISTORY_SIZE THEN @ + 1 ELSE @]
    /\ UNCHANGED <<part, i, pos>>

Start ==
    /\ part = "idle"
    /\ part' \in {"head", "open"}
    /\ UNCHANGED <<table, i, pos, reports>>

Write(n) == pos' = pos + n

(***************************************************************************)
(* A piece outside of the loops.  Two of them depend on client_count, read *)
(* without the mutex.                                                      *)
(***************************************************************************)
TextLens ==
    IF table = <<>> \/ part \notin {"notice", "hint"} THEN Lens[part]
    ELSE IF part = "hint" THEN Lens["hidden"] ELSE {0}

WriteText ==
    /\ part \in Texts
    /\ \E n \in TextLens : Write(n)
    /\ part' = After[part]
    /\ UNCHANGED <<table, i, reports>>

(***************************************************************************)
(* A record is followed by a comma, but for the last.                      *)
(***************************************************************************)
ClientLens(c) ==
    IF part \in {"script", "entry"}
    THEN {n + IF c < Len(table) THEN 1 ELSE 0 : n \in EntryLens(table[c])}
    ELSE Lens[part]

WriteClient ==
    /\ part \in Loops
    /\ i < Len(table)
    /\ \E n \in ClientLens(i + 1) : Write(n)
    /\ i' = i + 1
    /\ UNCHANGED <<table, part, reports>>

LoopEnds ==
    /\ part \in Loops
    /\ i >= Len(table)
    /\ i' = 0
    /\ part' = After[part]
    /\ UNCHANGED <<table, pos, reports>>

(***************************************************************************)
(* The answer is sent and the buffer freed; the next one has its own.      *)
(***************************************************************************)
Send ==
    /\ part = "send"
    /\ part' = "idle"
    /\ pos' = 0
    /\ UNCHANGED <<table, i, reports>>

Next == Report \/ Start \/ WriteText \/ WriteClient \/ LoopEnds \/ Send

Spec == Init /\ [][Next]_vars

-----------------------------------------------------------------------------
(***************************************************************************)
(* The page shows all clients (doc/项目概述.md:5), with histories of up to *)
(* 128 (README.md:13): whatever is in the table, an answer fits into its   *)
(* buffer with its terminator, so that nothing is cut off, snprintf's room *)
(* is never negative, and send does not read beyond the buffer.            *)
(***************************************************************************)
AnswerFits == pos < PAGE_SIZE
=============================================================================
