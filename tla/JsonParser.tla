----------------------------- MODULE JsonParser -----------------------------
(***************************************************************************)
(* parson's parser as the server uses it on a report (json_parse_string,   *)
(* json_value_free): a recursive descent whose C stack is the variable     *)
(* stack, one frame per parse_object_value or parse_array_value, building  *)
(* values out of blocks of memory, any of which may be refused.            *)
(*                                                                         *)
(* A text is a sequence of tokens.  A key token is a string, "nul" one     *)
(* with a \u0000 in it, "lit" a number, a boolean or null, "bad" whatever  *)
(* starts no token or a token that is broken off or malformed; the end of  *)
(* the text reads as "end".                                                *)
(***************************************************************************)
EXTENDS JsonObject, FiniteSets

CONSTANTS
    Texts,          \* the texts that are parsed
    MAX_NESTING,    \* 2048 in parson.c
    MaxFailures     \* bound on how many allocations fail

ASSUME TextsAssumption == \A t \in Texts : t \in Seq(STRING)
ASSUME KeysAssumption ==
    Keys \intersect {"nul", "lit", "bad", "{", "}", "[", "]", ":", ",", "end"} = {}
ASSUME BoundsAssumption == MAX_NESTING \in Nat /\ MaxFailures \in Nat

VARIABLES
    text, pos,      \* the text and the place read next
    stack,          \* the calls under way, outermost first
    mode,           \* "call": parse_value is called; "run": the top frame
                    \* goes on; "return": ret goes to the top frame;
                    \* "parsed", "done": json_parse_string has returned
    ret,            \* what a call returned: NULL or a value
    heap,           \* the blocks allocated and not freed
    failures,       \* how many allocations failed
    wild            \* something was freed that was not allocated

vars == <<text, pos, stack, mode, ret, heap, failures, wild>>

-----------------------------------------------------------------------------
(***************************************************************************)
(* A value is its type and the blocks that json_value_free of it frees.    *)
(***************************************************************************)
NULL == [type |-> "NULL", blocks |-> {}]
Token == IF pos <= Len(text) THEN text[pos] ELSE "end"
Strings == Keys \union {"nul"}

(***************************************************************************)
(* malloc: n new blocks, or a failure on the way, after which the caller   *)
(* has freed those it got.                                                 *)
(***************************************************************************)
NewBlocks(n) ==
    LET unused == (1 .. Cardinality(heap) + n) \ heap
    IN  {b \in unused : Cardinality({c \in unused : c < b}) < n}

Fails == failures < MaxFailures /\ failures' = failures + 1

(***************************************************************************)
(* The blocks of a value under construction: the value and its object or   *)
(* array (own), the table or the items (room), and what was added.         *)
(***************************************************************************)
Blocks(values) == UNION {values[i].blocks : i \in 1 .. Len(values)}
Held(f) == f.own \union f.room \union f.names \union Blocks(f.table.values)

Frame(type, own) ==
    [type |-> type, own |-> own, room |-> {}, names |-> {}, at |-> "first",
     key |-> "", keyBlock |-> {}, table |-> NewTable(0)]

Top == stack[Len(stack)]
Others == SubSeq(stack, 1, Len(stack) - 1)
Goes(at) == stack' = [stack EXCEPT ![Len(stack)].at = at]

Return(value) == mode' = "return" /\ ret' = value

(***************************************************************************)
(* The error exits: the frame's value is freed, with what else is named.   *)
(***************************************************************************)
GiveUp(more) ==
    LET blocks == Held(Top) \union more IN
    /\ heap' = heap \ blocks
    /\ wild' = (wild \/ ~(blocks \subseteq heap))
    /\ stack' = Others
    /\ Return(NULL)

Finish(f) ==
    /\ stack' = Others
    /\ Return([type |-> f.type, blocks |-> Held(f)])

-----------------------------------------------------------------------------
Init ==
    /\ text \in Texts /\ pos = 1
    /\ stack = <<>> /\ mode = "call" /\ ret = NULL
    /\ heap = {} /\ failures = 0 /\ wild = FALSE

(***************************************************************************)
(* parse_value: scalars return at once, an object or an array is a call.   *)
(***************************************************************************)
TooDeep_OffByOne == Len(stack) >= MAX_NESTING
TooDeep == Len(stack) > MAX_NESTING

Scalar(blocks) ==
    LET new == NewBlocks(blocks) IN
    /\ pos' = pos + 1
    /\ \/ /\ heap' = heap \union new
          /\ Return([type |-> Token, blocks |-> new])
          /\ UNCHANGED failures
       \/ Fails /\ Return(NULL) /\ UNCHANGED heap
    /\ UNCHANGED stack

Container(type) ==
    LET new == NewBlocks(2) IN
    \/ /\ heap' = heap \union new
       /\ stack' = Append(stack, Frame(type, new))
       /\ pos' = pos + 1 /\ mode' = "run"
       /\ UNCHANGED <<ret, failures>>
    \/ Fails /\ Return(NULL) /\ UNCHANGED <<pos, stack, heap>>

ParseValue ==
    /\ mode = "call"
    /\ \/ ~TooDeep /\ Token = "lit" /\ Scalar(1)
       \/ ~TooDeep /\ Token \in Strings /\ Scalar(2)
       \/ ~TooDeep /\ Token = "{" /\ Container("object")
       \/ ~TooDeep /\ Token = "[" /\ Container("array")
       \/ /\ TooDeep \/ Token \notin Strings \union {"lit", "{", "["}
          /\ Return(NULL)
          /\ UNCHANGED <<pos, stack, heap, failures>>
    /\ UNCHANGED <<text, wild>>

(***************************************************************************)
(* parse_object_value.                                                     *)
(***************************************************************************)
ObjectEnds ==
    /\ mode = "run" /\ Top.type = "object"
    /\ Top.at \in {"first", "after", "comma"} /\ Token = "}"
    /\ pos' = pos + 1
    /\ Finish(Top)
    /\ UNCHANGED <<text, heap, failures, wild>>

ObjectKey ==
    /\ mode = "run" /\ Top.type = "object"
    /\ Top.at \in {"first", "comma"} /\ Token # "}"
    /\ \/ /\ Token \in Keys
          /\ LET new == NewBlocks(1) IN
             /\ heap' = heap \union new
             /\ stack' = [stack EXCEPT ![Len(stack)] =
                            [@ EXCEPT !.key = Token, !.keyBlock = new,
                                      !.at = "colon"]]
          /\ pos' = pos + 1
          /\ UNCHANGED <<mode, ret, failures, wild>>
       \/ /\ Token \in Strings /\ Fails
          /\ GiveUp({}) /\ UNCHANGED pos
       \/ /\ Token \notin Keys
          /\ GiveUp({}) /\ UNCHANGED <<pos, failures>>
    /\ UNCHANGED text

ObjectColon ==
    /\ mode = "run" /\ Top.type = "object" /\ Top.at = "colon"
    /\ \/ /\ Token = ":"
          /\ pos' = pos + 1 /\ mode' = "call" /\ Goes("value")
          /\ UNCHANGED <<ret, heap, wild>>
       \/ /\ Token # ":"
          /\ GiveUp(Top.keyBlock)
          /\ UNCHANGED pos
    /\ UNCHANGED <<text, failures>>

(***************************************************************************)
(* json_object_add, when the member's value has come.  The table's five    *)
(* arrays are one block; growing frees the smaller ones.                   *)
(***************************************************************************)
With(f, table, room) ==
    [f EXCEPT !.at = "after", !.table = table, !.room = room,
              !.names = @ \union f.keyBlock, !.key = "", !.keyBlock = {}]

Refused_ValueOnly == ret.blocks
Refused == Top.keyBlock \union ret.blocks

ObjectAdd ==
    /\ mode = "return" /\ stack # <<>> /\ Top.type = "object"
    /\ \/ /\ ret = NULL
          /\ GiveUp(Top.keyBlock)
          /\ UNCHANGED failures
       \/ /\ ret # NULL /\ Found(Top.table, Top.key)
          /\ GiveUp(Refused)
          /\ UNCHANGED failures
       \/ /\ ret # NULL /\ ~Found(Top.table, Top.key)
          /\ LET new == IF MustGrow(Top.table) THEN NewBlocks(1) ELSE Top.room
                 old == Top.room \ new
             IN  /\ heap' = (heap \union new) \ old
                 /\ wild' = (wild \/ ~(old \subseteq heap))
                 /\ stack' = [stack EXCEPT ![Len(stack)] =
                        With(@, Added(@.table, @.key, ret), new)]
          /\ mode' = "run"
          /\ UNCHANGED <<ret, failures>>
       \/ /\ ret # NULL /\ ~Found(Top.table, Top.key) /\ MustGrow(Top.table)
          /\ Fails
          /\ GiveUp(Refused)
    /\ UNCHANGED <<text, pos>>

(***************************************************************************)
(* parse_array_value.  Items are kept as the values of a table without     *)
(* names; room is the array they are in, capacity its size.                *)
(***************************************************************************)
ArrayStarts ==
    /\ mode = "run" /\ Top.type = "array"
    /\ Top.at \in {"first", "comma"}
    /\ \/ /\ Token = "]" /\ Top.at = "first"
          /\ pos' = pos + 1
          /\ Finish(Top)
       \/ /\ Token # "]"
          /\ mode' = "call" /\ Goes("value")
          /\ UNCHANGED <<pos, ret>>
    /\ UNCHANGED <<text, heap, failures, wild>>

ArrayAdd ==
    /\ mode = "return" /\ stack # <<>> /\ Top.type = "array"
    /\ LET full == Len(Top.table.values) >= Top.table.capacity
           new == IF full THEN NewBlocks(1) ELSE Top.room
       IN  \/ /\ ret = NULL
              /\ GiveUp({})
              /\ UNCHANGED failures
           \/ /\ ret # NULL
              /\ heap' = (heap \union new) \ (Top.room \ new)
              /\ stack' = [stack EXCEPT ![Len(stack)] =
                    [Top EXCEPT !.at = "after", !.room = new,
                                !.table.values = Append(@, ret),
                                !.table.capacity = IF full THEN Larger(Top.table)
                                                           ELSE @]]
              /\ mode' = "run"
              /\ UNCHANGED <<ret, failures, wild>>
           \/ /\ ret # NULL /\ full /\ Fails
              /\ GiveUp(ret.blocks)
    /\ UNCHANGED <<text, pos>>

(***************************************************************************)
(* The end of an array, which is trimmed to its items.                     *)
(***************************************************************************)
ArrayEnds ==
    /\ mode = "run" /\ Top.type = "array"
    /\ Top.at \in {"after", "comma"} /\ Token = "]"
    /\ \/ LET new == NewBlocks(1) IN
          /\ pos' = pos + 1
          /\ heap' = (heap \union new) \ Top.room
          /\ Finish([Top EXCEPT !.room = new])
          /\ UNCHANGED <<failures, wild>>
       \/ /\ Fails
          /\ GiveUp({}) /\ UNCHANGED pos
    /\ UNCHANGED text

(***************************************************************************)
(* After a member or an item: a comma, or something that ends the value,   *)
(* badly unless it is the closing bracket.                                 *)
(***************************************************************************)
After ==
    /\ mode = "run" /\ Top.at = "after"
    /\ Token # (IF Top.type = "object" THEN "}" ELSE "]")
    /\ \/ /\ Token = ","
          /\ pos' = pos + 1 /\ Goes("comma")
          /\ UNCHANGED <<mode, ret, heap, wild>>
       \/ /\ Token # ","
          /\ GiveUp({})
          /\ UNCHANGED pos
    /\ UNCHANGED <<text, failures>>

(***************************************************************************)
(* The root value has come.  The server reads it and frees it; what stands *)
(* behind it in the text is never looked at.                               *)
(***************************************************************************)
Parsed ==
    /\ mode = "return" /\ stack = <<>>
    /\ mode' = "parsed"
    /\ UNCHANGED <<text, pos, stack, ret, heap, failures, wild>>

FreeRoot ==
    /\ mode = "parsed"
    /\ mode' = "done"
    /\ heap' = heap \ ret.blocks
    /\ wild' = (wild \/ ~(ret.blocks \subseteq heap))
    /\ UNCHANGED <<text, pos, stack, ret, failures>>

Next ==
    \/ ParseValue
    \/ ObjectKey \/ ObjectColon \/ ObjectAdd \/ ObjectEnds
    \/ ArrayStarts \/ ArrayAdd \/ ArrayEnds
    \/ After \/ Parsed \/ FreeRoot

Spec == Init /\ [][Next]_vars

-----------------------------------------------------------------------------
(***************************************************************************)
(* Indices stay inside the table; the stack of calls is bounded, for any   *)
(* text that is sent.                                                      *)
(***************************************************************************)
TypeOK ==
    /\ pos \in 1 .. Len(text) + 1
    /\ mode \in {"call", "run", "return", "parsed", "done"}
    /\ Len(stack) <= MAX_NESTING + 1
    /\ \A d \in 1 .. Len(stack) : stack[d].type = "object" =>
          LET o == stack[d].table IN
          /\ DOMAIN o.cells = 0 .. o.capacity - 1
          /\ \A ix \in DOMAIN o.cells : o.cells[ix] \in 0 .. Count(o)

(***************************************************************************)
(* Whatever the collisions and however often it has grown, an object's     *)
(* table is the map of the members that were added: every one of them is   *)
(* found, with its value, and no other.  It is never full: a search of a   *)
(* key that is absent ends at a free cell.                                 *)
(***************************************************************************)
TableIsMap ==
    /\ TypeOK
    /\ \A d \in 1 .. Len(stack) : stack[d].type = "object" =>
          LET o == stack[d].table IN
          /\ \A n \in 1 .. Count(o) : Get(o, o.names[n], NULL) = o.values[n]
          /\ \A k \in Keys : (\A n \in 1 .. Count(o) : o.names[n] # k) =>
                Get(o, k, NULL) = NULL
          /\ o.capacity > 0 => Count(o) < o.capacity

(***************************************************************************)
(* On every way out, with or without a failed allocation, all memory is    *)
(* given back, and nothing is freed that is not allocated (twice, say).    *)
(***************************************************************************)
NoLeak == ~wild /\ (mode = "done" => heap = {})
=============================================================================
