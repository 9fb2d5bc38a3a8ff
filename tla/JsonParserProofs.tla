-------------------------- MODULE JsonParserProofs --------------------------
(***************************************************************************)
(* Proofs about parson's parser, for any texts, keys and hashes, whatever  *)
(* fails: the table of an object is the map of its members, however keys   *)
(* collide and however often it grows; all memory is given back; and as    *)
(* long as memory lasts, a text is accepted if and only if it begins with  *)
(* a value of the grammar.                                                 *)
(***************************************************************************)
EXTENDS JsonGrammar, SequenceTheorems, FiniteSetTheorems, WellFoundedInduction, TLAPS

-----------------------------------------------------------------------------
(* Types.                                                                  *)

Value == [type : Keys \union {"nul", "lit", "object", "array", "NULL"},
          blocks : SUBSET Int]

Cells == UNION {[0 .. c - 1 -> Nat] : c \in Nat}

Table == [capacity : Nat, cells : Cells, names : Seq(Keys), values : Seq(Value)]

FrameType ==
    [type : {"object", "array"}, own : SUBSET Int, room : SUBSET Int,
     names : SUBSET Int, at : {"first", "colon", "value", "after", "comma"},
     key : Keys \union {""}, keyBlock : SUBSET Int, table : Table]

-----------------------------------------------------------------------------
(* The invariant of an object's table.                                     *)

ShapeOK(o) ==
    /\ o \in Table
    /\ DOMAIN o.cells = 0 .. o.capacity - 1
    /\ \A ix \in 0 .. o.capacity - 1 : o.cells[ix] \in 0 .. Count(o)
    /\ Len(o.values) = Count(o)
    /\ Count(o) <= ItemCapacity(o.capacity)

NamesDiffer(o) ==
    \A m, n \in 1 .. Count(o) : o.names[m] = o.names[n] => m = n

CellsDiffer(o) ==
    \A ix, iy \in 0 .. o.capacity - 1 :
      o.cells[ix] # Free /\ o.cells[ix] = o.cells[iy] => ix = iy

(***************************************************************************)
(* Probing for item n's name comes to its cell at the i-th place, over     *)
(* cells that are taken.                                                   *)
(***************************************************************************)
Reaches(o, n, i) ==
    /\ o.cells[CellFrom(o, o.names[n], i)] = n
    /\ \A j \in 0 .. i - 1 : o.cells[CellFrom(o, o.names[n], j)] # Free

ItemsReached(o) ==
    \A n \in 1 .. Count(o) : \E i \in 0 .. o.capacity - 1 : Reaches(o, n, i)

TableOK(o) == ShapeOK(o) /\ NamesDiffer(o) /\ CellsDiffer(o) /\ ItemsReached(o)

Absent(o, key) == \A n \in 1 .. Count(o) : o.names[n] # key

-----------------------------------------------------------------------------
(* The invariant of the parser.                                            *)

(***************************************************************************)
(* All blocks that a call under way holds.  The array of its items can be  *)
(* given back without touching another of them.                            *)
(***************************************************************************)
AllHeld(f) == Held(f) \union f.keyBlock

Named(f) == f.type = "object" /\ f.at \in {"colon", "value"}

FrameOK(f) ==
    /\ f.type = "object" => TableOK(f.table)
    /\ Named(f) => f.key \in Keys
    /\ ~Named(f) => f.keyBlock = {}
    /\ f.room \intersect (f.own \union f.names \union f.keyBlock
                            \union Blocks(f.table.values)) = {}

(***************************************************************************)
(* A call waits for a value while another goes on above it, or while       *)
(* parse_value is called or has returned.                                  *)
(***************************************************************************)
CallsOK ==
    /\ \A d \in 1 .. Len(stack) : FrameOK(stack[d])
    /\ \A d \in 1 .. Len(stack) - 1 : stack[d].at = "value"
    /\ mode \in {"call", "return"} /\ stack # <<>> => Top.at = "value"
    /\ mode = "run" => stack # <<>>
    /\ mode \in {"parsed", "done"} => stack = <<>>

(***************************************************************************)
(* What is allocated is what the calls under way hold and the value that   *)
(* is being returned, and no block is held twice.                          *)
(***************************************************************************)
MemoryOf(h, s, loose) ==
    /\ loose \subseteq h
    /\ \A d \in 1 .. Len(s) : AllHeld(s[d]) \subseteq h
    /\ \A b \in h : b \in loose \/ \E d \in 1 .. Len(s) : b \in AllHeld(s[d])
    /\ \A d \in 1 .. Len(s) : AllHeld(s[d]) \intersect loose = {}
    /\ \A d, e \in 1 .. Len(s) :
         d # e => AllHeld(s[d]) \intersect AllHeld(s[e]) = {}

Loose == IF mode \in {"return", "parsed"} THEN ret.blocks ELSE {}

BasicOK ==
    /\ text \in Seq(STRING)
    /\ pos \in 1 .. Len(text) + 1
    /\ mode \in {"call", "run", "return", "parsed", "done"}
    /\ stack \in Seq(FrameType)
    /\ Len(stack) <= MAX_NESTING + 1
    /\ ret \in Value
    /\ wild = FALSE

ParserInv == BasicOK /\ CallsOK /\ MemoryOf(heap, stack, Loose)

-----------------------------------------------------------------------------
(* Remainders.                                                             *)

LEMMA Division ==
    ASSUME NEW x \in Nat, NEW c \in Nat, c > 0
    PROVE  x % c \in 0 .. c - 1 /\ \E q \in Int : x = c * q + (x % c)
  <1>1. x % c \in 0 .. c - 1
    OBVIOUS
  <1>2. x = c * (x \div c) + (x % c)
    OBVIOUS
  <1> QED
    BY <1>1, <1>2

LEMMA SmallMultiple ==
    ASSUME NEW c \in Nat, c > 0, NEW q \in Int, NEW d \in Int,
           d = c * q, - c < d, d < c
    PROVE  d = 0
  <1>1. CASE q >= 1
    <2>1. c * q >= c
      BY <1>1, Z3
    <2> QED
      BY <2>1
  <1>2. CASE q <= -1
    <2>1. c * q <= - c
      BY <1>2, Z3
    <2> QED
      BY <2>1
  <1>3. CASE q = 0
    BY <1>3
  <1> QED
    BY <1>1, <1>2, <1>3

LEMMA PlacesDiffer ==
    ASSUME NEW c \in Nat, c > 0, NEW h \in Nat,
           NEW i \in 0 .. c - 1, NEW j \in 0 .. c - 1, (h + i) % c = (h + j) % c
    PROVE  i = j
  <1> DEFINE m == (h + i) % c
  <1>1. m \in 0 .. c - 1
    BY Division
  <1>2. PICK q \in Int : h + i = c * q + m
    BY Division
  <1>5. h + j \in Nat
    OBVIOUS
  <1>6. \E p \in Int : h + j = c * p + ((h + j) % c)
    BY <1>5, Division, Zenon
  <1>3. PICK p \in Int : h + j = c * p + m
    BY <1>6, Zenon
  <1> HIDE DEF m
  <1>4. i - j = c * (q - p)
    BY <1>1, <1>2, <1>3
  <1> QED
    BY <1>4, SmallMultiple

-----------------------------------------------------------------------------
(* Probing.                                                                *)

LEMMA LeastOf ==
    ASSUME NEW S, S \subseteq Nat, S # {}
    PROVE  \E i \in S : \A j \in S : i <= j
  <1>1. PICK i \in S : \A j \in S : <<j, i>> \notin OpToRel(<, Nat)
    BY NatLessThanWellFounded, WFMin, Zenon
  <1>2. \A j \in S : ~ (j < i)
    BY <1>1, Zenon DEF OpToRel
  <1>3. \A j \in S : i <= j
    BY <1>2
  <1> QED
    BY <1>3

(***************************************************************************)
(* A table with cells has a cell more than items, and twice the cells, or  *)
(* the first ones, have room for an item more.                             *)
(***************************************************************************)
LEMMA RoomLeft ==
    ASSUME NEW c \in Nat
    PROVE  /\ ItemCapacity(c) \in Nat
           /\ c > 0 => ItemCapacity(c) < c
           /\ c = 0 => ItemCapacity(c) = 0
           /\ c > 0 => ItemCapacity(2 * c) > ItemCapacity(c)
  <1>1. /\ ItemCapacity(c) \in Nat
        /\ c > 0 => ItemCapacity(c) < c
        /\ c = 0 => ItemCapacity(c) = 0
    BY DEF ItemCapacity
  <1>2. ASSUME c > 0 PROVE (c * 7) \div 10 < ((2 * c) * 7) \div 10
    <2>1. CASE c = 1
      BY <2>1
    <2>2. CASE c > 1
      <3>1. c * 7 + 10 <= (2 * c) * 7
        BY <2>2
      <3> QED
        BY <3>1
    <2> QED
      BY <1>2, <2>1, <2>2
  <1> QED
    BY <1>1, <1>2 DEF ItemCapacity

LEMMA MoreRoom ==
    ASSUME NEW o, ShapeOK(o)
    PROVE  /\ Larger(o) \in Nat /\ Larger(o) > 0
           /\ Count(o) + 1 <= ItemCapacity(Larger(o))
  <1>1. o.capacity \in Nat /\ Count(o) \in Nat /\ Count(o) <= ItemCapacity(o.capacity)
    BY DEF ShapeOK, Table, Count
  <1>2. STARTING_CAPACITY \in Nat /\ STARTING_CAPACITY >= 2
    BY CapacityAssumption
  <1>3. \A c, d \in Nat : c <= d => ItemCapacity(c) <= ItemCapacity(d)
    BY DEF ItemCapacity
  <1>4. ItemCapacity(STARTING_CAPACITY) >= 1
    BY <1>2 DEF ItemCapacity
  <1>5. CASE o.capacity = 0
    BY <1>1, <1>2, <1>4, <1>5, RoomLeft DEF Larger
  <1>6. CASE o.capacity > 0
    <2>1. ItemCapacity(2 * o.capacity) >= Count(o) + 1
      BY <1>1, <1>6, RoomLeft
    <2>2. Larger(o) \in Nat /\ Larger(o) >= 2 * o.capacity
      BY <1>1, <1>2 DEF Larger
    <2> QED
      BY <1>1, <1>3, <1>6, <2>1, <2>2, RoomLeft
  <1> QED
    BY <1>1, <1>5, <1>6

LEMMA SharedNumber ==
    \A c, n \in Nat : 0 < c /\ n < c =>
      \A f \in [0 .. c - 1 -> 1 .. n] :
        \E i, j \in 0 .. c - 1 : i # j /\ f[i] = f[j]
  <1> SUFFICES ASSUME NEW c \in Nat, NEW n \in Nat, 0 < c, n < c,
                      NEW f \in [0 .. c - 1 -> 1 .. n]
               PROVE  \E i, j \in 0 .. c - 1 : i # j /\ f[i] = f[j]
    OBVIOUS
  <1>1. 0 \in Int /\ 1 \in Int /\ c - 1 \in Int /\ n \in Int
    OBVIOUS
  <1>2. /\ IsFiniteSet(0 .. c - 1)
        /\ Cardinality(0 .. c - 1) = IF 0 > c - 1 THEN 0 ELSE c - 1 - 0 + 1
    BY <1>1, FS_Interval, Zenon
  <1>3. /\ IsFiniteSet(1 .. n)
        /\ Cardinality(1 .. n) = IF 1 > n THEN 0 ELSE n - 1 + 1
    BY <1>1, FS_Interval, Zenon
  <1>4. Cardinality(1 .. n) < Cardinality(0 .. c - 1)
    BY <1>2, <1>3
  <1> QED
    BY <1>2, <1>3, <1>4, FS_PigeonHole, Zenon

LEMMA PlaceType ==
    ASSUME NEW o, ShapeOK(o), o.capacity > 0, NEW key \in Keys, NEW i \in Nat
    PROVE  /\ CellFrom(o, key, i) \in 0 .. o.capacity - 1
           /\ o.cells[CellFrom(o, key, i)] \in 0 .. Count(o)
  <1>1. HashOf[key] \in Nat /\ o.capacity \in Nat
    BY HashAssumption DEF ShapeOK, Table
  <1>2. HashOf[key] + i \in Nat
    BY <1>1
  <1>3. CellFrom(o, key, i) \in 0 .. o.capacity - 1
    BY <1>1, <1>2, Division DEF CellFrom
  <1> QED
    BY <1>3 DEF ShapeOK

(***************************************************************************)
(* Wherever a search starts it comes to a free cell: more cells than items *)
(* cannot all be taken.                                                    *)
(***************************************************************************)
LEMMA FreePlace ==
    ASSUME NEW o, TableOK(o), o.capacity > 0, NEW key \in Keys
    PROVE  \E i \in 0 .. o.capacity - 1 : o.cells[CellFrom(o, key, i)] = Free
  <1> DEFINE places == 0 .. o.capacity - 1
             item == [i \in places |-> o.cells[CellFrom(o, key, i)]]
  <1>1. o.capacity \in Nat /\ Count(o) \in Nat /\ Count(o) < o.capacity
    <2>1. o \in Table /\ Count(o) <= ItemCapacity(o.capacity)
      BY DEF TableOK, ShapeOK
    <2>2. o.capacity \in Nat /\ o.names \in Seq(Keys)
      BY <2>1 DEF Table
    <2>3. Count(o) \in Nat
      BY <2>2 DEF Count
    <2>4. ItemCapacity(o.capacity) \in Nat /\ ItemCapacity(o.capacity) < o.capacity
      BY <2>2, RoomLeft
    <2> HIDE DEF item, places
    <2> QED
      BY <2>1, <2>2, <2>3, <2>4
  <1>2. SUFFICES ASSUME \A i \in places : o.cells[CellFrom(o, key, i)] # Free
                 PROVE  FALSE
    BY DEF Free
  <1>3. ASSUME NEW i \in places
        PROVE  /\ CellFrom(o, key, i) \in 0 .. o.capacity - 1
               /\ o.cells[CellFrom(o, key, i)] \in 1 .. Count(o)
    <2>1. ShapeOK(o) /\ i \in Nat
      BY <1>1 DEF TableOK
    <2>2. /\ CellFrom(o, key, i) \in 0 .. o.capacity - 1
          /\ o.cells[CellFrom(o, key, i)] \in 0 .. Count(o)
      BY <2>1, PlaceType
    <2> QED
      BY <1>1, <1>2, <2>2 DEF Free
  <1>4. PICK f \in [places -> 1 .. Count(o)] : f = item
    BY <1>3
  <1>5. \A i \in places : f[i] = o.cells[CellFrom(o, key, i)]
    BY <1>4
  <1>6. \E i, j \in places : i # j /\ f[i] = f[j]
    BY <1>1, SharedNumber
  <1>11. PICK i \in places, j \in places :
              i # j /\ o.cells[CellFrom(o, key, i)] = o.cells[CellFrom(o, key, j)]
    BY <1>5, <1>6
  <1>7. CellFrom(o, key, i) = CellFrom(o, key, j)
    BY <1>2, <1>3, <1>11 DEF TableOK, CellsDiffer
  <1>8. HashOf[key] \in Nat
    BY HashAssumption
  <1>9. i = j
    BY <1>1, <1>7, <1>8, PlacesDiffer DEF CellFrom
  <1> QED
    BY <1>9, <1>11

(***************************************************************************)
(* The search ends at the first cell that is free or has the key.          *)
(***************************************************************************)
LEMMA SearchEnds ==
    ASSUME NEW o, TableOK(o), o.capacity > 0, NEW key \in Keys
    PROVE  \E i \in 0 .. o.capacity - 1 :
             /\ CellOf(o, key) = CellFrom(o, key, i)
             /\ StopsAt(o, key, CellFrom(o, key, i))
             /\ \A j \in 0 .. i - 1 : ~StopsAt(o, key, CellFrom(o, key, j))
  <1> DEFINE stops == {i \in 0 .. o.capacity - 1 : StopsAt(o, key, CellFrom(o, key, i))}
             k == CHOOSE i \in stops : \A j \in stops : i <= j
  <1>1. stops # {} /\ stops \subseteq Nat
    BY FreePlace DEF StopsAt
  <1>2. \E i \in stops : \A j \in stops : i <= j
    BY <1>1, LeastOf
  <1>3. k \in stops /\ \A j \in stops : k <= j
    BY <1>2
  <1>4. CellOf(o, key) = CellFrom(o, key, k)
    BY <1>1 DEF CellOf
  <1> HIDE DEF k
  <1>5. k \in 0 .. o.capacity - 1 /\ StopsAt(o, key, CellFrom(o, key, k))
    BY <1>3
  <1>6. o.capacity \in Nat
    BY DEF TableOK, ShapeOK, Table
  <1>7. \A j \in 0 .. k - 1 : ~StopsAt(o, key, CellFrom(o, key, j))
    BY <1>3, <1>5, <1>6
  <1> QED
    BY <1>4, <1>5, <1>7

(***************************************************************************)
(* A key that is not in the table leads to a free cell, over cells that    *)
(* are taken.                                                              *)
(***************************************************************************)
LEMMA AbsentCell ==
    ASSUME NEW o, TableOK(o), o.capacity > 0, NEW key \in Keys, Absent(o, key)
    PROVE  \E i \in 0 .. o.capacity - 1 :
             /\ CellOf(o, key) = CellFrom(o, key, i)
             /\ o.cells[CellFrom(o, key, i)] = Free
             /\ \A j \in 0 .. i - 1 : o.cells[CellFrom(o, key, j)] # Free
  <1>1. PICK i \in 0 .. o.capacity - 1 :
             /\ CellOf(o, key) = CellFrom(o, key, i)
             /\ StopsAt(o, key, CellFrom(o, key, i))
             /\ \A j \in 0 .. i - 1 : ~StopsAt(o, key, CellFrom(o, key, j))
    BY SearchEnds
  <1>2. o.cells[CellFrom(o, key, i)] \in 0 .. Count(o) /\ Count(o) \in Nat
    BY PlaceType DEF TableOK, ShapeOK, Table, Count
  <1>3. o.cells[CellFrom(o, key, i)] = Free
    BY <1>1, <1>2 DEF StopsAt, Absent, Free
  <1>4. \A j \in 0 .. i - 1 : o.cells[CellFrom(o, key, j)] # Free
    BY <1>1 DEF StopsAt
  <1> QED
    BY <1>1, <1>3, <1>4

LEMMA AbsentNotFound ==
    ASSUME NEW o, TableOK(o), NEW key \in Keys, Absent(o, key)
    PROVE  ~Found(o, key)
  <1>1. o.capacity \in Nat
    BY DEF TableOK, ShapeOK, Table
  <1>2. CASE o.capacity > 0
    <2>1. o.cells[CellOf(o, key)] = Free
      BY <1>2, AbsentCell
    <2> QED
      BY <2>1 DEF Found
  <1>3. CASE o.capacity = 0
    <2>1. CellOf(o, key) = Nowhere
      BY <1>3 DEF CellOf
    <2> QED
      BY <2>1 DEF Found
  <1> QED
    BY <1>1, <1>2, <1>3

(***************************************************************************)
(* A member's name leads to the member's cell.                             *)
(***************************************************************************)
LEMMA MemberFound ==
    ASSUME NEW o, TableOK(o), NEW n \in 1 .. Count(o)
    PROVE  Found(o, o.names[n]) /\ o.cells[CellOf(o, o.names[n])] = n
  <1> DEFINE key == o.names[n]
  <1>1. /\ o.capacity \in Nat /\ Count(o) \in Nat
        /\ Count(o) <= ItemCapacity(o.capacity) /\ key \in Keys
    BY ElementOfSeq DEF TableOK, ShapeOK, Table, Count
  <1>2. o.capacity > 0
    BY <1>1, RoomLeft
  <1> HIDE DEF key
  <1>3. PICK i \in 0 .. o.capacity - 1 : /\ o.cells[CellFrom(o, key, i)] = n
                                        /\ \A j \in 0 .. i - 1 :
                                             o.cells[CellFrom(o, key, j)] # Free
    BY DEF TableOK, ItemsReached, Reaches, key
  <1>4. PICK k \in 0 .. o.capacity - 1 :
             /\ CellOf(o, key) = CellFrom(o, key, k)
             /\ StopsAt(o, key, CellFrom(o, key, k))
             /\ \A j \in 0 .. k - 1 : ~StopsAt(o, key, CellFrom(o, key, j))
    BY <1>1, <1>2, SearchEnds
  <1>5. StopsAt(o, key, CellFrom(o, key, i))
    BY <1>3 DEF StopsAt, key
  <1>6. k <= i
    BY <1>1, <1>4, <1>5
  <1>7. o.cells[CellFrom(o, key, k)] # Free
    <2>1. CASE k = i
      BY <1>1, <1>3, <2>1 DEF Free
    <2>2. CASE k < i
      BY <1>1, <1>3, <2>2
    <2> QED
      BY <1>1, <1>6, <2>1, <2>2
  <1>8. /\ o.cells[CellFrom(o, key, k)] \in 0 .. Count(o)
        /\ o.names[o.cells[CellFrom(o, key, k)]] = o.names[n]
    BY <1>1, <1>2, <1>4, <1>7, PlaceType DEF TableOK, StopsAt, key
  <1>9. o.cells[CellFrom(o, key, k)] = n
    BY <1>1, <1>7, <1>8 DEF TableOK, NamesDiffer, Free
  <1>10. CellFrom(o, key, k) # Nowhere
    BY <1>1, <1>2, PlaceType DEF TableOK, Nowhere
  <1> QED
    BY <1>4, <1>7, <1>9, <1>10 DEF Found, key

(***************************************************************************)
(* What a lookup returns.                                                  *)
(***************************************************************************)
LEMMA LookupOK ==
    ASSUME NEW o, TableOK(o)
    PROVE  /\ \A n \in 1 .. Count(o) : Get(o, o.names[n], NULL) = o.values[n]
           /\ \A k \in Keys : (\A n \in 1 .. Count(o) : o.names[n] # k) =>
                 Get(o, k, NULL) = NULL
           /\ o.capacity > 0 => Count(o) < o.capacity
  <1>1. \A n \in 1 .. Count(o) : Get(o, o.names[n], NULL) = o.values[n]
    BY MemberFound DEF Get
  <1>2. ASSUME NEW k \in Keys, \A n \in 1 .. Count(o) : o.names[n] # k
        PROVE  Get(o, k, NULL) = NULL
    BY <1>2, AbsentNotFound DEF Get, Absent
  <1>3. ASSUME o.capacity > 0
        PROVE  Count(o) < o.capacity
    <2>1. o.capacity \in Nat /\ Count(o) \in Nat /\ Count(o) <= ItemCapacity(o.capacity)
      BY DEF TableOK, ShapeOK, Table, Count
    <2> QED
      BY <1>3, <2>1, RoomLeft
  <1> QED
    BY <1>1, <1>2, <1>3

-----------------------------------------------------------------------------
(* Adding to a table.                                                      *)

LEMMA EmptyTable ==
    ASSUME NEW c \in Nat
    PROVE  TableOK(NewTable(c)) /\ NewTable(c).names = <<>> /\ NewTable(c).values = <<>>
  <1> DEFINE o == NewTable(c)
  <1>1. /\ o.capacity = c /\ o.cells = [ix \in 0 .. c - 1 |-> Free]
        /\ o.names = <<>> /\ o.values = <<>> /\ Count(o) = 0
    BY DEF NewTable, Count
  <1>2. o.cells \in Cells
    <2>1. o.cells \in [0 .. c - 1 -> Nat]
      BY <1>1 DEF Free
    <2> QED
      BY <2>1 DEF Cells
  <1>3. o \in Table
    BY <1>2 DEF Table, NewTable
  <1> HIDE DEF o
  <1>4. ShapeOK(o)
    BY <1>1, <1>3, RoomLeft DEF ShapeOK, Free
  <1>5. NamesDiffer(o) /\ ItemsReached(o)
    BY <1>1 DEF NamesDiffer, ItemsReached
  <1>6. CellsDiffer(o)
    BY <1>1 DEF CellsDiffer
  <1>7. TableOK(o)
    BY <1>4, <1>5, <1>6 DEF TableOK
  <1> QED
    BY <1>1, <1>7 DEF o

(***************************************************************************)
(* An item added to a table that has room for it is in a cell of its own,  *)
(* the first free one on its way; nothing is moved, and no other item's    *)
(* way has lost a cell.                                                    *)
(***************************************************************************)
LEMMA PutOK ==
    ASSUME NEW o, TableOK(o), NEW key \in Keys, Absent(o, key), NEW v \in Value,
           Count(o) + 1 <= ItemCapacity(o.capacity)
    PROVE  /\ TableOK(Put(o, key, v))
           /\ Put(o, key, v).capacity = o.capacity
           /\ Put(o, key, v).names = Append(o.names, key)
           /\ Put(o, key, v).values = Append(o.values, v)
  <1> DEFINE p == Put(o, key, v)
             n == Count(o) + 1
  <1>1. /\ o \in Table /\ o.capacity \in Nat /\ Count(o) \in Nat
        /\ o.names \in Seq(Keys) /\ o.values \in Seq(Value) /\ o.cells \in Cells
        /\ Len(o.values) = Count(o) /\ Len(o.names) = Count(o)
        /\ DOMAIN o.cells = 0 .. o.capacity - 1
        /\ \A ix \in 0 .. o.capacity - 1 : o.cells[ix] \in 0 .. Count(o)
    BY DEF TableOK, ShapeOK, Table, Count
  <1>2. o.capacity > 0
    BY <1>1, RoomLeft
  <1>3. PICK i \in 0 .. o.capacity - 1 :
             /\ CellOf(o, key) = CellFrom(o, key, i)
             /\ o.cells[CellFrom(o, key, i)] = Free
             /\ \A j \in 0 .. i - 1 : o.cells[CellFrom(o, key, j)] # Free
    BY <1>2, AbsentCell
  <1>13. \A k \in Keys, j \in Nat : CellFrom(o, k, j) \in 0 .. o.capacity - 1
    BY <1>2, PlaceType DEF TableOK
  <1>4. PICK c \in 0 .. o.capacity - 1 : c = CellFrom(o, key, i) /\ o.cells[c] = Free
    <2>1. i \in Nat
      BY <1>1
    <2>2. CellFrom(o, key, i) \in 0 .. o.capacity - 1
      BY <1>13, <2>1
    <2> QED
      BY <1>3, <2>2
  <1>5. p = [capacity |-> o.capacity, cells |-> [o.cells EXCEPT ![c] = n],
             names |-> Append(o.names, key), values |-> Append(o.values, v)]
    <2>1. o = [capacity |-> o.capacity, cells |-> o.cells,
               names |-> o.names, values |-> o.values]
      BY <1>1 DEF Table
    <2>2. CellOf(o, key) = c
      BY <1>3, <1>4
    <2>3. p = [o EXCEPT !.cells = [o.cells EXCEPT ![c] = n],
                        !.names = Append(o.names, key),
                        !.values = Append(o.values, v)]
      BY <2>2, Zenon DEF Put
    <2> QED
      BY <2>1, <2>3
  <1>6. p \in Table
    <2>1. o.cells \in [0 .. o.capacity - 1 -> Nat]
      BY <1>1 DEF Cells
    <2>2. [o.cells EXCEPT ![c] = n] \in [0 .. o.capacity - 1 -> Nat]
      BY <1>1, <2>1
    <2>3. [o.cells EXCEPT ![c] = n] \in Cells
      BY <1>1, <2>2 DEF Cells
    <2>4. Append(o.names, key) \in Seq(Keys) /\ Append(o.values, v) \in Seq(Value)
      BY <1>1
    <2> QED
      BY <1>1, <1>5, <2>3, <2>4 DEF Table
  <1> HIDE DEF p
  <1>7. /\ Count(p) = n
        /\ \A m \in 1 .. Count(o) : p.names[m] = o.names[m]
        /\ p.names[n] = key
    BY <1>1, <1>5 DEF Count
  <1>8. /\ p.cells[c] = n
        /\ DOMAIN p.cells = 0 .. o.capacity - 1
        /\ \A ix \in 0 .. o.capacity - 1 : ix # c => p.cells[ix] = o.cells[ix]
    BY <1>1, <1>4, <1>5
  <1>9. ShapeOK(p)
    <2>1. \A ix \in 0 .. p.capacity - 1 : p.cells[ix] \in 0 .. Count(p)
      BY <1>1, <1>5, <1>7, <1>8, SMTT(30)
    <2>2. Len(p.values) = Count(p)
      BY <1>1, <1>5, <1>7
    <2> QED
      BY <1>1, <1>5, <1>6, <1>7, <1>8, <2>1, <2>2 DEF ShapeOK
  <1>10. NamesDiffer(p)
    BY <1>1, <1>7, SMTT(30) DEF NamesDiffer, TableOK, Absent
  <1>11. CellsDiffer(p)
    <2>1. \A ix \in 0 .. o.capacity - 1 : o.cells[ix] # n
      BY <1>1
    <2> QED
      BY <1>5, <1>8, <2>1 DEF CellsDiffer, TableOK
  <1>12. \A k, j : CellFrom(p, k, j) = CellFrom(o, k, j)
    BY <1>5 DEF CellFrom
  <1>14. \A ix \in 0 .. o.capacity - 1 : o.cells[ix] # Free => p.cells[ix] # Free
    BY <1>1, <1>8, SMTT(30) DEF Free
  <1>15. ASSUME NEW m \in 1 .. Count(p)
         PROVE  \E j \in 0 .. p.capacity - 1 : Reaches(p, m, j)
    <2>1. CASE m = n
      <3>1. p.cells[CellFrom(p, p.names[m], i)] = m
        BY <1>4, <1>7, <1>8, <1>12, <2>1
      <3>2. \A j \in 0 .. i - 1 : p.cells[CellFrom(p, p.names[m], j)] # Free
        BY <1>3, <1>7, <1>12, <1>13, <1>14, <2>1
      <3> QED
        BY <1>5, <3>1, <3>2 DEF Reaches
    <2>2. CASE m \in 1 .. Count(o)
      <3>1. PICK j \in 0 .. o.capacity - 1 : Reaches(o, m, j)
        BY <2>2 DEF TableOK, ItemsReached
      <3>2. o.names[m] \in Keys /\ p.names[m] = o.names[m] /\ m # Free
        BY <1>1, <1>7, <2>2, ElementOfSeq DEF Free
      <3>3. CellFrom(o, o.names[m], j) # c
        BY <1>4, <3>1, <3>2 DEF Reaches
      <3>4. p.cells[CellFrom(p, p.names[m], j)] = m
        <4>1. CellFrom(o, o.names[m], j) \in 0 .. o.capacity - 1
          BY <1>13, <3>2
        <4>2. o.cells[CellFrom(o, o.names[m], j)] = m
          BY <3>1 DEF Reaches
        <4> QED
          BY <1>8, <1>12, <3>2, <3>3, <4>1, <4>2
      <3>5. \A l \in 0 .. j - 1 : p.cells[CellFrom(p, p.names[m], l)] # Free
        BY <1>12, <1>13, <1>14, <3>1, <3>2 DEF Reaches
      <3> QED
        BY <1>5, <3>1, <3>4, <3>5 DEF Reaches
    <2> QED
      BY <1>1, <1>7, <2>1, <2>2
  <1>16. TableOK(p)
    BY <1>9, <1>10, <1>11, <1>15 DEF TableOK, ItemsReached
  <1> QED
    BY <1>5, <1>16 DEF p

LEMMA Prefixes ==
    ASSUME NEW S, NEW s \in Seq(S), NEW n \in 1 .. Len(s)
    PROVE  /\ SubSeq(s, 1, n) = Append(SubSeq(s, 1, n - 1), s[n])
           /\ Len(SubSeq(s, 1, n - 1)) = n - 1
           /\ \A m \in 1 .. n - 1 : SubSeq(s, 1, n - 1)[m] = s[m]
           /\ s[n] \in S
  <1>1. Len(SubSeq(s, 1, n - 1)) = n - 1
    OBVIOUS
  <1>2. \A m \in 1 .. n - 1 : SubSeq(s, 1, n - 1)[m] = s[m]
    OBVIOUS
  <1>3. s[n] \in S
    OBVIOUS
  <1>4. SubSeq(s, 1, n) = Append(SubSeq(s, 1, n - 1), s[n])
    OBVIOUS
  <1> QED
    BY <1>1, <1>2, <1>3, <1>4

(***************************************************************************)
(* The tables that growing goes through: the m-th holds the first m items. *)
(* Grown's definition of them by recursion defines a function.             *)
(***************************************************************************)
Rehash(o, f, m) ==
    f = [n \in 0 .. m |-> IF n = 0 THEN NewTable(Larger(o))
                                   ELSE Put(f[n - 1], o.names[n], o.values[n])]

LEMMA RehashExists ==
    ASSUME NEW o, NEW c \in Nat
    PROVE  \E f : Rehash(o, f, c)
  <1> DEFINE none == {m \in Nat : ~ \E f : Rehash(o, f, m)}
  <1>1. SUFFICES ASSUME none # {} PROVE FALSE
    OBVIOUS
  <1>2. PICK m \in none : \A k \in none : m <= k
    BY <1>1, LeastOf
  <1>3. m # 0
    <2>1. Rehash(o, [n \in 0 .. 0 |-> NewTable(Larger(o))], 0)
      BY DEF Rehash
    <2> QED
      BY <2>1
  <1>4. m \in Nat /\ m - 1 \in Nat /\ m - 1 \notin none
    BY <1>2, <1>3
  <1>5. PICK f : Rehash(o, f, m - 1)
    BY <1>4
  <1> DEFINE g == [n \in 0 .. m |-> IF n = m THEN Put(f[m - 1], o.names[m], o.values[m])
                                           ELSE f[n]]
  <1>6. ASSUME NEW n \in 0 .. m
        PROVE  g[n] = IF n = 0 THEN NewTable(Larger(o))
                               ELSE Put(g[n - 1], o.names[n], o.values[n])
    <2>1. CASE n = m
      BY <1>3, <1>4, <2>1
    <2>2. CASE n # m
      <3>1. n \in 0 .. m - 1
        BY <1>4, <2>2
      <3>2. f[n] = IF n = 0 THEN NewTable(Larger(o))
                            ELSE Put(f[n - 1], o.names[n], o.values[n])
        BY <1>5, <3>1 DEF Rehash
      <3>3. g[n] = f[n] /\ (n # 0 => g[n - 1] = f[n - 1])
        BY <1>4, <3>1
      <3> QED
        BY <3>2, <3>3
    <2> QED
      BY <2>1, <2>2
  <1>7. g = [n \in 0 .. m |-> IF n = 0 THEN NewTable(Larger(o))
                              ELSE Put(g[n - 1], o.names[n], o.values[n])]
    <2> DEFINE h == [n \in 0 .. m |-> IF n = 0 THEN NewTable(Larger(o))
                                      ELSE Put(g[n - 1], o.names[n], o.values[n])]
    <2>1. \A n \in 0 .. m : g[n] = h[n]
      BY <1>6
    <2>2. g = [n \in 0 .. m |-> g[n]] /\ h = [n \in 0 .. m |-> h[n]]
      OBVIOUS
    <2> HIDE DEF g, h
    <2>3. g = h
      BY <2>1, <2>2
    <2> QED
      BY <2>3 DEF h
  <1>8. Rehash(o, g, m)
    BY <1>7 DEF Rehash
  <1> QED
    BY <1>2, <1>8

LEMMA GrownIsLast ==
    ASSUME NEW o, Count(o) \in Nat
    PROVE  \E f : Rehash(o, f, Count(o)) /\ Grown(o) = f[Count(o)]
  <1> DEFINE f == CHOOSE f : Rehash(o, f, Count(o))
  <1>1. Rehash(o, f, Count(o))
    BY RehashExists
  <1>2. Grown(o) = f[Count(o)]
    BY Zenon DEF Grown, Rehash
  <1> QED
    BY <1>1, <1>2

(***************************************************************************)
(* Growing keeps the items, and makes room for one more.                   *)
(***************************************************************************)
LEMMA GrownOK ==
    ASSUME NEW o, TableOK(o)
    PROVE  /\ TableOK(Grown(o))
           /\ Grown(o).names = o.names /\ Grown(o).values = o.values
           /\ Count(o) + 1 <= ItemCapacity(Grown(o).capacity)
  <1>1. /\ Count(o) \in Nat /\ Len(o.names) = Count(o) /\ Len(o.values) = Count(o)
        /\ o.names \in Seq(Keys) /\ o.values \in Seq(Value)
    BY DEF TableOK, ShapeOK, Table, Count
  <1>2. /\ Larger(o) \in Nat
        /\ Count(o) + 1 <= ItemCapacity(Larger(o)) /\ ItemCapacity(Larger(o)) \in Nat
    BY MoreRoom, RoomLeft DEF TableOK
  <1>3. PICK f : Rehash(o, f, Count(o)) /\ Grown(o) = f[Count(o)]
    BY <1>1, GrownIsLast
  <1> DEFINE Holds(n) == /\ TableOK(f[n]) /\ f[n].capacity = Larger(o)
                         /\ f[n].names = SubSeq(o.names, 1, n)
                         /\ f[n].values = SubSeq(o.values, 1, n)
             fails == {n \in 0 .. Count(o) : ~Holds(n)}
  <1>4. Holds(0)
    <2>1. f[0] = NewTable(Larger(o))
      BY <1>1, <1>3 DEF Rehash
    <2>2. f[0].capacity = Larger(o)
      BY <2>1 DEF NewTable
    <2>3. SubSeq(o.names, 1, 0) = <<>> /\ SubSeq(o.values, 1, 0) = <<>>
      BY <1>1
    <2> QED
      BY <1>2, <2>1, <2>2, <2>3, EmptyTable
  <1>5. ASSUME NEW n \in 1 .. Count(o), Holds(n - 1)
        PROVE  Holds(n)
    <2> DEFINE q == f[n - 1]
    <2>1. f[n] = Put(q, o.names[n], o.values[n])
      BY <1>1, <1>3 DEF Rehash
    <2>2. /\ o.names[n] \in Keys /\ o.values[n] \in Value
          /\ SubSeq(o.names, 1, n) = Append(SubSeq(o.names, 1, n - 1), o.names[n])
          /\ SubSeq(o.values, 1, n) = Append(SubSeq(o.values, 1, n - 1), o.values[n])
          /\ Len(SubSeq(o.names, 1, n - 1)) = n - 1
          /\ \A m \in 1 .. n - 1 : SubSeq(o.names, 1, n - 1)[m] = o.names[m]
      <3>1. n \in 1 .. Len(o.names) /\ o.names \in Seq(Keys)
        BY <1>1
      <3>2. n \in 1 .. Len(o.values) /\ o.values \in Seq(Value)
        BY <1>1
      <3>3. /\ o.names[n] \in Keys
            /\ SubSeq(o.names, 1, n) = Append(SubSeq(o.names, 1, n - 1), o.names[n])
            /\ Len(SubSeq(o.names, 1, n - 1)) = n - 1
            /\ \A m \in 1 .. n - 1 : SubSeq(o.names, 1, n - 1)[m] = o.names[m]
        BY <3>1, Prefixes, Zenon
      <3>4. /\ o.values[n] \in Value
            /\ SubSeq(o.values, 1, n) = Append(SubSeq(o.values, 1, n - 1), o.values[n])
        BY <3>2, Prefixes, Zenon
      <3> QED
        BY <3>3, <3>4
    <2>3. /\ TableOK(q) /\ q.capacity = Larger(o)
          /\ q.names = SubSeq(o.names, 1, n - 1)
          /\ q.values = SubSeq(o.values, 1, n - 1)
      BY <1>5
    <2> HIDE DEF q
    <2>4. Count(q) = n - 1
      BY <2>2, <2>3 DEF Count
    <2>5. Absent(q, o.names[n])
      BY <1>1, <2>2, <2>3, <2>4 DEF Absent, TableOK, NamesDiffer
    <2>6. Count(q) + 1 <= ItemCapacity(q.capacity)
      BY <1>1, <1>2, <2>3, <2>4
    <2>7. /\ TableOK(f[n]) /\ f[n].capacity = q.capacity
          /\ f[n].names = Append(q.names, o.names[n])
          /\ f[n].values = Append(q.values, o.values[n])
      <3>1. PICK key \in Keys : key = o.names[n]
        BY <2>2
      <3>2. PICK v \in Value : v = o.values[n]
        BY <2>2
      <3>3. f[n] = Put(q, key, v) /\ Absent(q, key)
        BY <2>1, <2>5, <3>1, <3>2
      <3>4. /\ TableOK(Put(q, key, v)) /\ Put(q, key, v).capacity = q.capacity
            /\ Put(q, key, v).names = Append(q.names, key)
            /\ Put(q, key, v).values = Append(q.values, v)
        BY <2>3, <2>6, <3>3, PutOK
      <3> QED
        BY <3>1, <3>2, <3>3, <3>4
    <2> QED
      BY <2>2, <2>3, <2>7
  <1> HIDE DEF Holds
  <1>6. fails = {}
    <2>1. SUFFICES ASSUME fails # {} PROVE FALSE
      OBVIOUS
    <2>2. fails \subseteq Nat
      OBVIOUS
    <2>3. PICK n \in fails : \A m \in fails : n <= m
      BY <2>1, <2>2, LeastOf
    <2>4. n # 0
      BY <1>4, <2>3
    <2>5. n \in 1 .. Count(o) /\ n - 1 \in 0 .. Count(o) /\ n - 1 \notin fails
      BY <1>1, <2>3, <2>4
    <2> QED
      BY <1>5, <2>3, <2>5
  <1>7. Holds(Count(o))
    BY <1>1, <1>6
  <1>8. SubSeq(o.names, 1, Count(o)) = o.names /\ SubSeq(o.values, 1, Count(o)) = o.values
    BY <1>1
  <1> QED
    BY <1>2, <1>3, <1>7, <1>8 DEF Holds

LEMMA AddedOK ==
    ASSUME NEW o, TableOK(o), NEW key \in Keys, Absent(o, key), NEW v \in Value
    PROVE  /\ TableOK(Added(o, key, v))
           /\ Added(o, key, v).names = Append(o.names, key)
           /\ Added(o, key, v).values = Append(o.values, v)
  <1>1. CASE MustGrow(o)
    <2> DEFINE g == Grown(o)
    <2>1. /\ TableOK(g) /\ g.names = o.names /\ g.values = o.values
          /\ Count(o) + 1 <= ItemCapacity(g.capacity)
      BY GrownOK
    <2>2. Added(o, key, v) = Put(g, key, v)
      BY <1>1 DEF Added
    <2> HIDE DEF g
    <2>3. Count(g) = Count(o) /\ Absent(g, key)
      BY <2>1 DEF Count, Absent
    <2> QED
      BY <2>1, <2>2, <2>3, PutOK, SMTT(30)
  <1>2. CASE ~MustGrow(o)
    <2>1. o.capacity \in Nat /\ Count(o) \in Nat /\ ItemCapacity(o.capacity) \in Nat
      BY RoomLeft DEF TableOK, ShapeOK, Table, Count
    <2>2. Count(o) + 1 <= ItemCapacity(o.capacity)
      BY <1>2, <2>1 DEF MustGrow
    <2>3. Added(o, key, v) = Put(o, key, v)
      BY <1>2 DEF Added
    <2> QED
      BY <2>2, <2>3, PutOK
  <1> QED
    BY <1>1, <1>2

-----------------------------------------------------------------------------
(* Memory.                                                                 *)

LEMMA Popped ==
    ASSUME NEW S, NEW s \in Seq(S), s # <<>>
    PROVE  /\ Len(s) \in Nat /\ Len(s) >= 1 /\ s[Len(s)] \in S
           /\ SubSeq(s, 1, Len(s) - 1) \in Seq(S)
           /\ Len(SubSeq(s, 1, Len(s) - 1)) = Len(s) - 1
           /\ \A d \in 1 .. Len(s) - 1 : SubSeq(s, 1, Len(s) - 1)[d] = s[d]
  <1>1. Len(s) \in Nat /\ Len(s) >= 1
    OBVIOUS
  <1>2. s[Len(s)] \in S
    BY <1>1, ElementOfSeq
  <1>3. /\ SubSeq(s, 1, Len(s) - 1) \in Seq(S)
        /\ Len(SubSeq(s, 1, Len(s) - 1)) = Len(s) - 1
    <2>1. \A i \in 1 .. Len(s) - 1 : s[i] \in S
      BY <1>1, ElementOfSeq
    <2>2. PICK n \in Int : n = Len(s) - 1
      BY <1>1
    <2>3. \A i \in 1 .. n : s[i] \in S
      BY <2>1, <2>2
    <2>4. /\ SubSeq(s, 1, n) \in Seq(S)
          /\ Len(SubSeq(s, 1, n)) = IF 1 <= n THEN n - 1 + 1 ELSE 0
      BY <2>3, SubSeqProperties
    <2> QED
      BY <1>1, <2>2, <2>4
  <1>4. \A d \in 1 .. Len(s) - 1 : SubSeq(s, 1, Len(s) - 1)[d] = s[d]
    BY <1>1
  <1> QED
    BY <1>1, <1>2, <1>3, <1>4

LEMMA Replaced ==
    ASSUME NEW S, NEW s \in Seq(S), s # <<>>, NEW g \in S
    PROVE  /\ [s EXCEPT ![Len(s)] = g] \in Seq(S)
           /\ Len([s EXCEPT ![Len(s)] = g]) = Len(s)
           /\ [s EXCEPT ![Len(s)] = g] # <<>>
           /\ [s EXCEPT ![Len(s)] = g][Len(s)] = g
           /\ \A d \in 1 .. Len(s) - 1 : [s EXCEPT ![Len(s)] = g][d] = s[d]
           /\ SubSeq([s EXCEPT ![Len(s)] = g], 1, Len(s) - 1) = SubSeq(s, 1, Len(s) - 1)
  OBVIOUS

LEMMA FreshBlocks ==
    ASSUME NEW n \in Nat
    PROVE  NewBlocks(n) \subseteq Int /\ NewBlocks(n) \intersect heap = {}
  BY DEF NewBlocks

LEMMA BlocksAppend ==
    ASSUME NEW s \in Seq(Value), NEW v \in Value
    PROVE  Blocks(Append(s, v)) = Blocks(s) \union v.blocks
  <1>1. /\ Len(Append(s, v)) = Len(s) + 1 /\ Len(s) \in Nat
        /\ Append(s, v)[Len(s) + 1] = v
        /\ \A i \in 1 .. Len(s) : Append(s, v)[i] = s[i]
    OBVIOUS
  <1>2. ASSUME NEW b \in Blocks(Append(s, v))
        PROVE  b \in Blocks(s) \union v.blocks
    <2>1. PICK i \in 1 .. Len(s) + 1 : b \in Append(s, v)[i].blocks
      BY <1>1, <1>2 DEF Blocks
    <2>2. CASE i = Len(s) + 1
      BY <1>1, <2>1, <2>2
    <2>3. CASE i \in 1 .. Len(s)
      BY <1>1, <2>1, <2>3 DEF Blocks
    <2> QED
      BY <1>1, <2>2, <2>3
  <1>3. ASSUME NEW b \in Blocks(s)
        PROVE  b \in Blocks(Append(s, v))
    <2>1. PICK i \in 1 .. Len(s) : b \in s[i].blocks
      BY <1>3 DEF Blocks
    <2>2. i \in 1 .. Len(s) + 1 /\ b \in Append(s, v)[i].blocks
      BY <1>1, <2>1
    <2> QED
      BY <1>1, <2>2 DEF Blocks
  <1>4. ASSUME NEW b \in v.blocks
        PROVE  b \in Blocks(Append(s, v))
    <2>1. Len(s) + 1 \in 1 .. Len(s) + 1 /\ b \in Append(s, v)[Len(s) + 1].blocks
      BY <1>1, <1>4
    <2> QED
      BY <1>1, <2>1 DEF Blocks
  <1> QED
    BY <1>2, <1>3, <1>4

(***************************************************************************)
(* The top call gives up or ends: what it held is freed, or is returned.   *)
(***************************************************************************)
LEMMA MemoryPop ==
    ASSUME NEW h, NEW s \in Seq(FrameType), s # <<>>, NEW l, MemoryOf(h, s, l)
    PROVE  /\ AllHeld(s[Len(s)]) \union l \subseteq h
           /\ MemoryOf(h \ (AllHeld(s[Len(s)]) \union l), SubSeq(s, 1, Len(s) - 1), {})
           /\ MemoryOf(h, SubSeq(s, 1, Len(s) - 1), AllHeld(s[Len(s)]) \union l)
  <1> DEFINE b == AllHeld(s[Len(s)]) \union l
             t == SubSeq(s, 1, Len(s) - 1)
             n == Len(s)
  <1>1. /\ n \in Nat /\ n >= 1 /\ Len(t) = n - 1
        /\ \A d \in 1 .. n - 1 : t[d] = s[d]
    BY Popped
  <1>2. /\ l \subseteq h
        /\ \A d \in 1 .. n : AllHeld(s[d]) \subseteq h
        /\ \A x \in h : x \in l \/ \E d \in 1 .. n : x \in AllHeld(s[d])
        /\ \A d \in 1 .. n : AllHeld(s[d]) \intersect l = {}
        /\ \A d, e \in 1 .. n : d # e => AllHeld(s[d]) \intersect AllHeld(s[e]) = {}
    BY DEF MemoryOf
  <1>3. b = AllHeld(s[n]) \union l
    OBVIOUS
  <1> HIDE DEF b, t, n
  <1>4. b \subseteq h
    BY <1>1, <1>2, <1>3
  <1>5. ASSUME NEW d \in 1 .. n - 1
        PROVE  AllHeld(t[d]) \subseteq h \ b
    <2>1. d \in 1 .. n /\ n \in 1 .. n /\ d # n /\ t[d] = s[d]
      BY <1>1
    <2>2. /\ AllHeld(s[d]) \subseteq h /\ AllHeld(s[d]) \intersect l = {}
          /\ AllHeld(s[d]) \intersect AllHeld(s[n]) = {}
      BY <1>2, <2>1
    <2> QED
      BY <1>3, <2>1, <2>2
  <1>6. \A x \in h : x \in b \/ \E d \in 1 .. n - 1 : x \in AllHeld(t[d])
    <2>1. TAKE x \in h
    <2>2. CASE x \in l
      BY <1>3, <2>2
    <2>3. CASE \E d \in 1 .. n : x \in AllHeld(s[d])
      <3>1. PICK d \in 1 .. n : x \in AllHeld(s[d])
        BY <2>3
      <3>2. CASE d = n
        BY <1>3, <3>1, <3>2
      <3>3. CASE d \in 1 .. n - 1
        BY <1>1, <3>1, <3>3
      <3> QED
        BY <1>1, <3>2, <3>3
    <2> QED
      BY <1>2, <2>2, <2>3
  <1>7. ASSUME NEW d \in 1 .. n - 1, NEW e \in 1 .. n - 1, d # e
        PROVE  AllHeld(t[d]) \intersect AllHeld(t[e]) = {}
    <2>1. d \in 1 .. n /\ e \in 1 .. n /\ t[d] = s[d] /\ t[e] = s[e]
      BY <1>1
    <2> QED
      BY <1>2, <1>7, <2>1
  <1>8. MemoryOf(h \ b, t, {})
    BY <1>1, <1>5, <1>6, <1>7 DEF MemoryOf
  <1>9. MemoryOf(h, t, b)
    BY <1>1, <1>4, <1>5, <1>6, <1>7 DEF MemoryOf
  <1> QED
    BY <1>4, <1>8, <1>9 DEF b, t

(***************************************************************************)
(* The top call takes what is loose and new blocks, and frees old ones.    *)
(***************************************************************************)
LEMMA MemoryReplace ==
    ASSUME NEW h, NEW s \in Seq(FrameType), s # <<>>, NEW l, MemoryOf(h, s, l),
           NEW g \in FrameType, NEW new, NEW old, new \intersect h = {},
           AllHeld(g) = ((AllHeld(s[Len(s)]) \union l) \ old) \union new,
           old \subseteq AllHeld(s[Len(s)])
    PROVE  MemoryOf((h \union new) \ old, [s EXCEPT ![Len(s)] = g], {})
  <1> DEFINE t == [s EXCEPT ![Len(s)] = g]
             n == Len(s)
             k == (h \union new) \ old
  <1>1. /\ n \in Nat /\ n >= 1 /\ Len(t) = n /\ t[n] = g
        /\ \A d \in 1 .. n - 1 : t[d] = s[d]
    BY Popped, Replaced
  <1>2. /\ l \subseteq h
        /\ \A d \in 1 .. n : AllHeld(s[d]) \subseteq h
        /\ \A x \in h : x \in l \/ \E d \in 1 .. n : x \in AllHeld(s[d])
        /\ \A d \in 1 .. n : AllHeld(s[d]) \intersect l = {}
        /\ \A d, e \in 1 .. n : d # e => AllHeld(s[d]) \intersect AllHeld(s[e]) = {}
    BY DEF MemoryOf
  <1> HIDE DEF t, n
  <1>3. /\ AllHeld(g) = ((AllHeld(s[n]) \union l) \ old) \union new
        /\ old \subseteq AllHeld(s[n])
    BY DEF n
  <1>4. AllHeld(t[n]) \subseteq k
    BY <1>1, <1>2, <1>3
  <1>5. ASSUME NEW d \in 1 .. n - 1
        PROVE  AllHeld(t[d]) \subseteq h \ AllHeld(s[n])
    <2>1. d \in 1 .. n /\ n \in 1 .. n /\ d # n /\ t[d] = s[d]
      BY <1>1
    <2> QED
      BY <1>2, <2>1
  <1>6. \A d \in 1 .. n - 1 : AllHeld(t[d]) \subseteq k
    BY <1>3, <1>5
  <1>7. \A d \in 1 .. n - 1 : AllHeld(t[d]) \intersect AllHeld(t[n]) = {}
    BY <1>1, <1>2, <1>3, <1>5
  <1>8. ASSUME NEW d \in 1 .. n - 1, NEW e \in 1 .. n - 1, d # e
        PROVE  AllHeld(t[d]) \intersect AllHeld(t[e]) = {}
    <2>1. d \in 1 .. n /\ e \in 1 .. n /\ t[d] = s[d] /\ t[e] = s[e]
      BY <1>1
    <2> QED
      BY <1>2, <1>8, <2>1
  <1>9. \A x \in k : \E d \in 1 .. n : x \in AllHeld(t[d])
    <2>1. TAKE x \in k
    <2>2. CASE x \in AllHeld(g)
      BY <1>1, <2>2
    <2>3. CASE x \notin AllHeld(g)
      <3>1. PICK d \in 1 .. n : x \in AllHeld(s[d]) /\ d # n
        BY <1>2, <1>3, <2>3
      <3> QED
        BY <1>1, <3>1
    <2> QED
      BY <2>2, <2>3
  <1>10. ASSUME NEW d \in 1 .. n, NEW e \in 1 .. n, d # e
         PROVE  AllHeld(t[d]) \intersect AllHeld(t[e]) = {}
    <2>1. CASE d = n
      BY <1>1, <1>7, <1>10, <2>1
    <2>2. CASE e = n
      BY <1>1, <1>7, <1>10, <2>2
    <2>3. CASE d \in 1 .. n - 1 /\ e \in 1 .. n - 1
      BY <1>8, <1>10, <2>3
    <2> QED
      BY <1>1, <2>1, <2>2, <2>3
  <1>11. \A d \in 1 .. n : AllHeld(t[d]) \subseteq k
    BY <1>1, <1>4, <1>6
  <1>12. MemoryOf(k, t, {})
    BY <1>1, <1>9, <1>10, <1>11 DEF MemoryOf
  <1> QED
    BY <1>12 DEF t

LEMMA MemoryKeep ==
    ASSUME NEW h, NEW s \in Seq(FrameType), s # <<>>, MemoryOf(h, s, {}),
           NEW g \in FrameType, AllHeld(g) = AllHeld(s[Len(s)])
    PROVE  MemoryOf(h, [s EXCEPT ![Len(s)] = g], {})
  <1>1. AllHeld(g) = ((AllHeld(s[Len(s)]) \union {}) \ {}) \union {}
    OBVIOUS
  <1>2. MemoryOf((h \union {}) \ {}, [s EXCEPT ![Len(s)] = g], {})
    BY <1>1, MemoryReplace
  <1>3. (h \union {}) \ {} = h
    OBVIOUS
  <1> QED
    BY <1>2, <1>3

(***************************************************************************)
(* A call starts, with new blocks; a scalar is made of some.               *)
(***************************************************************************)
LEMMA MemoryPush ==
    ASSUME NEW h, NEW s \in Seq(FrameType), MemoryOf(h, s, {}),
           NEW g \in FrameType, AllHeld(g) \intersect h = {}
    PROVE  MemoryOf(h \union AllHeld(g), Append(s, g), {})
  <1> DEFINE t == Append(s, g)
             n == Len(s)
  <1>1. /\ n \in Nat /\ Len(t) = n + 1 /\ t[n + 1] = g
        /\ \A d \in 1 .. n : t[d] = s[d]
    OBVIOUS
  <1>2. /\ \A d \in 1 .. n : AllHeld(s[d]) \subseteq h
        /\ \A x \in h : \E d \in 1 .. n : x \in AllHeld(s[d])
        /\ \A d, e \in 1 .. n : d # e => AllHeld(s[d]) \intersect AllHeld(s[e]) = {}
    BY DEF MemoryOf
  <1> HIDE DEF t, n
  <1>3. \A d \in 1 .. n + 1 : AllHeld(t[d]) \subseteq h \union AllHeld(g)
    BY <1>1, <1>2
  <1>4. \A x \in h \union AllHeld(g) : \E d \in 1 .. n + 1 : x \in AllHeld(t[d])
    BY <1>1, <1>2
  <1>5. ASSUME NEW d \in 1 .. n + 1, NEW e \in 1 .. n + 1, d # e
        PROVE  AllHeld(t[d]) \intersect AllHeld(t[e]) = {}
    <2>1. CASE d = n + 1
      BY <1>1, <1>2, <1>5, <2>1
    <2>2. CASE e = n + 1
      BY <1>1, <1>2, <1>5, <2>2
    <2>3. CASE d \in 1 .. n /\ e \in 1 .. n
      BY <1>1, <1>2, <1>5, <2>3
    <2> QED
      BY <1>1, <2>1, <2>2, <2>3
  <1>6. MemoryOf(h \union AllHeld(g), t, {})
    BY <1>1, <1>3, <1>4, <1>5 DEF MemoryOf
  <1> QED
    BY <1>6 DEF t

LEMMA MemoryScalar ==
    ASSUME NEW h, NEW s \in Seq(FrameType), MemoryOf(h, s, {}),
           NEW new, new \intersect h = {}
    PROVE  MemoryOf(h \union new, s, new)
  BY DEF MemoryOf

-----------------------------------------------------------------------------
(* The kinds of steps.                                                     *)

LEMMA TopOK ==
    ASSUME ParserInv, stack # <<>>
    PROVE  /\ Len(stack) \in Nat /\ Len(stack) >= 1 /\ Len(stack) <= MAX_NESTING + 1
           /\ Top = stack[Len(stack)] /\ Top \in FrameType /\ FrameOK(Top)
           /\ Others \in Seq(FrameType) /\ Len(Others) = Len(stack) - 1
           /\ \A d \in 1 .. Len(stack) - 1 : Others[d] = stack[d]
  <1>1. stack \in Seq(FrameType) /\ Len(stack) <= MAX_NESTING + 1
    BY DEF ParserInv, BasicOK
  <1>2. FrameOK(stack[Len(stack)])
    BY <1>1, Popped DEF ParserInv, CallsOK
  <1> QED
    BY <1>1, <1>2, Popped DEF Top, Others

(***************************************************************************)
(* The top call is over: what it held and what is loose is freed, or it is *)
(* what is returned.                                                       *)
(***************************************************************************)
LEMMA ReturnStep ==
    ASSUME ParserInv, stack # <<>>,
           stack' = Others, mode' = "return", ret' \in Value,
           text' = text, pos' \in 1 .. Len(text) + 1, wild' = FALSE,
           MemoryOf(heap', Others, ret'.blocks)
    PROVE  ParserInv'
  <1>1. /\ Len(stack) \in Nat /\ Len(stack) >= 1 /\ Len(stack) <= MAX_NESTING + 1
        /\ Others \in Seq(FrameType) /\ Len(Others) = Len(stack) - 1
        /\ \A d \in 1 .. Len(stack) - 1 : Others[d] = stack[d]
    BY TopOK
  <1>2. BasicOK'
    BY <1>1, BoundsAssumption DEF ParserInv, BasicOK
  <1>3. /\ \A d \in 1 .. Len(stack) : FrameOK(stack[d])
        /\ \A d \in 1 .. Len(stack) - 1 : stack[d].at = "value"
    BY DEF ParserInv, CallsOK
  <1>4. CallsOK'
    <2>1. \A d \in 1 .. Len(Others) : FrameOK(Others[d]) /\ Others[d].at = "value"
      BY <1>1, <1>3
    <2>2. Others # <<>> => Others[Len(Others)].at = "value"
      BY <1>1, <2>1
    <2>3. \A d \in 1 .. Len(Others) - 1 : d \in 1 .. Len(Others)
      BY <1>1
    <2>4. mode' = "return"
      OBVIOUS
    <2> QED
      BY <2>1, <2>2, <2>3, <2>4 DEF CallsOK, Top
  <1>5. Loose' = ret'.blocks
    BY DEF Loose
  <1>6. MemoryOf(heap', stack', Loose')
    BY <1>5
  <1> QED
    BY <1>2, <1>4, <1>6 DEF ParserInv

(***************************************************************************)
(* The top call goes on as frame g.                                        *)
(***************************************************************************)
LEMMA GoOnStep ==
    ASSUME ParserInv, stack # <<>>, NEW g \in FrameType, FrameOK(g),
           stack' = [stack EXCEPT ![Len(stack)] = g], ret' = ret,
           mode' = "run" \/ (mode' = "call" /\ g.at = "value"),
           text' = text, pos' \in 1 .. Len(text) + 1, wild' = FALSE,
           MemoryOf(heap', stack', {})
    PROVE  ParserInv'
  <1>1. /\ Len(stack) \in Nat /\ Len(stack) >= 1 /\ Len(stack) <= MAX_NESTING + 1
    BY TopOK
  <1>2. /\ stack' \in Seq(FrameType) /\ Len(stack') = Len(stack) /\ stack' # <<>>
        /\ stack'[Len(stack)] = g
        /\ \A d \in 1 .. Len(stack) - 1 : stack'[d] = stack[d]
    BY Replaced, SMTT(30) DEF ParserInv, BasicOK
  <1>3. BasicOK'
    BY <1>1, <1>2, Zenon DEF ParserInv, BasicOK
  <1>4. /\ \A d \in 1 .. Len(stack) : FrameOK(stack[d])
        /\ \A d \in 1 .. Len(stack) - 1 : stack[d].at = "value"
    BY DEF ParserInv, CallsOK
  <1>5. ASSUME NEW d \in 1 .. Len(stack')
        PROVE  FrameOK(stack'[d])
    <2>1. CASE d = Len(stack)
      BY <1>2, <2>1, ZenonT(60)
    <2>2. CASE d \in 1 .. Len(stack) - 1
      BY <1>1, <1>2, <1>4, <2>2, ZenonT(60)
    <2>3. d \in 1 .. Len(stack)
      BY <1>2, ZenonT(60)
    <2> QED
      BY <1>1, <2>1, <2>2, <2>3, SMTT(30)
  <1>6. \A d \in 1 .. Len(stack') - 1 : stack'[d].at = "value"
    BY <1>2, <1>4, ZenonT(60)
  <1>7. CallsOK'
    BY <1>2, <1>5, <1>6, Zenon DEF CallsOK, Top
  <1>8. Loose' = {}
    BY DEF Loose
  <1> QED
    BY <1>3, <1>7, <1>8 DEF ParserInv

LEMMA HeldType ==
    ASSUME NEW f \in FrameType
    PROVE  Held(f) \subseteq Int /\ Held(f) \in SUBSET Int
  <1>1. f.own \subseteq Int /\ f.room \subseteq Int /\ f.names \subseteq Int
    BY Zenon DEF FrameType
  <1>2. f.table.values \in Seq(Value)
    BY Zenon DEF FrameType, Table
  <1>3. Blocks(f.table.values) \subseteq Int
    <2>1. \A i \in 1 .. Len(f.table.values) : f.table.values[i] \in Value
      BY <1>2, ElementOfSeq
    <2>2. \A i \in 1 .. Len(f.table.values) : f.table.values[i].blocks \subseteq Int
      BY <2>1 DEF Value
    <2> QED
      BY <2>2 DEF Blocks
  <1> QED
    BY <1>1, <1>3 DEF Held

LEMMA NullType == NULL \in Value /\ NULL.blocks = {}
  BY DEF NULL, Value

LEMMA GiveUpStep ==
    ASSUME ParserInv, stack # <<>>, NEW more, GiveUp(more),
           Held(Top) \union more = AllHeld(Top) \union Loose,
           text' = text, pos' \in 1 .. Len(text) + 1
    PROVE  ParserInv'
  <1> DEFINE b == Held(Top) \union more
  <1>1. stack \in Seq(FrameType) /\ MemoryOf(heap, stack, Loose) /\ wild = FALSE
    BY DEF ParserInv, BasicOK
  <1>2. /\ heap' = heap \ b /\ wild' = (wild \/ ~(b \subseteq heap))
        /\ stack' = Others /\ mode' = "return" /\ ret' = NULL
    BY DEF GiveUp, Return
  <1>3. b = AllHeld(stack[Len(stack)]) \union Loose
    BY DEF Top
  <1> HIDE DEF b
  <1>4. b \subseteq heap /\ MemoryOf(heap \ b, Others, {})
    <2>1. SubSeq(stack, 1, Len(stack) - 1) = Others
      BY DEF Others
    <2>2. /\ AllHeld(stack[Len(stack)]) \union Loose \subseteq heap
          /\ MemoryOf(heap \ (AllHeld(stack[Len(stack)]) \union Loose),
                      SubSeq(stack, 1, Len(stack) - 1), {})
      BY <1>1, MemoryPop
    <2> QED
      BY <1>3, <2>1, <2>2, Zenon
  <1>5. wild' = FALSE
    BY <1>1, <1>2, <1>4
  <1>6. MemoryOf(heap', Others, ret'.blocks)
    BY <1>2, <1>4, NullType
  <1> QED
    BY <1>2, <1>5, <1>6, NullType, ReturnStep

LEMMA FinishStep ==
    ASSUME ParserInv, stack # <<>>, mode = "run", ~Named(Top), Finish(Top),
           UNCHANGED <<text, heap, wild>>, pos' \in 1 .. Len(text) + 1
    PROVE  ParserInv'
  <1> DEFINE b == Held(Top)
  <1>1. stack \in Seq(FrameType) /\ MemoryOf(heap, stack, {}) /\ wild = FALSE
    BY DEF ParserInv, BasicOK, Loose
  <1>2. Top \in FrameType /\ FrameOK(Top)
    BY TopOK
  <1>3. b = AllHeld(stack[Len(stack)]) \union {}
    BY <1>2 DEF Top, AllHeld, FrameOK
  <1>4. /\ stack' = Others /\ mode' = "return"
        /\ ret' = [type |-> Top.type, blocks |-> b]
    BY DEF Finish, Return
  <1>5. ret' \in Value /\ ret'.blocks = b
    <2>1. b \in SUBSET Int
      BY <1>2, HeldType
    <2>2. Top.type \in {"object", "array"}
      BY <1>2, Zenon DEF FrameType
    <2> QED
      BY <1>4, <2>1, <2>2 DEF Value
  <1> HIDE DEF b
  <1>6. MemoryOf(heap, Others, b)
    <2>1. MemoryOf(heap, Others, AllHeld(stack[Len(stack)]) \union {})
      BY <1>1, MemoryPop DEF Others
    <2> QED
      BY <1>3, <2>1, Zenon
  <1> QED
    BY <1>1, <1>4, <1>5, <1>6, ReturnStep

LEMMA TokenRead ==
    ASSUME ParserInv
    PROVE  /\ pos \in 1 .. Len(text) + 1
           /\ Token # "end" => pos + 1 \in 1 .. Len(text) + 1
           /\ Token \in Strings => Token # "end"
  <1>1. pos \in 1 .. Len(text) + 1 /\ Len(text) \in Nat
    BY DEF ParserInv, BasicOK
  <1>2. Token # "end" => pos <= Len(text)
    BY DEF Token
  <1>3. Token \in Strings => Token # "end"
    BY KeysAssumption, Zenon DEF Strings
  <1> QED
    BY <1>1, <1>2, <1>3

LEMMA ParseValueStep ==
    ASSUME ParserInv, ParseValue
    PROVE  ParserInv'
  <1>1. /\ text \in Seq(STRING) /\ stack \in Seq(FrameType) /\ wild = FALSE
        /\ Len(stack) <= MAX_NESTING + 1 /\ Len(stack) \in Nat
        /\ mode = "call" /\ Loose = {} /\ MemoryOf(heap, stack, {})
        /\ text' = text /\ wild' = wild
    <2>1. mode = "call" /\ text' = text /\ wild' = wild
      BY Zenon DEF ParseValue
    <2>2. Loose = {}
      BY <2>1 DEF Loose
    <2> QED
      BY <2>1, <2>2 DEF ParserInv, BasicOK
  <1>2. /\ \A d \in 1 .. Len(stack) : FrameOK(stack[d])
        /\ \A d \in 1 .. Len(stack) - 1 : stack[d].at = "value"
        /\ stack # <<>> => Top.at = "value"
    BY <1>1 DEF ParserInv, CallsOK
  <1>3. ASSUME stack' = stack, mode' = "return", ret' \in Value,
               pos' \in 1 .. Len(text) + 1, MemoryOf(heap', stack, ret'.blocks)
        PROVE  ParserInv'
    <2>1. BasicOK'
      BY <1>1, <1>3 DEF BasicOK
    <2>2. CallsOK'
      BY <1>2, <1>3 DEF CallsOK, Top
    <2>3. Loose' = ret'.blocks
      BY <1>3 DEF Loose
    <2> QED
      BY <1>3, <2>1, <2>2, <2>3 DEF ParserInv
  <1>4. ASSUME NEW n \in Nat, Scalar(n), Token \in Strings \union {"lit"}
        PROVE  ParserInv'
    <2> DEFINE new == NewBlocks(n)
    <2>1. pos + 1 \in 1 .. Len(text) + 1
      <3>1. Token # "end"
        BY <1>4, TokenRead
      <3> QED
        BY <3>1, TokenRead
    <2>2. new \subseteq Int /\ new \intersect heap = {}
      BY FreshBlocks
    <2>3. stack' = stack /\ mode' = "return" /\ pos' = pos + 1
      BY <1>4 DEF Scalar, Return
    <2>4. CASE /\ heap' = heap \union new
               /\ ret' = [type |-> Token, blocks |-> new]
      <3>1. ret' \in Value /\ ret'.blocks = new
        BY <1>4, <2>2, <2>4 DEF Value, Strings
      <3> HIDE DEF new
      <3>2. MemoryOf(heap \union new, stack, new)
        BY <1>1, <2>2, MemoryScalar
      <3> QED
        BY <1>3, <2>1, <2>3, <2>4, <3>1, <3>2
    <2>5. CASE heap' = heap /\ ret' = NULL
      BY <1>1, <1>3, <2>1, <2>3, <2>5, NullType
    <2> QED
      BY <1>4, <2>4, <2>5 DEF Scalar, Return
  <1>5. ASSUME NEW type \in {"object", "array"}, Container(type), ~TooDeep, Token # "end"
        PROVE  ParserInv'
    <2> DEFINE new == NewBlocks(2)
               g == Frame(type, new)
    <2>1. pos \in 1 .. Len(text) + 1 /\ pos + 1 \in 1 .. Len(text) + 1
      BY <1>5, TokenRead
    <2>2. new \subseteq Int /\ new \intersect heap = {}
      BY FreshBlocks
    <2>3. CASE /\ heap' = heap \union new /\ stack' = Append(stack, g)
               /\ pos' = pos + 1 /\ mode' = "run" /\ ret' = ret
      <3>1. /\ g.type = type /\ g.own = new /\ g.room = {} /\ g.names = {}
            /\ g.at = "first" /\ g.key = "" /\ g.keyBlock = {} /\ g.table = NewTable(0)
        BY DEF Frame
      <3>2. TableOK(NewTable(0)) /\ NewTable(0).values = <<>> /\ NewTable(0) \in Table
        BY EmptyTable DEF TableOK, ShapeOK
      <3>3. g \in FrameType
        BY <2>2, <3>2 DEF FrameType, Frame
      <3>4. AllHeld(g) = new /\ FrameOK(g)
        <4>1. Blocks(<<>>) = {}
          BY DEF Blocks
        <4> QED
          BY <3>1, <3>2, <4>1, Zenon DEF AllHeld, Held, FrameOK, Named
      <3> HIDE DEF g, new
      <3>5. MemoryOf(heap \union new, Append(stack, g), {})
        BY <1>1, <2>2, <3>3, <3>4, MemoryPush
      <3>6. /\ Append(stack, g) \in Seq(FrameType)
            /\ Len(Append(stack, g)) = Len(stack) + 1
            /\ Append(stack, g)[Len(stack) + 1] = g
            /\ \A d \in 1 .. Len(stack) : Append(stack, g)[d] = stack[d]
            /\ Append(stack, g) # <<>>
        BY <1>1, <3>3
      <3>7. BasicOK'
        BY <1>1, <1>5, <2>1, <2>3, <3>6, BoundsAssumption
           DEF ParserInv, BasicOK, TooDeep
      <3>8. CallsOK'
        <4>1. \A d \in 1 .. Len(stack) + 1 : FrameOK(Append(stack, g)[d])
          BY <1>1, <1>2, <3>4, <3>6
        <4>2. \A d \in 1 .. Len(stack) : Append(stack, g)[d].at = "value"
          <5>1. \A d \in 1 .. Len(stack) : stack[d].at = "value"
            BY <1>1, <1>2 DEF Top
          <5> QED
            BY <3>6, <5>1
        <4> QED
          BY <1>1, <2>3, <3>6, <4>1, <4>2 DEF CallsOK
      <3>9. Loose' = {}
        BY <2>3 DEF Loose
      <3> QED
        BY <2>3, <3>5, <3>7, <3>8, <3>9 DEF ParserInv
    <2>4. CASE /\ stack' = stack /\ mode' = "return" /\ ret' = NULL
               /\ pos' = pos /\ heap' = heap
      BY <1>1, <1>3, <2>1, <2>4, NullType
    <2> QED
      BY <1>5, <2>3, <2>4 DEF Container, Return
  <1>6. CASE Return(NULL) /\ UNCHANGED <<pos, stack, heap, failures>>
    BY <1>1, <1>3, <1>6, TokenRead, NullType DEF Return
  <1>7. CASE ~TooDeep /\ Token = "lit" /\ Scalar(1)
    BY <1>4, <1>7
  <1>8. CASE ~TooDeep /\ Token \in Strings /\ Scalar(2)
    BY <1>4, <1>8
  <1>9. CASE ~TooDeep /\ Token = "{" /\ Container("object")
    BY <1>5, <1>9, Zenon
  <1>10. CASE ~TooDeep /\ Token = "[" /\ Container("array")
    BY <1>5, <1>10
  <1> QED
    BY <1>6, <1>7, <1>8, <1>9, <1>10, Zenon DEF ParseValue

-----------------------------------------------------------------------------
(* The steps of an object.                                                 *)

LEMMA ObjectEndsStep ==
    ASSUME ParserInv, ObjectEnds
    PROVE  ParserInv'
  <1>1. /\ mode = "run" /\ Top.at \in {"first", "after", "comma"} /\ Token = "}"
        /\ pos' = pos + 1 /\ Finish(Top) /\ UNCHANGED <<text, heap, failures, wild>>
    BY Zenon DEF ObjectEnds
  <1>2. stack # <<>>
    BY <1>1, Zenon DEF ParserInv, CallsOK
  <1>3. ~Named(Top)
    BY <1>1, Zenon DEF Named
  <1>4. pos' \in 1 .. Len(text) + 1
    BY <1>1, TokenRead, Zenon
  <1> QED
    BY <1>1, <1>2, <1>3, <1>4, FinishStep, Zenon

LEMMA ObjectKeyStep ==
    ASSUME ParserInv, ObjectKey
    PROVE  ParserInv'
  <1>1. mode = "run" /\ Top.type = "object" /\ Top.at \in {"first", "comma"} /\ text' = text
    BY Zenon DEF ObjectKey
  <1>2. stack # <<>> /\ Loose = {}
    BY <1>1 DEF ParserInv, CallsOK, Loose
  <1>3. Top \in FrameType /\ FrameOK(Top) /\ Top = stack[Len(stack)]
    BY <1>2, TopOK
  <1>4. Top.keyBlock = {}
    BY <1>1, <1>3 DEF FrameOK, Named
  <1>5. AllHeld(Top) = Held(Top)
    BY <1>4 DEF AllHeld
  <1>6. CASE GiveUp({}) /\ pos' = pos
    BY <1>1, <1>2, <1>5, <1>6, GiveUpStep, TokenRead
  <1>7. CASE /\ Token \in Keys
             /\ LET new == NewBlocks(1) IN
                /\ heap' = heap \union new
                /\ stack' = [stack EXCEPT ![Len(stack)] =
                               [@ EXCEPT !.key = Token, !.keyBlock = new,
                                         !.at = "colon"]]
             /\ pos' = pos + 1
             /\ UNCHANGED <<mode, ret, failures, wild>>
    <2> DEFINE new == NewBlocks(1)
               g == [Top EXCEPT !.key = Token, !.keyBlock = new, !.at = "colon"]
    <2>1. new \subseteq Int /\ new \intersect heap = {}
      BY FreshBlocks
    <2>2. /\ heap' = heap \union new /\ stack' = [stack EXCEPT ![Len(stack)] = g]
          /\ pos' = pos + 1 /\ mode' = mode /\ ret' = ret /\ wild' = wild
      BY <1>3, <1>7, Zenon
    <2>3. /\ g.type = Top.type /\ g.own = Top.own /\ g.room = Top.room
          /\ g.names = Top.names /\ g.at = "colon" /\ g.key = Token
          /\ g.keyBlock = new /\ g.table = Top.table
      BY <1>3, Zenon DEF FrameType
    <2>4. g \in FrameType
      BY <1>3, <1>7, <2>1, Zenon DEF FrameType
    <2> HIDE DEF g, new
    <2>5. AllHeld(g) = AllHeld(Top) \union new
      BY <1>4, <2>3 DEF AllHeld, Held
    <2>6. /\ wild = FALSE /\ stack \in Seq(FrameType) /\ MemoryOf(heap, stack, {})
      BY <1>2 DEF ParserInv, BasicOK
    <2>7. FrameOK(g)
      <3>1. Top.room \subseteq heap
        BY <1>2, <1>3, <2>6, Popped DEF MemoryOf, AllHeld, Held
      <3> QED
        BY <1>1, <1>3, <1>4, <1>7, <2>1, <2>3, <3>1 DEF FrameOK, Named
    <2>8. MemoryOf((heap \union new) \ {}, [stack EXCEPT ![Len(stack)] = g], {})
      <3>1. AllHeld(g) = ((AllHeld(stack[Len(stack)]) \union {}) \ {}) \union new
        BY <1>3, <2>5
      <3> QED
        BY <1>2, <2>1, <2>4, <2>6, <3>1, MemoryReplace
    <2>9. MemoryOf(heap', stack', {})
      <3>1. (heap \union new) \ {} = heap \union new
        OBVIOUS
      <3> QED
        BY <2>2, <2>8, <3>1
    <2>10. pos' \in 1 .. Len(text) + 1
      BY <1>7, <2>2, TokenRead DEF Strings
    <2>11. /\ mode' = "run" \/ (mode' = "call" /\ g.at = "value")
           /\ wild' = FALSE
      BY <1>1, <2>2, <2>6
    <2>12. stack' = [stack EXCEPT ![Len(stack)] = g] /\ ret' = ret
      BY <2>2
    <2> QED
      BY <1>1, <1>2, <2>4, <2>7, <2>9, <2>10, <2>11, <2>12, GoOnStep
  <1> QED
    BY <1>6, <1>7, Zenon DEF ObjectKey

LEMMA ObjectColonStep ==
    ASSUME ParserInv, ObjectColon
    PROVE  ParserInv'
  <1>1. mode = "run" /\ Top.type = "object" /\ Top.at = "colon" /\ text' = text
    BY DEF ObjectColon
  <1>2. stack # <<>> /\ Loose = {}
    BY <1>1 DEF ParserInv, CallsOK, Loose
  <1>3. Top \in FrameType /\ FrameOK(Top) /\ Top = stack[Len(stack)]
    BY <1>2, TopOK
  <1>4. CASE GiveUp(Top.keyBlock) /\ pos' = pos
    <2>1. Held(Top) \union Top.keyBlock = AllHeld(Top) \union Loose
      BY <1>2 DEF AllHeld
    <2> QED
      BY <1>1, <1>2, <1>4, <2>1, GiveUpStep, TokenRead
  <1>5. CASE /\ Token = ":" /\ pos' = pos + 1 /\ mode' = "call" /\ Goes("value")
             /\ UNCHANGED <<ret, heap, wild>>
    <2> DEFINE g == [Top EXCEPT !.at = "value"]
    <2>1. stack' = [stack EXCEPT ![Len(stack)] = g]
      BY <1>3, <1>5, Zenon DEF Goes
    <2>2. /\ g.type = Top.type /\ g.own = Top.own /\ g.room = Top.room
          /\ g.names = Top.names /\ g.at = "value" /\ g.key = Top.key
          /\ g.keyBlock = Top.keyBlock /\ g.table = Top.table
      BY <1>3, Zenon DEF FrameType
    <2>3. g \in FrameType
      BY <1>3, Zenon DEF FrameType
    <2> HIDE DEF g
    <2>4. AllHeld(g) = AllHeld(Top)
      BY <2>2 DEF AllHeld, Held
    <2>5. FrameOK(g)
      BY <1>1, <1>3, <2>2 DEF FrameOK, Named
    <2>6. /\ wild = FALSE /\ stack \in Seq(FrameType) /\ MemoryOf(heap, stack, {})
      BY <1>2 DEF ParserInv, BasicOK
    <2>7. MemoryOf(heap', stack', {})
      BY <1>2, <1>3, <1>5, <2>1, <2>3, <2>4, <2>6, MemoryKeep
    <2>8. pos' \in 1 .. Len(text) + 1
      BY <1>5, TokenRead
    <2> QED
      BY <1>1, <1>2, <1>5, <2>1, <2>2, <2>3, <2>5, <2>6, <2>7, <2>8, GoOnStep
  <1> QED
    BY <1>4, <1>5 DEF ObjectColon

(***************************************************************************)
(* The value that has come is taken into the top call's table or array,    *)
(* which is as large as it was (new is its old room) or has grown.         *)
(***************************************************************************)
LEMMA TakeValueStep ==
    ASSUME ParserInv, mode = "return", stack # <<>>, NEW g \in FrameType, NEW new,
           \/ new = Top.room
           \/ new \intersect heap = {},
           g.type = Top.type, g.own = Top.own, g.room = new,
           g.names = Top.names \union Top.keyBlock, g.keyBlock = {}, g.at = "after",
           g.table.values = Append(Top.table.values, ret),
           g.type = "object" => TableOK(g.table),
           heap' = (heap \union new) \ (Top.room \ new),
           stack' = [stack EXCEPT ![Len(stack)] = g],
           mode' = "run", ret' = ret, text' = text, pos' = pos,
           wild' = (wild \/ ~((Top.room \ new) \subseteq heap)) \/ wild' = wild
    PROVE  ParserInv'
  <1>1. Top \in FrameType /\ FrameOK(Top) /\ Top = stack[Len(stack)]
    BY TopOK
  <1>2. /\ wild = FALSE /\ stack \in Seq(FrameType) /\ ret \in Value
        /\ MemoryOf(heap, stack, ret.blocks)
    BY DEF ParserInv, BasicOK, Loose
  <1> DEFINE rest == Top.own \union Top.names \union Top.keyBlock
                       \union Blocks(Top.table.values)
             fresh == IF new = Top.room THEN {} ELSE new
             gone == IF new = Top.room THEN {} ELSE Top.room
  <1>3. AllHeld(Top) = rest \union Top.room /\ Top.room \intersect rest = {}
    BY <1>1 DEF AllHeld, Held, FrameOK
  <1>4. AllHeld(g) = rest \union new \union ret.blocks
    <2>1. Top.table.values \in Seq(Value)
      BY <1>1, Zenon DEF FrameType, Table
    <2>2. Blocks(g.table.values) = Blocks(Top.table.values) \union ret.blocks
      BY <1>2, <2>1, BlocksAppend
    <2> QED
      BY <2>2 DEF AllHeld, Held
  <1>5. /\ AllHeld(Top) \subseteq heap /\ ret.blocks \subseteq heap
        /\ AllHeld(Top) \intersect ret.blocks = {}
    BY <1>1, <1>2, Popped DEF MemoryOf
  <1>6. FrameOK(g)
    <2>1. new \intersect (rest \union ret.blocks) = {}
      BY <1>3, <1>5
    <2>2. Blocks(g.table.values) \subseteq AllHeld(g)
      BY DEF AllHeld, Held
    <2>3. new \intersect (Top.own \union Top.names \union Top.keyBlock) = {}
      BY <2>1
    <2>4. Top.table.values \in Seq(Value)
      BY <1>1, Zenon DEF FrameType, Table
    <2>5. Blocks(g.table.values) = Blocks(Top.table.values) \union ret.blocks
      BY <1>2, <2>4, BlocksAppend
    <2>6. new \intersect Blocks(g.table.values) = {}
      BY <2>1, <2>5
    <2> QED
      BY <2>3, <2>6 DEF FrameOK, Named
  <1>7. /\ fresh \intersect heap = {} /\ gone \subseteq AllHeld(Top)
        /\ AllHeld(g) = ((AllHeld(Top) \union ret.blocks) \ gone) \union fresh
        /\ heap' = (heap \union fresh) \ gone
    <2>1. CASE new = Top.room
      BY <1>3, <1>4, <1>5, <2>1
    <2>2. CASE new # Top.room
      <3>1. new \intersect heap = {} /\ fresh = new /\ gone = Top.room
        BY <2>2
      <3>2. Top.room \ new = Top.room
        BY <1>3, <1>5, <3>1
      <3>3. AllHeld(g) = ((AllHeld(Top) \union ret.blocks) \ Top.room) \union new
        BY <1>3, <1>4, <1>5, <3>1
      <3>4. heap' = (heap \union new) \ Top.room
        BY <3>2
      <3> QED
        BY <1>3, <3>1, <3>3, <3>4
    <2> QED
      BY <2>1, <2>2
  <1>8. Top.room \ new \subseteq heap
    BY <1>3, <1>5
  <1>9. wild' = FALSE
    BY <1>2, <1>8
  <1> HIDE DEF rest, fresh, gone
  <1>10. MemoryOf((heap \union fresh) \ gone, [stack EXCEPT ![Len(stack)] = g], {})
    BY <1>1, <1>2, <1>7, MemoryReplace
  <1>11. MemoryOf(heap', stack', {})
    BY <1>7, <1>10
  <1>12. pos' \in 1 .. Len(text) + 1
    BY TokenRead
  <1> QED
    BY <1>6, <1>9, <1>11, <1>12, GoOnStep

LEMMA ObjectAddStep ==
    ASSUME ParserInv, ObjectAdd
    PROVE  ParserInv'
  <1>1. /\ mode = "return" /\ stack # <<>> /\ Top.type = "object"
        /\ text' = text /\ pos' = pos
    BY DEF ObjectAdd
  <1>2. Loose = ret.blocks /\ ret \in Value
    BY <1>1 DEF Loose, ParserInv, BasicOK
  <1>3. Top \in FrameType /\ FrameOK(Top) /\ Top = stack[Len(stack)]
    BY <1>1, TopOK
  <1>4. Top.at = "value"
    BY <1>1 DEF ParserInv, CallsOK
  <1>5. TableOK(Top.table) /\ Top.key \in Keys
    BY <1>1, <1>3, <1>4 DEF FrameOK, Named
  <1>6. CASE ret = NULL /\ GiveUp(Top.keyBlock)
    <2>1. Held(Top) \union Top.keyBlock = AllHeld(Top) \union Loose
      BY <1>2, <1>6, NullType DEF AllHeld
    <2> QED
      BY <1>1, <1>6, <2>1, GiveUpStep, TokenRead
  <1>7. CASE GiveUp(Refused)
    <2>1. Held(Top) \union Refused = AllHeld(Top) \union Loose
      BY <1>2 DEF AllHeld, Refused
    <2> QED
      BY <1>1, <1>7, <2>1, GiveUpStep, TokenRead
  <1>8. CASE /\ ~Found(Top.table, Top.key)
             /\ LET new == IF MustGrow(Top.table) THEN NewBlocks(1) ELSE Top.room
                    old == Top.room \ new
                IN  /\ heap' = (heap \union new) \ old
                    /\ wild' = (wild \/ ~(old \subseteq heap))
                    /\ stack' = [stack EXCEPT ![Len(stack)] =
                           With(@, Added(@.table, @.key, ret), new)]
             /\ mode' = "run"
             /\ UNCHANGED <<ret, failures>>
    <2> DEFINE new == IF MustGrow(Top.table) THEN NewBlocks(1) ELSE Top.room
               o == Added(Top.table, Top.key, ret)
               g == With(Top, o, new)
    <2>1. /\ heap' = (heap \union new) \ (Top.room \ new)
          /\ wild' = (wild \/ ~((Top.room \ new) \subseteq heap))
          /\ stack' = [stack EXCEPT ![Len(stack)] = g]
          /\ mode' = "run" /\ ret' = ret
      BY <1>3, <1>8, Zenon
    <2>2. new \subseteq Int /\ (new = Top.room \/ new \intersect heap = {})
      BY <1>3, FreshBlocks, Zenon DEF FrameType
    <2>3. Absent(Top.table, Top.key)
      BY <1>5, <1>8, MemberFound DEF Absent
    <2>4. TableOK(o) /\ o.values = Append(Top.table.values, ret)
      BY <1>2, <1>5, <2>3, AddedOK
    <2>5. o \in Table
      BY <2>4 DEF TableOK, ShapeOK
    <2> HIDE DEF o, new
    <2>6. /\ g.type = Top.type /\ g.own = Top.own /\ g.room = new
          /\ g.names = Top.names \union Top.keyBlock /\ g.at = "after"
          /\ g.keyBlock = {} /\ g.table = o
      BY <1>3, Zenon DEF FrameType, With
    <2>7. g \in FrameType
      BY <1>3, <2>2, <2>5, Zenon DEF FrameType, With
    <2> HIDE DEF g
    <2> QED
      BY <1>1, <2>1, <2>2, <2>4, <2>6, <2>7, TakeValueStep
  <1> QED
    BY <1>6, <1>7, <1>8 DEF ObjectAdd

-----------------------------------------------------------------------------
(* The steps of an array.                                                  *)

(***************************************************************************)
(* Nothing but where the top call stands changes.                          *)
(***************************************************************************)
LEMMA GoesStep ==
    ASSUME ParserInv, stack # <<>>, mode = "run", NEW at,
           at \in {"value", "comma"}, Goes(at),
           mode' = "run" \/ (mode' = "call" /\ at = "value"),
           Named(Top) \/ (Top.type = "object" => at = "comma"),
           Top.keyBlock = {}, at = "value" => Top.type = "array",
           UNCHANGED <<ret, heap, wild, text>>, pos' \in 1 .. Len(text) + 1
    PROVE  ParserInv'
  <1>1. Top \in FrameType /\ FrameOK(Top) /\ Top = stack[Len(stack)]
    BY TopOK
  <1> DEFINE g == [Top EXCEPT !.at = at]
  <1>2. stack' = [stack EXCEPT ![Len(stack)] = g]
    BY <1>1, Zenon DEF Goes
  <1>3. /\ g.type = Top.type /\ g.own = Top.own /\ g.room = Top.room
        /\ g.names = Top.names /\ g.at = at /\ g.key = Top.key
        /\ g.keyBlock = Top.keyBlock /\ g.table = Top.table
    BY <1>1, Zenon DEF FrameType
  <1>4. g \in FrameType
    BY <1>1, Zenon DEF FrameType
  <1> HIDE DEF g
  <1>5. AllHeld(g) = AllHeld(Top)
    BY <1>3 DEF AllHeld, Held
  <1>6. FrameOK(g)
    BY <1>1, <1>3 DEF FrameOK, Named
  <1>7. wild = FALSE /\ stack \in Seq(FrameType) /\ MemoryOf(heap, stack, {})
    BY DEF ParserInv, BasicOK, Loose
  <1>8. MemoryOf(heap', stack', {})
    BY <1>1, <1>2, <1>4, <1>5, <1>7, MemoryKeep
  <1>9. wild' = FALSE /\ ret' = ret /\ text' = text
    BY <1>7
  <1>10. mode' = "run" \/ (mode' = "call" /\ g.at = "value")
    BY <1>3
  <1> QED
    BY <1>2, <1>4, <1>6, <1>8, <1>9, <1>10, GoOnStep

LEMMA ArrayStartsStep ==
    ASSUME ParserInv, ArrayStarts
    PROVE  ParserInv'
  <1>1. /\ mode = "run" /\ Top.type = "array" /\ Top.at \in {"first", "comma"}
        /\ UNCHANGED <<text, heap, wild>>
    BY DEF ArrayStarts
  <1>2. stack # <<>>
    BY <1>1 DEF ParserInv, CallsOK
  <1>3. ~Named(Top) /\ Top.keyBlock = {}
    BY <1>1, <1>2, TopOK DEF Named, FrameOK
  <1>4. CASE Token = "]" /\ pos' = pos + 1 /\ Finish(Top)
    BY <1>1, <1>2, <1>3, <1>4, FinishStep, TokenRead
  <1>5. CASE mode' = "call" /\ Goes("value") /\ UNCHANGED <<pos, ret>>
    <2>1. pos' \in 1 .. Len(text) + 1
      BY <1>5, TokenRead
    <2> QED
      BY <1>1, <1>2, <1>3, <1>5, <2>1, GoesStep
  <1> QED
    BY <1>4, <1>5 DEF ArrayStarts

LEMMA ArrayAddStep ==
    ASSUME ParserInv, ArrayAdd
    PROVE  ParserInv'
  <1>1. /\ mode = "return" /\ stack # <<>> /\ Top.type = "array"
        /\ text' = text /\ pos' = pos
    BY DEF ArrayAdd
  <1>2. Loose = ret.blocks /\ ret \in Value
    BY <1>1 DEF Loose, ParserInv, BasicOK
  <1>3. Top \in FrameType /\ FrameOK(Top) /\ Top = stack[Len(stack)]
    BY <1>1, TopOK
  <1>4. Top.keyBlock = {}
    BY <1>1, <1>3 DEF FrameOK, Named
  <1>5. AllHeld(Top) = Held(Top)
    BY <1>4 DEF AllHeld
  <1>6. CASE ret = NULL /\ GiveUp({})
    <2>1. Held(Top) \union {} = AllHeld(Top) \union Loose
      BY <1>2, <1>5, <1>6, NullType
    <2> QED
      BY <1>1, <1>6, <2>1, GiveUpStep, TokenRead
  <1>7. CASE GiveUp(ret.blocks)
    <2>1. Held(Top) \union ret.blocks = AllHeld(Top) \union Loose
      BY <1>2, <1>5
    <2> QED
      BY <1>1, <1>7, <2>1, GiveUpStep, TokenRead
  <1> DEFINE full == Len(Top.table.values) >= Top.table.capacity
             new == IF full THEN NewBlocks(1) ELSE Top.room
             room == IF full THEN Larger(Top.table) ELSE Top.table.capacity
  <1>8. CASE /\ heap' = (heap \union new) \ (Top.room \ new)
             /\ stack' = [stack EXCEPT ![Len(stack)] =
                    [Top EXCEPT !.at = "after", !.room = new,
                                !.table.values = Append(@, ret),
                                !.table.capacity = IF full THEN Larger(Top.table)
                                                           ELSE @]]
             /\ mode' = "run"
             /\ UNCHANGED <<ret, failures, wild>>
    <2> DEFINE o == [Top.table EXCEPT !.values = Append(@, ret), !.capacity = room]
               g == [Top EXCEPT !.at = "after", !.room = new, !.table = o]
    <2>1. new \subseteq Int /\ (new = Top.room \/ new \intersect heap = {})
      BY <1>3, FreshBlocks, Zenon DEF FrameType
    <2>2. Top.table \in Table
      BY <1>3, Zenon DEF FrameType
    <2>3. room \in Nat
      BY <2>2, CapacityAssumption DEF Table, Larger
    <2>4. stack' = [stack EXCEPT ![Len(stack)] = g]
      BY <1>8
    <2> HIDE DEF room
    <2>5. Append(Top.table.values, ret) \in Seq(Value)
      BY <1>2, <2>2 DEF Table
    <2>6. o \in Table /\ o.values = Append(Top.table.values, ret)
      BY <2>2, <2>3, <2>5 DEF Table
    <2> HIDE DEF o, new
    <2>7. g \in FrameType
      BY <1>3, <2>1, <2>6, Zenon DEF FrameType
    <2>8. /\ g.type = Top.type /\ g.own = Top.own /\ g.room = new
          /\ g.names = Top.names \union Top.keyBlock /\ g.at = "after"
          /\ g.keyBlock = {} /\ g.table = o
      BY <1>3, <1>4, Zenon DEF FrameType
    <2>9. g.type # "object" /\ g.table.values = Append(Top.table.values, ret)
      BY <1>1, <2>6, <2>8
    <2>10. heap' = (heap \union new) \ (Top.room \ new) /\ mode' = "run" /\ ret' = ret
      BY <1>8 DEF new
    <2>11. wild' = wild
      BY <1>8
    <2> HIDE DEF g
    <2> QED
      BY <1>1, <2>1, <2>4, <2>7, <2>8, <2>9, <2>10, <2>11, TakeValueStep
  <1> QED
    BY <1>6, <1>7, <1>8, Zenon DEF ArrayAdd

LEMMA ArrayEndsStep ==
    ASSUME ParserInv, ArrayEnds
    PROVE  ParserInv'
  <1>1. /\ mode = "run" /\ Top.type = "array" /\ Top.at \in {"after", "comma"}
        /\ Token = "]" /\ text' = text
    BY DEF ArrayEnds
  <1>2. stack # <<>> /\ Loose = {}
    BY <1>1 DEF ParserInv, CallsOK, Loose
  <1>3. Top \in FrameType /\ FrameOK(Top) /\ Top = stack[Len(stack)]
    BY <1>2, TopOK
  <1>4. Top.keyBlock = {}
    BY <1>1, <1>3 DEF FrameOK, Named
  <1>5. AllHeld(Top) = Held(Top)
    BY <1>4 DEF AllHeld
  <1>6. CASE GiveUp({}) /\ pos' = pos
    BY <1>1, <1>2, <1>5, <1>6, GiveUpStep, TokenRead
  <1> DEFINE new == NewBlocks(1)
             g == [Top EXCEPT !.room = new]
  <1>7. CASE /\ pos' = pos + 1 /\ heap' = (heap \union new) \ Top.room
             /\ Finish(g) /\ UNCHANGED <<failures, wild>>
    <2>1. new \subseteq Int /\ new \intersect heap = {}
      BY FreshBlocks
    <2>2. /\ g.type = Top.type /\ g.own = Top.own /\ g.room = new
          /\ g.names = Top.names /\ g.keyBlock = Top.keyBlock /\ g.table = Top.table
      BY <1>3, Zenon DEF FrameType
    <2>3. g \in FrameType
      BY <1>3, <2>1, Zenon DEF FrameType
    <2> HIDE DEF g, new
    <2>4. stack \in Seq(FrameType) /\ MemoryOf(heap, stack, {}) /\ wild = FALSE
      BY <1>2 DEF ParserInv, BasicOK
    <2>5. AllHeld(Top) \subseteq heap
      BY <1>2, <1>3, <2>4, Popped DEF MemoryOf
    <2>6. Top.room \subseteq AllHeld(Top)
      BY DEF AllHeld, Held
    <2>7. AllHeld(g) = ((AllHeld(Top) \union {}) \ Top.room) \union new
      <3>1. AllHeld(g) = (Top.own \union Top.names \union Top.keyBlock
                            \union Blocks(Top.table.values)) \union new
        BY <2>2 DEF AllHeld, Held
      <3>2. Top.room \intersect (Top.own \union Top.names \union Top.keyBlock
                                   \union Blocks(Top.table.values)) = {}
        BY <1>3 DEF FrameOK
      <3>3. AllHeld(Top) = (Top.own \union Top.names \union Top.keyBlock
                              \union Blocks(Top.table.values)) \union Top.room
        BY DEF AllHeld, Held
      <3> QED
        BY <3>1, <3>2, <3>3
    <2> DEFINE s == [stack EXCEPT ![Len(stack)] = g]
    <2>8. MemoryOf((heap \union new) \ Top.room, s, {})
      BY <1>2, <1>3, <2>1, <2>3, <2>4, <2>6, <2>7, MemoryReplace
    <2>9. /\ s \in Seq(FrameType) /\ s # <<>> /\ Len(s) = Len(stack)
          /\ s[Len(stack)] = g /\ SubSeq(s, 1, Len(stack) - 1) = Others
      BY <1>2, <2>3, <2>4, Replaced DEF Others
    <2> HIDE DEF s
    <2>10. MemoryOf(heap', SubSeq(s, 1, Len(s) - 1), AllHeld(s[Len(s)]) \union {})
      BY <1>7, <2>8, <2>9, MemoryPop
    <2>11. AllHeld(s[Len(s)]) \union {} = Held(g)
      BY <1>4, <2>2, <2>9 DEF AllHeld
    <2>12. MemoryOf(heap', Others, Held(g))
      BY <2>9, <2>10, <2>11, Zenon
    <2>13. /\ stack' = Others /\ mode' = "return"
           /\ ret' = [type |-> g.type, blocks |-> Held(g)]
      BY <1>7 DEF Finish, Return
    <2>14. ret' \in Value /\ ret'.blocks = Held(g)
      <3>1. Held(g) \in SUBSET Int
        BY <2>3, HeldType
      <3>2. g.type \in {"object", "array"}
        BY <2>3, Zenon DEF FrameType
      <3> QED
        BY <2>13, <3>1, <3>2 DEF Value
    <2>15. pos' \in 1 .. Len(text) + 1
      BY <1>1, <1>7, TokenRead
    <2>16. wild' = FALSE
      BY <1>7, <2>4
    <2> QED
      BY <1>1, <1>2, <2>12, <2>13, <2>14, <2>15, <2>16, ReturnStep
  <1> QED
    BY <1>6, <1>7, Zenon DEF ArrayEnds

-----------------------------------------------------------------------------
(* The steps of both, and of the root.                                     *)

LEMMA AfterStep ==
    ASSUME ParserInv, After
    PROVE  ParserInv'
  <1>1. mode = "run" /\ Top.at = "after" /\ text' = text
    BY Zenon DEF After
  <1>2. stack # <<>> /\ Loose = {}
    BY <1>1 DEF ParserInv, CallsOK, Loose
  <1>3. Top.keyBlock = {}
    BY <1>1, <1>2, TopOK DEF FrameOK, Named
  <1>4. CASE GiveUp({}) /\ pos' = pos
    <2>1. Held(Top) \union {} = AllHeld(Top) \union Loose
      BY <1>2, <1>3 DEF AllHeld
    <2> QED
      BY <1>1, <1>2, <1>4, <2>1, GiveUpStep, TokenRead
  <1>5. CASE /\ Token = "," /\ pos' = pos + 1 /\ Goes("comma")
             /\ UNCHANGED <<mode, ret, heap, wild>>
    <2>1. pos' \in 1 .. Len(text) + 1
      BY <1>5, TokenRead, Zenon
    <2>2. mode' = "run"
      BY <1>1, <1>5, Zenon
    <2> QED
      BY <1>1, <1>2, <1>3, <1>5, <2>1, <2>2, GoesStep, Zenon
  <1> QED
    BY <1>4, <1>5, Zenon DEF After

LEMMA RootSteps ==
    ASSUME ParserInv, Parsed \/ FreeRoot
    PROVE  ParserInv'
  <1>1. CASE Parsed
    <2>1. /\ mode = "return" /\ mode' = "parsed" /\ stack = <<>>
          /\ UNCHANGED <<text, pos, stack, ret, heap, wild>>
      BY <1>1 DEF Parsed
    <2>2. BasicOK'
      BY <2>1 DEF ParserInv, BasicOK
    <2>3. CallsOK'
      BY <2>1 DEF ParserInv, CallsOK
    <2>4. Loose' = Loose
      BY <2>1 DEF Loose
    <2> QED
      BY <2>1, <2>2, <2>3, <2>4 DEF ParserInv
  <1>2. CASE FreeRoot
    <2>1. /\ mode = "parsed" /\ mode' = "done" /\ heap' = heap \ ret.blocks
          /\ wild' = (wild \/ ~(ret.blocks \subseteq heap))
          /\ UNCHANGED <<text, pos, stack, ret>>
      BY <1>2 DEF FreeRoot
    <2>2. stack = <<>> /\ wild = FALSE /\ MemoryOf(heap, <<>>, ret.blocks)
      BY <2>1 DEF ParserInv, CallsOK, BasicOK, Loose
    <2>3. heap = ret.blocks
      <3>1. 1 .. Len(<<>>) = {}
        OBVIOUS
      <3> QED
        BY <2>2, <3>1 DEF MemoryOf
    <2>4. heap' = {} /\ wild' = FALSE
      BY <2>1, <2>2, <2>3
    <2>5. BasicOK'
      BY <2>1, <2>4 DEF ParserInv, BasicOK
    <2>6. CallsOK'
      BY <2>1, <2>2 DEF ParserInv, CallsOK
    <2>7. MemoryOf(heap', stack', Loose')
      BY <2>1, <2>2, <2>4 DEF Loose, MemoryOf
    <2> QED
      BY <2>5, <2>6, <2>7 DEF ParserInv
  <1> QED
    BY <1>1, <1>2

-----------------------------------------------------------------------------
LEMMA ParserInit ==
    ASSUME Init
    PROVE  ParserInv
  <1>1. /\ text \in Texts /\ pos = 1 /\ stack = <<>> /\ mode = "call" /\ ret = NULL
        /\ heap = {} /\ wild = FALSE
    BY DEF Init
  <1>2. text \in Seq(STRING)
    BY <1>1, TextsAssumption
  <1>3. BasicOK
    BY <1>1, <1>2, NullType, BoundsAssumption DEF BasicOK
  <1>4. CallsOK
    BY <1>1 DEF CallsOK
  <1>5. MemoryOf(heap, stack, Loose)
    BY <1>1 DEF MemoryOf, Loose
  <1> QED
    BY <1>3, <1>4, <1>5 DEF ParserInv

LEMMA ParserNext ==
    ASSUME ParserInv, [Next]_vars
    PROVE  ParserInv'
  <1>1. CASE Next
    BY <1>1, ParseValueStep, ObjectKeyStep, ObjectColonStep, ObjectAddStep,
       ObjectEndsStep, ArrayStartsStep, ArrayAddStep, ArrayEndsStep, AfterStep,
       RootSteps DEF Next
  <1>2. CASE UNCHANGED vars
    BY <1>2 DEF vars, ParserInv, BasicOK, CallsOK, Loose, Top
  <1> QED
    BY <1>1, <1>2

LEMMA ParserInvHolds == Spec => []ParserInv
  BY ParserInit, ParserNext, PTL DEF Spec

(***************************************************************************)
(* The table of an object under construction is the map of the members     *)
(* that were added: each of them is found, with its value, and nothing     *)
(* else, whatever the hash function and however the table has grown; and a *)
(* search always ends (json_object_get_cell_ix, json_object_add,           *)
(* json_object_grow_and_rehash).  The stack of calls stays bounded.        *)
(***************************************************************************)
THEOREM TableCorrect == Spec => []TableIsMap
  <1>1. ASSUME ParserInv
        PROVE  TableIsMap
    <2>1. \A d \in 1 .. Len(stack) : stack[d].type = "object" => TableOK(stack[d].table)
      BY <1>1 DEF ParserInv, CallsOK, FrameOK
    <2>2. TypeOK
      BY <1>1, <2>1 DEF ParserInv, BasicOK, TypeOK, TableOK, ShapeOK
    <2> QED
      BY <2>1, <2>2, LookupOK DEF TableIsMap
  <1> QED
    BY <1>1, ParserInvHolds, PTL

(***************************************************************************)
(* Whatever the text and whichever allocations fail, nothing is freed that *)
(* is not allocated, and when json_parse_string and json_value_free have   *)
(* returned nothing is left.                                               *)
(***************************************************************************)
THEOREM NoLeakCorrect == Spec => []NoLeak
  <1>1. ASSUME ParserInv
        PROVE  NoLeak
    <2>1. wild = FALSE
      BY <1>1 DEF ParserInv, BasicOK
    <2>2. ASSUME mode = "done"
          PROVE  heap = {}
      <3>1. stack = <<>> /\ MemoryOf(heap, <<>>, {})
        BY <1>1, <2>2 DEF ParserInv, CallsOK, Loose
      <3> QED
        BY <3>1 DEF MemoryOf
    <2> QED
      BY <2>1, <2>2 DEF NoLeak
  <1> QED
    BY <1>1, ParserInvHolds, PTL

-----------------------------------------------------------------------------
(* The grammar: its rules hold of it.                                      *)

Rule(t, is, p) ==
    IF p.kind = "value"
    THEN MakeValue(t, is, p.from, p.to, p.depth)
    ELSE MakeRest(t, is, p.kind, p.from, p.to, p.depth, p.used)

IsGrammar(t, is) == is = [p \in Phrases(t) |-> Rule(t, is, p)]

Size(t, p) == Len(t) + p.to - p.from

LEMMA PhraseType ==
    ASSUME NEW t, NEW kind \in Kinds,
           NEW i \in 1 .. Len(t), NEW j \in 1 .. Len(t),
           NEW depth \in 0 .. MAX_NESTING + 1, NEW used \in SUBSET Keys
    PROVE  /\ Phrase(kind, i, j, depth, used) \in Phrases(t)
           /\ Size(t, Phrase(kind, i, j, depth, used)) = Len(t) + j - i
           /\ Phrase(kind, i, j, depth, used).kind = kind
           /\ Phrase(kind, i, j, depth, used).from = i
           /\ Phrase(kind, i, j, depth, used).to = j
           /\ Phrase(kind, i, j, depth, used).depth = depth
           /\ Phrase(kind, i, j, depth, used).used = used
  BY DEF Phrase, Phrases, Size

(***************************************************************************)
(* A rule asks about shorter phrases only.                                 *)
(***************************************************************************)
Same(t, f, g, n) == \A q \in Phrases(t) : Size(t, q) < n => f[q] = g[q]

LEMMA ShorterSame ==
    ASSUME NEW t, NEW f, NEW g, NEW n, Same(t, f, g, n),
           NEW kind \in Kinds, NEW i \in 1 .. Len(t), NEW j \in 1 .. Len(t),
           NEW depth \in 0 .. MAX_NESTING + 1, NEW used \in SUBSET Keys,
           Len(t) + j - i < n
    PROVE  f[Phrase(kind, i, j, depth, used)] = g[Phrase(kind, i, j, depth, used)]
  BY PhraseType DEF Same

LEMMA MakeValueLocal ==
    ASSUME NEW t, Len(t) \in Nat, NEW f, NEW g,
           NEW i \in 1 .. Len(t), NEW j \in 1 .. Len(t),
           NEW depth \in 0 .. MAX_NESTING + 1, Same(t, f, g, Len(t) + j - i)
    PROVE  MakeValue(t, f, i, j, depth) <=> MakeValue(t, g, i, j, depth)
  <1>1. ASSUME NEW type \in Containers, i < j, depth <= MAX_NESTING
        PROVE  f[Phrase(type, i + 1, j, depth + 1, {})]
                 = g[Phrase(type, i + 1, j, depth + 1, {})]
    <2>1. i + 1 \in 1 .. Len(t) /\ depth + 1 \in 0 .. MAX_NESTING + 1
      BY <1>1, BoundsAssumption
    <2>2. type \in Kinds /\ {} \in SUBSET Keys
      BY DEF Kinds
    <2>3. Len(t) + j - (i + 1) < Len(t) + j - i
      OBVIOUS
    <2> QED
      BY <2>1, <2>2, <2>3, ShorterSame
  <1> QED
    BY <1>1, Zenon DEF MakeValue

LEMMA MakeMemberLocal ==
    ASSUME NEW t, Len(t) \in Nat, NEW f, NEW g, NEW type \in Containers,
           NEW i \in 1 .. Len(t), NEW j \in 1 .. Len(t), NEW m \in i .. j - 1,
           NEW depth \in 0 .. MAX_NESTING + 1, NEW used,
           Same(t, f, g, Len(t) + j - i)
    PROVE  MakeMember(t, f, type, i, m, depth, used)
             <=> MakeMember(t, g, type, i, m, depth, used)
  <1>1. ASSUME NEW k \in i .. m
        PROVE  f[Phrase("value", k, m, depth, {})] = g[Phrase("value", k, m, depth, {})]
    <2>1. k \in 1 .. Len(t) /\ m \in 1 .. Len(t)
      OBVIOUS
    <2>2. "value" \in Kinds /\ {} \in SUBSET Keys
      BY DEF Kinds
    <2>3. Len(t) + m - k < Len(t) + j - i
      OBVIOUS
    <2> QED
      BY <2>1, <2>2, <2>3, ShorterSame
  <1>2. i \in i .. m /\ (i + 2 <= m => i + 2 \in i .. m)
    OBVIOUS
  <1> QED
    BY <1>1, <1>2, Zenon DEF MakeMember

LEMMA MakeEndLocal ==
    ASSUME NEW t, Len(t) \in Nat, NEW f, NEW g, NEW type \in Containers,
           NEW i \in 1 .. Len(t), NEW j \in 1 .. Len(t), NEW m \in i .. j - 1,
           NEW depth \in 0 .. MAX_NESTING + 1, NEW used \in SUBSET Keys,
           Same(t, f, g, Len(t) + j - i)
    PROVE  MakeEnd(t, f, type, m + 1, j, depth, used)
             <=> MakeEnd(t, g, type, m + 1, j, depth, used)
  <1>1. ASSUME m + 1 < j
        PROVE  f[Phrase(type, (m + 1) + 1, j, depth, used)]
                 = g[Phrase(type, (m + 1) + 1, j, depth, used)]
    <2>1. (m + 1) + 1 \in 1 .. Len(t)
      BY <1>1
    <2>2. type \in Kinds
      BY DEF Kinds
    <2>3. Len(t) + j - ((m + 1) + 1) < Len(t) + j - i
      BY <1>1
    <2> QED
      BY <2>1, <2>2, <2>3, ShorterSame
  <1> QED
    BY <1>1, Zenon DEF MakeEnd

LEMMA MakeRestLocal ==
    ASSUME NEW t, Len(t) \in Nat, NEW f, NEW g, NEW type \in Containers,
           NEW i \in 1 .. Len(t), NEW j \in 1 .. Len(t),
           NEW depth \in 0 .. MAX_NESTING + 1, NEW used \in SUBSET Keys,
           Same(t, f, g, Len(t) + j - i)
    PROVE  MakeRest(t, f, type, i, j, depth, used)
             <=> MakeRest(t, g, type, i, j, depth, used)
  <1>1. ASSUME NEW m \in i .. j - 1
        PROVE  MakeMember(t, f, type, i, m, depth, used)
                 <=> MakeMember(t, g, type, i, m, depth, used)
    BY MakeMemberLocal, Zenon
  <1>2. ASSUME NEW m \in i .. j - 1, MakeMember(t, f, type, i, m, depth, used)
        PROVE  MakeEnd(t, f, type, m + 1, j, depth, UsedWith(type, used, t[i]))
                 <=> MakeEnd(t, g, type, m + 1, j, depth, UsedWith(type, used, t[i]))
    <2>1. UsedWith(type, used, t[i]) \in SUBSET Keys
      BY <1>2 DEF UsedWith, MakeMember, Containers
    <2> QED
      BY <2>1, MakeEndLocal, Zenon
  <1> QED
    BY <1>1, <1>2, Zenon DEF MakeRest

LEMMA RuleLocal ==
    ASSUME NEW t, Len(t) \in Nat, NEW f, NEW g, NEW p \in Phrases(t),
           \A q \in Phrases(t) : Size(t, q) < Size(t, p) => f[q] = g[q]
    PROVE  Rule(t, f, p) = Rule(t, g, p)
  <1>1. /\ p.kind \in Kinds
        /\ p.from \in 1 .. Len(t) /\ p.to \in 1 .. Len(t)
        /\ p.depth \in 0 .. MAX_NESTING + 1 /\ p.used \in SUBSET Keys
    BY Zenon DEF Phrases
  <1>2. Same(t, f, g, Len(t) + p.to - p.from)
    BY Zenon DEF Same, Size
  <1>3. Rule(t, f, p) <=> Rule(t, g, p)
    <2>1. CASE p.kind = "value"
      <3>1. MakeValue(t, f, p.from, p.to, p.depth) <=> MakeValue(t, g, p.from, p.to, p.depth)
        BY <1>1, <1>2, MakeValueLocal, Zenon
      <3> QED
        BY <2>1, <3>1 DEF Rule
    <2>2. CASE p.kind # "value"
      <3>1. p.kind \in Containers
        BY <1>1, <2>2 DEF Kinds
      <3>2. MakeRest(t, f, p.kind, p.from, p.to, p.depth, p.used)
              <=> MakeRest(t, g, p.kind, p.from, p.to, p.depth, p.used)
        BY <1>1, <1>2, <3>1, MakeRestLocal, Zenon
      <3> QED
        BY <2>2, <3>2 DEF Rule
    <2> QED
      BY <2>1, <2>2
  <1>4. Rule(t, f, p) \in BOOLEAN /\ Rule(t, g, p) \in BOOLEAN
    BY DEF Rule, MakeValue, MakeRest
  <1> QED
    BY <1>3, <1>4

(***************************************************************************)
(* The rules can be followed: for phrases of length 0, then of length 1... *)
(***************************************************************************)
Follows(t, f, n) ==
    \A p \in Phrases(t) : Size(t, p) < n => f[p] = Rule(t, f, p)

LEMMA FollowsMore ==
    ASSUME NEW t, Len(t) \in Nat, NEW n \in Nat, NEW f, Follows(t, f, n)
    PROVE  Follows(t, [p \in Phrases(t) |-> Rule(t, f, p)], n + 1)
  <1> DEFINE g == [p \in Phrases(t) |-> Rule(t, f, p)]
  <1>1. \A q \in Phrases(t) : g[q] = Rule(t, f, q)
    BY Zenon
  <1> HIDE DEF g
  <1>2. ASSUME NEW p \in Phrases(t), Size(t, p) < n + 1
        PROVE  g[p] = Rule(t, g, p)
    <2>1. Size(t, p) \in Int
      BY DEF Size, Phrases
    <2>2. ASSUME NEW q \in Phrases(t), Size(t, q) < Size(t, p)
          PROVE  f[q] = g[q]
      <3>1. Size(t, q) \in Int
        BY DEF Size, Phrases
      <3>2. Size(t, q) < n
        BY <1>2, <2>1, <2>2, <3>1
      <3>3. f[q] = Rule(t, f, q)
        BY <3>2, Zenon DEF Follows
      <3> QED
        BY <1>1, <3>3, Zenon
    <2>3. Rule(t, f, p) = Rule(t, g, p)
      BY <2>2, RuleLocal, Zenon
    <2> QED
      BY <1>1, <2>3, Zenon
  <1>3. Follows(t, g, n + 1)
    BY <1>2, Zenon DEF Follows
  <1> QED
    BY <1>3 DEF g

LEMMA GrammarExists ==
    ASSUME NEW t, Len(t) \in Nat
    PROVE  \E f : IsGrammar(t, f)
  <1> DEFINE none == {n \in Nat : ~ \E f : Follows(t, f, n)}
  <1>1. none = {}
    <2>1. SUFFICES ASSUME none # {} PROVE FALSE
      OBVIOUS
    <2>2. PICK n \in none : \A k \in none : n <= k
      BY <2>1, LeastOf
    <2>3. n # 0
      <3>1. \A p \in Phrases(t) : ~ (Size(t, p) < 0)
        BY DEF Phrases, Size
      <3> QED
        BY <3>1, <2>2, Zenon DEF Follows
    <2>4. n - 1 \in Nat /\ n - 1 \notin none /\ (n - 1) + 1 = n
      BY <2>2, <2>3
    <2>5. PICK f : Follows(t, f, n - 1)
      BY <2>4
    <2>6. Follows(t, [p \in Phrases(t) |-> Rule(t, f, p)], n)
      BY <2>4, <2>5, FollowsMore
    <2> QED
      BY <2>2, <2>6
  <1>2. PICK f : Follows(t, f, 2 * Len(t))
    BY <1>1
  <1> DEFINE g == [p \in Phrases(t) |-> Rule(t, f, p)]
  <1>3. ASSUME NEW p \in Phrases(t)
        PROVE  Rule(t, f, p) = Rule(t, g, p)
    <2>1. ASSUME NEW q \in Phrases(t)
          PROVE  f[q] = g[q]
      <3>1. Size(t, q) < 2 * Len(t)
        BY DEF Phrases, Size
      <3> QED
        BY <1>2, <3>1, Zenon DEF Follows
    <2> HIDE DEF g
    <2> QED
      BY <2>1, RuleLocal, Zenon
  <1>4. g = [p \in Phrases(t) |-> Rule(t, g, p)]
    <2> HIDE DEF g
    <2>1. \A p \in Phrases(t) : Rule(t, f, p) = Rule(t, g, p)
      BY <1>3
    <2>2. [p \in Phrases(t) |-> Rule(t, f, p)] = [p \in Phrases(t) |-> Rule(t, g, p)]
      BY <2>1, Zenon
    <2> QED
      BY <2>2, Zenon DEF g
  <1>5. IsGrammar(t, g)
    BY <1>4, Zenon DEF IsGrammar
  <1> QED
    BY <1>5, Zenon

LEMMA GrammarRules ==
    ASSUME NEW t, Len(t) \in Nat, NEW p \in Phrases(t)
    PROVE  Grammar(t)[p] = Rule(t, Grammar(t), p)
  <1>1. Grammar(t) = CHOOSE f : IsGrammar(t, f)
    BY Zenon DEF Grammar, IsGrammar, Rule
  <1>2. IsGrammar(t, Grammar(t))
    BY <1>1, GrammarExists, Zenon
  <1>3. Grammar(t) = [q \in Phrases(t) |-> Rule(t, Grammar(t), q)]
    BY <1>2, Zenon DEF IsGrammar
  <1> HIDE DEF Grammar
  <1> QED
    BY <1>3, Zenon

-----------------------------------------------------------------------------
(* What the next token says of a phrase.                                   *)

IsMember(t, type, i, j, depth, used) ==
    MakeMember(t, Grammar(t), type, i, j, depth, used)
IsEnd(t, type, i, j, depth, used) == MakeEnd(t, Grammar(t), type, i, j, depth, used)
IsRest(t, type, i, j, depth, used) == Grammar(t)[Phrase(type, i, j, depth, used)]

LEMMA ValueRule ==
    ASSUME NEW t, Len(t) \in Nat, NEW i \in 1 .. Len(t), NEW j \in 1 .. Len(t),
           NEW depth \in 0 .. MAX_NESTING + 1
    PROVE  IsValue(t, i, j, depth) <=> MakeValue(t, Grammar(t), i, j, depth)
  <1> DEFINE p == Phrase("value", i, j, depth, {})
  <1>1. "value" \in Kinds /\ {} \in SUBSET Keys
    BY DEF Kinds
  <1>2. /\ p \in Phrases(t) /\ p.kind = "value" /\ p.from = i /\ p.to = j
        /\ p.depth = depth
    BY <1>1, PhraseType
  <1> HIDE DEF p
  <1>3. Rule(t, Grammar(t), p) <=> MakeValue(t, Grammar(t), i, j, depth)
    BY <1>2 DEF Rule
  <1>4. Grammar(t)[p] = Rule(t, Grammar(t), p)
    BY <1>2, GrammarRules
  <1> QED
    BY <1>3, <1>4 DEF IsValue, p

LEMMA RestRule ==
    ASSUME NEW t, Len(t) \in Nat, NEW type \in Containers,
           NEW i \in 1 .. Len(t), NEW j \in 1 .. Len(t),
           NEW depth \in 0 .. MAX_NESTING + 1, NEW used \in SUBSET Keys
    PROVE  IsRest(t, type, i, j, depth, used)
             <=> \/ i = j /\ t[i] = Close(type)
                 \/ \E m \in i .. j - 1 :
                      /\ IsMember(t, type, i, m, depth, used)
                      /\ IsEnd(t, type, m + 1, j, depth, UsedWith(type, used, t[i]))
  <1> DEFINE p == Phrase(type, i, j, depth, used)
  <1>1. type \in Kinds /\ type # "value"
    BY DEF Kinds, Containers
  <1>2. /\ p \in Phrases(t) /\ p.kind = type /\ p.from = i /\ p.to = j
        /\ p.depth = depth /\ p.used = used
    BY <1>1, PhraseType
  <1> HIDE DEF p
  <1>3. Rule(t, Grammar(t), p) <=> MakeRest(t, Grammar(t), type, i, j, depth, used)
    BY <1>1, <1>2 DEF Rule
  <1>4. Grammar(t)[p] = Rule(t, Grammar(t), p)
    BY <1>2, GrammarRules
  <1>5. IsRest(t, type, i, j, depth, used)
          <=> MakeRest(t, Grammar(t), type, i, j, depth, used)
    BY <1>3, <1>4 DEF IsRest, p
  <1> QED
    BY <1>5, Zenon DEF MakeRest, IsMember, IsEnd

(***************************************************************************)
(* The tokens with which a value starts.                                   *)
(***************************************************************************)
Starters == Strings \union {"lit", "{", "["}

(***************************************************************************)
(* No two kinds of token are the same.                                     *)
(***************************************************************************)
LEMMA Tokens ==
    /\ \A type \in Containers : /\ Open(type) \notin Strings \union {"lit"}
                                /\ Close(type) \notin Strings \union {"lit", ","}
                                /\ Close(type) # Open("object")
                                /\ Close(type) # Open("array")
    /\ Open("object") # Open("array")
    /\ "end" \notin Strings \union {"lit", "{", "[", "}", "]", ":", ","}
    /\ "lit" \notin Keys /\ "," \notin Keys /\ ":" \notin Keys
  BY KeysAssumption, Zenon DEF Containers, Open, Close, Strings

LEMMA ScalarValue ==
    ASSUME NEW t, Len(t) \in Nat, NEW i \in 1 .. Len(t), NEW j \in 1 .. Len(t),
           NEW depth \in 0 .. MAX_NESTING, t[i] \in Strings \union {"lit"}
    PROVE  IsValue(t, i, j, depth) <=> i = j
  <1>1. depth \in 0 .. MAX_NESTING + 1 /\ depth <= MAX_NESTING
    BY BoundsAssumption
  <1>2. \A type \in Containers : t[i] # Open(type)
    BY Tokens, Zenon
  <1> QED
    BY <1>1, <1>2, ValueRule DEF MakeValue

LEMMA ContainerValue ==
    ASSUME NEW t, Len(t) \in Nat, NEW i \in 1 .. Len(t), NEW j \in 1 .. Len(t),
           NEW depth \in 0 .. MAX_NESTING, NEW type \in Containers, t[i] = Open(type)
    PROVE  IsValue(t, i, j, depth) <=> i < j /\ IsRest(t, type, i + 1, j, depth + 1, {})
  <1>1. depth \in 0 .. MAX_NESTING + 1 /\ depth <= MAX_NESTING
    BY BoundsAssumption
  <1>2. t[i] \notin Strings \union {"lit"}
    BY Tokens, Zenon
  <1>3. \A other \in Containers : t[i] = Open(other) => other = type
    BY Zenon DEF Open, Containers
  <1>4. IsValue(t, i, j, depth) <=> MakeValue(t, Grammar(t), i, j, depth)
    BY <1>1, ValueRule
  <1> QED
    BY <1>1, <1>2, <1>3, <1>4, Zenon DEF MakeValue, IsRest

LEMMA NoValue ==
    ASSUME NEW t, Len(t) \in Nat, NEW i \in 1 .. Len(t), NEW j \in 1 .. Len(t),
           NEW depth \in 0 .. MAX_NESTING + 1,
           depth > MAX_NESTING \/ t[i] \notin Starters
    PROVE  ~IsValue(t, i, j, depth)
  <1>1. /\ \A type \in Containers : Open(type) \in Starters
        /\ Strings \union {"lit"} \subseteq Starters
    BY Zenon DEF Open, Containers, Starters
  <1>2. ~(depth <= MAX_NESTING) \/ t[i] \notin Starters
    BY BoundsAssumption
  <1>3. IsValue(t, i, j, depth) <=> MakeValue(t, Grammar(t), i, j, depth)
    BY ValueRule
  <1> QED
    BY <1>1, <1>2, <1>3, Zenon DEF MakeValue

LEMMA ClosedRest ==
    ASSUME NEW t, Len(t) \in Nat, NEW type \in Containers,
           NEW i \in 1 .. Len(t), NEW j \in 1 .. Len(t),
           NEW depth \in 0 .. MAX_NESTING + 1, NEW used \in SUBSET Keys,
           t[i] = Close(type)
    PROVE  IsRest(t, type, i, j, depth, used) <=> i = j
  <1>1. ASSUME NEW m \in i .. j - 1
        PROVE  ~IsMember(t, type, i, m, depth, used)
    <2>1. t[i] \notin Starters
      BY Tokens, Zenon DEF Open, Starters
    <2>2. m \in 1 .. Len(t)
      OBVIOUS
    <2>3. ~IsValue(t, i, m, depth)
      BY <2>1, <2>2, NoValue
    <2>4. t[i] \notin Keys
      BY <2>1, Zenon DEF Starters, Strings
    <2> QED
      BY <2>3, <2>4, Zenon DEF IsMember, MakeMember, IsValue
  <1> QED
    BY <1>1, RestRule, Zenon

LEMMA OpenRest ==
    ASSUME NEW t, Len(t) \in Nat, NEW type \in Containers,
           NEW i \in 1 .. Len(t), NEW j \in 1 .. Len(t),
           NEW depth \in 0 .. MAX_NESTING + 1, NEW used \in SUBSET Keys,
           t[i] # Close(type)
    PROVE  IsRest(t, type, i, j, depth, used)
             <=> \E m \in i .. j - 1 :
                   /\ IsMember(t, type, i, m, depth, used)
                   /\ IsEnd(t, type, m + 1, j, depth, UsedWith(type, used, t[i]))
  BY RestRule, Zenon

LEMMA ClosedEnd ==
    ASSUME NEW t, NEW type \in Containers, NEW i, NEW j, NEW depth, NEW used,
           t[i] = Close(type)
    PROVE  IsEnd(t, type, i, j, depth, used) <=> i = j
  <1>1. Close(type) # ","
    BY Tokens, Zenon
  <1> QED
    BY <1>1, Zenon DEF IsEnd, MakeEnd

-----------------------------------------------------------------------------
(* What the calls under way still ask of the text.                         *)

(***************************************************************************)
(* The names of the members that a call has.                               *)
(***************************************************************************)
Used(f) ==
    IF f.type = "object" THEN {f.table.names[n] : n \in 1 .. Count(f.table)} ELSE {}

(***************************************************************************)
(* Call f, the depth-th, waits for a value.  With one that ends at m its   *)
(* own value can end at j.                                                 *)
(***************************************************************************)
EndsAfter(t, f, depth, m, j) ==
    /\ f.type = "object" => f.key \notin Used(f)
    /\ IsEnd(t, f.type, m + 1, j, depth, UsedWith(f.type, Used(f), f.key))

(***************************************************************************)
(* Where the value of a call that goes on at i can end.                    *)
(***************************************************************************)
Ends(t, f, depth, i) ==
    {j \in i .. Len(t) :
       \/ f.at \in {"first", "comma"} /\ IsRest(t, f.type, i, j, depth, Used(f))
       \/ f.at = "after" /\ IsEnd(t, f.type, i, j, depth, Used(f))
       \/ /\ f.at = "colon" /\ t[i] = ":"
          /\ \E m \in i + 1 .. j - 1 :
               IsValue(t, i + 1, m, depth) /\ EndsAfter(t, f, depth, m, j)}

(***************************************************************************)
(* The first n calls of s can end, each at the place that the call around  *)
(* it goes on from, when the value that the n-th waits for ends in C.      *)
(***************************************************************************)
CanEnd(t, s, n, C) ==
    \E e \in [1 .. n + 1 -> 1 .. Len(t)] :
      /\ \A d \in 1 .. n : EndsAfter(t, s[d], d, e[d + 1], e[d])
      /\ e[n + 1] \in C

LEMMA SameCalls ==
    ASSUME NEW t, NEW s, NEW r, NEW n, \A d \in 1 .. n : s[d] = r[d], NEW C
    PROVE  CanEnd(t, s, n, C) <=> CanEnd(t, r, n, C)
  BY Zenon DEF CanEnd

LEMMA RootEnds ==
    ASSUME NEW t, NEW s, NEW C, C \subseteq 1 .. Len(t)
    PROVE  CanEnd(t, s, 0, C) <=> C # {}
  <1>1. ASSUME NEW j \in C
        PROVE  CanEnd(t, s, 0, C)
    <2> DEFINE e == [d \in 1 .. 0 + 1 |-> j]
    <2>1. e \in [1 .. 0 + 1 -> 1 .. Len(t)] /\ e[0 + 1] = j
      OBVIOUS
    <2>2. 1 .. 0 = {}
      OBVIOUS
    <2> HIDE DEF e
    <2> QED
      BY <2>1, <2>2, Zenon DEF CanEnd
  <1>2. ASSUME CanEnd(t, s, 0, C)
        PROVE  C # {}
    BY <1>2, Zenon DEF CanEnd
  <1> QED
    BY <1>1, <1>2

LEMMA OneMoreCall ==
    ASSUME NEW t, NEW s, NEW n \in Nat, NEW C, C \subseteq 1 .. Len(t)
    PROVE  CanEnd(t, s, n + 1, C)
             <=> CanEnd(t, s, n, {j \in 1 .. Len(t) :
                                    \E m \in C : EndsAfter(t, s[n + 1], n + 1, m, j)})
  <1> DEFINE D == {j \in 1 .. Len(t) : \E m \in C : EndsAfter(t, s[n + 1], n + 1, m, j)}
  <1>1. ASSUME CanEnd(t, s, n + 1, C)
        PROVE  CanEnd(t, s, n, D)
    <2>1. PICK e \in [1 .. (n + 1) + 1 -> 1 .. Len(t)] :
                 /\ \A d \in 1 .. n + 1 : EndsAfter(t, s[d], d, e[d + 1], e[d])
                 /\ e[(n + 1) + 1] \in C
      BY <1>1, Zenon DEF CanEnd
    <2> DEFINE f == [d \in 1 .. n + 1 |-> e[d]]
    <2>2. f \in [1 .. n + 1 -> 1 .. Len(t)]
      <3>1. \A d \in 1 .. n + 1 : d \in 1 .. (n + 1) + 1
        OBVIOUS
      <3> QED
        BY <3>1
    <2>3. ASSUME NEW d \in 1 .. n
          PROVE  f[d + 1] = e[d + 1] /\ f[d] = e[d] /\ d \in 1 .. n + 1
      OBVIOUS
    <2>4. \A d \in 1 .. n : EndsAfter(t, s[d], d, f[d + 1], f[d])
      <3> HIDE DEF f
      <3> QED
        BY <2>1, <2>3, Zenon
    <2>5. f[n + 1] \in D
      <3>1. n + 1 \in 1 .. n + 1 /\ f[n + 1] = e[n + 1] /\ e[n + 1] \in 1 .. Len(t)
        BY <2>2
      <3>2. EndsAfter(t, s[n + 1], n + 1, e[(n + 1) + 1], e[n + 1])
        BY <2>1, <3>1, Zenon
      <3> QED
        BY <2>1, <3>1, <3>2, Zenon
    <2> HIDE DEF f, D
    <2> QED
      BY <2>2, <2>4, <2>5, Zenon DEF CanEnd
  <1>2. ASSUME CanEnd(t, s, n, D)
        PROVE  CanEnd(t, s, n + 1, C)
    <2>1. PICK f \in [1 .. n + 1 -> 1 .. Len(t)] :
                 /\ \A d \in 1 .. n : EndsAfter(t, s[d], d, f[d + 1], f[d])
                 /\ f[n + 1] \in D
      BY <1>2, Zenon DEF CanEnd
    <2>2. PICK m \in C : EndsAfter(t, s[n + 1], n + 1, m, f[n + 1])
      BY <2>1, Zenon
    <2> DEFINE e == [d \in 1 .. (n + 1) + 1 |-> IF d = n + 2 THEN m ELSE f[d]]
    <2>3. \A d \in 1 .. n + 1 : e[d] = f[d] /\ d # n + 2
      OBVIOUS
    <2>4. e[(n + 1) + 1] = m /\ m \in 1 .. Len(t)
      OBVIOUS
    <2>5. e \in [1 .. (n + 1) + 1 -> 1 .. Len(t)]
      <3>1. \A d \in 1 .. (n + 1) + 1 : d = n + 2 \/ d \in 1 .. n + 1
        OBVIOUS
      <3>2. \A d \in 1 .. (n + 1) + 1 : (IF d = n + 2 THEN m ELSE f[d]) \in 1 .. Len(t)
        BY <3>1, <2>4, <2>1
      <3> QED
        BY <3>2
    <2> HIDE DEF e
    <2>6. ASSUME NEW d \in 1 .. n + 1
          PROVE  EndsAfter(t, s[d], d, e[d + 1], e[d])
      <3>1. CASE d = n + 1
        BY <2>2, <2>3, <2>4, <3>1
      <3>2. CASE d # n + 1
        <4>1. d \in 1 .. n /\ d + 1 \in 1 .. n + 1
          BY <3>2
        <4>2. e[d + 1] = f[d + 1] /\ e[d] = f[d]
          BY <2>3, <4>1
        <4> QED
          BY <2>1, <4>1, <4>2, Zenon
      <3> QED
        BY <3>1, <3>2
    <2> QED
      BY <2>4, <2>5, <2>6, Zenon DEF CanEnd
  <1> QED
    BY <1>1, <1>2, Zenon

-----------------------------------------------------------------------------
(* Memory is never used up: malloc returns blocks unless it fails.         *)

LEMMA SomeBlock ==
    ASSUME IsFiniteSet(heap), NEW n \in Nat, n > 0
    PROVE  NewBlocks(n) # {}
  <1> DEFINE c == Cardinality(heap) + n
             unused == (1 .. c) \ heap
  <1>1. Cardinality(heap) \in Nat
    BY FS_CardinalityType, Zenon
  <1>2. c \in Nat /\ Cardinality(heap) < c
    BY <1>1
  <1> HIDE DEF c
  <1>3. IsFiniteSet(1 .. c) /\ Cardinality(1 .. c) = c
    <2>1. Cardinality(1 .. c) = IF 1 > c THEN 0 ELSE c - 1 + 1
      BY <1>2, FS_Interval
    <2> QED
      BY <1>1, <1>2, <2>1, FS_Interval
  <1>4. unused # {}
    <2>1. SUFFICES ASSUME unused = {} PROVE FALSE
      OBVIOUS
    <2>2. 1 .. c \in SUBSET heap
      BY <2>1
    <2>3. Cardinality(1 .. c) <= Cardinality(heap)
      BY <2>2, FS_Subset, Zenon
    <2> QED
      BY <1>1, <1>2, <1>3, <2>3
  <1>5. unused \subseteq Nat
    BY <1>2
  <1> HIDE DEF unused
  <1>6. PICK b \in unused : \A a \in unused : b <= a
    BY <1>4, <1>5, LeastOf
  <1>7. {a \in unused : a < b} = {}
    <2>1. \A a \in unused : a \in Nat /\ b \in Nat /\ b <= a
      BY <1>5, <1>6
    <2>2. \A a \in unused : ~ (a < b)
      BY <2>1
    <2> QED
      BY <2>2, Zenon
  <1>8. Cardinality({a \in unused : a < b}) < n
    BY <1>7, FS_EmptySet
  <1> QED
    BY <1>8 DEF NewBlocks, c, unused

LEMMA HeapStaysFinite ==
    ASSUME ParserInv, IsFiniteSet(heap), [Next]_vars
    PROVE  IsFiniteSet(heap')
  <1>1. ASSUME NEW n \in Nat
        PROVE  IsFiniteSet(NewBlocks(n))
    <2> DEFINE c == Cardinality(heap) + n
    <2>1. c \in Int
      BY FS_CardinalityType
    <2>2. NewBlocks(n) \in SUBSET (1 .. c)
      BY DEF NewBlocks
    <2> HIDE DEF c
    <2>3. IsFiniteSet(1 .. c)
      BY <2>1, FS_Interval
    <2> QED
      BY <2>2, <2>3, FS_Subset, Zenon
  <1> DEFINE more == (heap \union NewBlocks(1)) \union NewBlocks(2)
  <1>2. IsFiniteSet(more)
    BY <1>1, FS_Union
  <1>4. stack # <<>> => Top.room \subseteq heap
    BY TopOK DEF ParserInv, MemoryOf, AllHeld, Held
  <1>3. heap' \subseteq more
    <2>1. CASE ParseValue
      BY <2>1, Zenon DEF ParseValue, Scalar, Container
    <2>2. CASE ObjectKey
      BY <2>2, Zenon DEF ObjectKey, GiveUp
    <2>3. CASE ObjectColon
      BY <2>3, Zenon DEF ObjectColon, GiveUp
    <2>4. CASE ObjectAdd
      <3>1. Top.room \subseteq heap
        BY <1>4, <2>4, Zenon DEF ObjectAdd
      <3> DEFINE new == IF MustGrow(Top.table) THEN NewBlocks(1) ELSE Top.room
      <3>2. new = NewBlocks(1) \/ new = Top.room
        BY Zenon
      <3>3. (\E old : heap' = (heap \union new) \ old) \/ (\E b : heap' = heap \ b)
        BY <2>4, Zenon DEF ObjectAdd, GiveUp
      <3> HIDE DEF new
      <3> QED
        BY <3>1, <3>2, <3>3
    <2>5. CASE ObjectEnds \/ Parsed \/ UNCHANGED vars
      BY <2>5, Zenon DEF ObjectEnds, Parsed, vars
    <2>6. CASE ArrayStarts
      BY <2>6, Zenon DEF ArrayStarts
    <2>7. CASE ArrayAdd
      <3>1. Top.room \subseteq heap
        BY <1>4, <2>7, Zenon DEF ArrayAdd
      <3> DEFINE new == IF Len(Top.table.values) >= Top.table.capacity
                        THEN NewBlocks(1) ELSE Top.room
      <3>2. new = NewBlocks(1) \/ new = Top.room
        BY Zenon
      <3>3. (\E old : heap' = (heap \union new) \ old) \/ (\E b : heap' = heap \ b)
        BY <2>7, Zenon DEF ArrayAdd, GiveUp
      <3> HIDE DEF new
      <3> QED
        BY <3>1, <3>2, <3>3
    <2>8. CASE ArrayEnds
      BY <2>8, Zenon DEF ArrayEnds, GiveUp
    <2>9. CASE After
      BY <2>9, Zenon DEF After, GiveUp
    <2>10. CASE FreeRoot
      BY <2>10, Zenon DEF FreeRoot
    <2> QED
      BY <2>1, <2>2, <2>3, <2>4, <2>5, <2>6, <2>7, <2>8, <2>9, <2>10, Zenon DEF Next
  <1> QED
    BY <1>2, <1>3, FS_Subset

-----------------------------------------------------------------------------
(* The invariant: the text is one of the grammar as long as the calls can  *)
(* end.                                                                    *)

Waiting == IF mode = "run" THEN Len(stack) - 1 ELSE Len(stack)

(***************************************************************************)
(* Where the value can end that is being read, or has ended.               *)
(***************************************************************************)
Places ==
    CASE mode = "call" -> {j \in pos .. Len(text) : IsValue(text, pos, j, Len(stack))}
      [] mode = "run" -> Ends(text, Top, Len(stack), pos)
      [] OTHER -> IF ret = NULL THEN {} ELSE {pos - 1}

(***************************************************************************)
(* While memory lasts, the text is one of the grammar if and only if the   *)
(* calls that wait can end, once the value that is being read has.         *)
(***************************************************************************)
GrammarInv ==
    /\ failures \in Nat
    /\ mode \in {"return", "parsed"} /\ ret # NULL => pos > 1
    /\ failures = 0 /\ mode # "done" =>
         (IsText(text) <=> CanEnd(text, stack, Waiting, Places))

LEMMA Failed ==
    ASSUME GrammarInv, Fails, ret' = NULL
    PROVE  GrammarInv'
  <1>1. failures' \in Nat /\ failures' # 0
    BY DEF GrammarInv, Fails
  <1> QED
    BY <1>1, Zenon DEF GrammarInv

(***************************************************************************)
(* The calls that wait go on waiting.                                      *)
(***************************************************************************)
LEMMA SameWaiting ==
    ASSUME GrammarInv, mode # "done", mode' # "done", failures' = failures, text' = text,
           Waiting' = Waiting, \A d \in 1 .. Waiting : stack'[d] = stack[d],
           Places' = Places,
           mode' \in {"return", "parsed"} /\ ret' # NULL => pos' > 1
    PROVE  GrammarInv'
  <1>1. failures' \in Nat
    BY DEF GrammarInv
  <1>2. ASSUME failures' = 0
        PROVE  IsText(text') <=> CanEnd(text', stack', Waiting', Places')
    <2>1. IsText(text) <=> CanEnd(text, stack, Waiting, Places)
      BY <1>2 DEF GrammarInv
    <2>2. CanEnd(text, stack', Waiting, Places) <=> CanEnd(text, stack, Waiting, Places)
      BY SameCalls, Zenon
    <2> QED
      BY <2>1, <2>2, Zenon
  <1> QED
    BY <1>1, <1>2, Zenon DEF GrammarInv

(***************************************************************************)
(* A call goes on waiting for one more value, or has been waiting for the  *)
(* last time.                                                              *)
(***************************************************************************)
LEMMA OneMoreWaiting ==
    ASSUME GrammarInv, mode # "done", mode' = "call", failures' = failures, text' = text,
           NEW n \in Nat, Waiting = n, Waiting' = n + 1,
           \A d \in 1 .. n : stack'[d] = stack[d],
           Places' \subseteq 1 .. Len(text),
           Places = {j \in 1 .. Len(text) :
                       \E m \in Places' : EndsAfter(text, stack'[n + 1], n + 1, m, j)}
    PROVE  GrammarInv'
  <1>1. failures' \in Nat
    BY DEF GrammarInv
  <1>2. ASSUME failures' = 0
        PROVE  IsText(text') <=> CanEnd(text', stack', Waiting', Places')
    <2>1. IsText(text) <=> CanEnd(text, stack, n, Places)
      BY <1>2 DEF GrammarInv
    <2>2. CanEnd(text, stack', n, Places) <=> CanEnd(text, stack, n, Places)
      BY SameCalls, Zenon
    <2>3. CanEnd(text, stack', n + 1, Places') <=> CanEnd(text, stack', n, Places)
      <3>1. PICK C : C = Places'
        OBVIOUS
      <3>2. CanEnd(text, stack', n + 1, C)
              <=> CanEnd(text, stack', n, {j \in 1 .. Len(text) :
                            \E m \in C : EndsAfter(text, stack'[n + 1], n + 1, m, j)})
        BY <3>1, OneMoreCall
      <3> QED
        BY <3>1, <3>2, Zenon
    <2> QED
      BY <2>1, <2>2, <2>3, Zenon
  <1> QED
    BY <1>1, <1>2 DEF GrammarInv

LEMMA OneLessWaiting ==
    ASSUME GrammarInv, mode # "done", mode' # "done", failures' = failures, text' = text,
           NEW n \in Nat, Waiting = n + 1, Waiting' = n,
           \A d \in 1 .. n : stack'[d] = stack[d],
           Places \subseteq 1 .. Len(text),
           Places' = {j \in 1 .. Len(text) :
                        \E m \in Places : EndsAfter(text, stack[n + 1], n + 1, m, j)},
           mode' \in {"return", "parsed"} /\ ret' # NULL => pos' > 1
    PROVE  GrammarInv'
  <1>1. failures' \in Nat
    BY DEF GrammarInv
  <1>2. ASSUME failures' = 0
        PROVE  IsText(text') <=> CanEnd(text', stack', Waiting', Places')
    <2>1. IsText(text) <=> CanEnd(text, stack, n + 1, Places)
      BY <1>2 DEF GrammarInv
    <2>2. CanEnd(text, stack', n, Places') <=> CanEnd(text, stack, n, Places')
      BY SameCalls, Zenon
    <2>3. CanEnd(text, stack, n + 1, Places)
            <=> CanEnd(text, stack, n, {j \in 1 .. Len(text) :
                        \E m \in Places : EndsAfter(text, stack[n + 1], n + 1, m, j)})
      BY OneMoreCall
    <2> QED
      BY <2>1, <2>2, <2>3, Zenon
  <1> QED
    BY <1>1, <1>2, Zenon DEF GrammarInv

-----------------------------------------------------------------------------
(* Where things stand.                                                     *)

LEMMA UsedType ==
    ASSUME NEW f \in FrameType
    PROVE  /\ f.type \in Containers /\ Used(f) \in SUBSET Keys
           /\ f.type = "array" => \A k : UsedWith(f.type, Used(f), k) = Used(f)
  <1>1. f.type \in {"object", "array"} /\ f.table.names \in Seq(Keys)
    BY Zenon DEF FrameType, Table
  <1>2. \A n \in 1 .. Len(f.table.names) : f.table.names[n] \in Keys
    BY <1>1, ElementOfSeq
  <1> QED
    BY <1>1, <1>2 DEF Used, UsedWith, Count, Containers

LEMMA WhileRunning ==
    ASSUME ParserInv, mode = "run"
    PROVE  /\ stack # <<>> /\ Len(stack) \in 1 .. MAX_NESTING + 1
           /\ Waiting = Len(stack) - 1
           /\ Places = Ends(text, Top, Len(stack), pos)
           /\ Len(text) \in Nat /\ pos \in 1 .. Len(text) + 1
           /\ Token = IF pos <= Len(text) THEN text[pos] ELSE "end"
           /\ Top \in FrameType /\ FrameOK(Top) /\ Top = stack[Len(stack)]
           /\ Top.type \in Containers /\ Used(Top) \in SUBSET Keys
  <1>1. stack # <<>>
    BY DEF ParserInv, CallsOK
  <1>2. /\ Len(stack) \in 1 .. MAX_NESTING + 1
        /\ Top \in FrameType /\ FrameOK(Top) /\ Top = stack[Len(stack)]
    BY <1>1, TopOK, BoundsAssumption
  <1>3. Len(text) \in Nat /\ pos \in 1 .. Len(text) + 1
    BY DEF ParserInv, BasicOK
  <1>4. Waiting = Len(stack) - 1 /\ Places = Ends(text, Top, Len(stack), pos)
    BY DEF Waiting, Places
  <1> QED
    BY <1>1, <1>2, <1>3, <1>4, UsedType, Zenon DEF Token

LEMMA WhileReturning ==
    ASSUME ParserInv, GrammarInv, mode = "return"
    PROVE  /\ Waiting = Len(stack) /\ Len(stack) \in Nat
           /\ Places = IF ret = NULL THEN {} ELSE {pos - 1}
           /\ Places \subseteq 1 .. Len(text)
           /\ Len(text) \in Nat /\ pos \in 1 .. Len(text) + 1
           /\ ret # NULL => pos - 1 \in 1 .. Len(text)
  <1>1. Len(text) \in Nat /\ pos \in 1 .. Len(text) + 1 /\ Len(stack) \in Nat
    BY DEF ParserInv, BasicOK
  <1>2. Waiting = Len(stack) /\ Places = IF ret = NULL THEN {} ELSE {pos - 1}
    BY DEF Waiting, Places
  <1>3. ret # NULL => pos > 1
    BY DEF GrammarInv
  <1> QED
    BY <1>1, <1>2, <1>3

(***************************************************************************)
(* Ends, by where the call stands.                                         *)
(***************************************************************************)
LEMMA EndsFirst ==
    ASSUME NEW t, NEW f, NEW depth, NEW i, f.at \in {"first", "comma"}
    PROVE  Ends(t, f, depth, i)
             = {j \in i .. Len(t) : IsRest(t, f.type, i, j, depth, Used(f))}
  BY Zenon DEF Ends

LEMMA EndsNext ==
    ASSUME NEW t, NEW f, NEW depth, NEW i, f.at = "after"
    PROVE  Ends(t, f, depth, i)
             = {j \in i .. Len(t) : IsEnd(t, f.type, i, j, depth, Used(f))}
  BY Zenon DEF Ends

-----------------------------------------------------------------------------
(* The kinds of steps again: what they do to the calls that wait.          *)

LEMMA OthersWait ==
    ASSUME ParserInv, stack # <<>>, stack' = Others, mode' = "return"
    PROVE  /\ Waiting' = Len(stack) - 1
           /\ \A d \in 1 .. Len(stack) - 1 : stack'[d] = stack[d]
           /\ Places' = IF ret' = NULL THEN {} ELSE {pos' - 1}
  <1>1. Waiting' = Len(stack') /\ Places' = IF ret' = NULL THEN {} ELSE {pos' - 1}
    BY DEF Waiting, Places
  <1> QED
    BY <1>1, TopOK

LEMMA GiveUpRunning ==
    ASSUME ParserInv, GrammarInv, mode = "run", Ends(text, Top, Len(stack), pos) = {},
           NEW more, GiveUp(more), text' = text, failures' = failures
    PROVE  GrammarInv'
  <1>1. /\ stack # <<>> /\ Waiting = Len(stack) - 1 /\ Places = {}
    BY WhileRunning
  <1>2. stack' = Others /\ mode' = "return" /\ ret' = NULL
    BY Zenon DEF GiveUp, Return
  <1>3. Places' = {}
    BY <1>1, <1>2, OthersWait
  <1>4. Waiting' = Waiting /\ \A d \in 1 .. Waiting : stack'[d] = stack[d]
    BY <1>1, <1>2, OthersWait
  <1> QED
    BY <1>1, <1>2, <1>3, <1>4, SameWaiting

LEMMA GiveUpReturned ==
    ASSUME ParserInv, GrammarInv, mode = "return", stack # <<>>,
           ret = NULL \/ (Top.type = "object" /\ Top.key \in Used(Top)),
           NEW more, GiveUp(more), text' = text, failures' = failures
    PROVE  GrammarInv'
  <1>1. stack' = Others /\ mode' = "return" /\ ret' = NULL
    BY Zenon DEF GiveUp, Return
  <1>2. PICK n \in Nat : n + 1 = Len(stack) /\ n = Len(stack) - 1
    <2>1. Len(stack) \in Nat /\ Len(stack) >= 1
      BY TopOK
    <2> QED
      BY <2>1
  <1>3. Places' = {} /\ Waiting' = n /\ \A d \in 1 .. n : stack'[d] = stack[d]
    BY <1>1, <1>2, OthersWait
  <1>4. /\ Waiting = n + 1 /\ Places \subseteq 1 .. Len(text)
        /\ Places = IF ret = NULL THEN {} ELSE {pos - 1}
    BY <1>2, WhileReturning
  <1>5. \A m \in Places : \A j : ~EndsAfter(text, stack[n + 1], n + 1, m, j)
    <2>1. CASE ret = NULL
      BY <1>4, <2>1
    <2>2. CASE Top.type = "object" /\ Top.key \in Used(Top)
      <3>1. Top = stack[n + 1]
        BY <1>2 DEF Top
      <3> QED
        BY <2>2, <3>1, Zenon DEF EndsAfter
    <2> QED
      BY <2>1, <2>2
  <1>6. Places' = {j \in 1 .. Len(text) :
                     \E m \in Places : EndsAfter(text, stack[n + 1], n + 1, m, j)}
    BY <1>3, <1>5, Zenon
  <1> QED
    BY <1>1, <1>3, <1>4, <1>6, OneLessWaiting

(***************************************************************************)
(* The closing bracket has come, and ends the value.                       *)
(***************************************************************************)
LEMMA ClosedEnds ==
    ASSUME NEW t, Len(t) \in Nat, NEW f, f.type \in Containers, Used(f) \in SUBSET Keys,
           f.at \in {"first", "comma", "after"}, NEW depth \in 0 .. MAX_NESTING + 1,
           NEW i \in 1 .. Len(t), t[i] = Close(f.type)
    PROVE  Ends(t, f, depth, i) = {i}
  <1>1. PICK type \in Containers, used \in SUBSET Keys : type = f.type /\ used = Used(f)
    OBVIOUS
  <1>2. \A j \in i .. Len(t) : j \in 1 .. Len(t)
    OBVIOUS
  <1>3. \A j \in i .. Len(t) : IsRest(t, type, i, j, depth, used) <=> i = j
    BY <1>1, <1>2, ClosedRest
  <1>4. \A j \in i .. Len(t) : IsEnd(t, type, i, j, depth, used) <=> i = j
    BY <1>1, ClosedEnd
  <1>5. Ends(t, f, depth, i) = {j \in i .. Len(t) : i = j}
    <2>1. CASE f.at \in {"first", "comma"}
      <3>1. Ends(t, f, depth, i) = {j \in i .. Len(t) : IsRest(t, type, i, j, depth, used)}
        BY <1>1, <2>1, EndsFirst
      <3> QED
        BY <1>3, <3>1, Zenon
    <2>2. CASE f.at = "after"
      <3>1. Ends(t, f, depth, i) = {j \in i .. Len(t) : IsEnd(t, type, i, j, depth, used)}
        BY <1>1, <2>2, EndsNext
      <3> QED
        BY <1>4, <3>1, Zenon
    <2> QED
      BY <2>1, <2>2, Zenon
  <1> QED
    BY <1>5

LEMMA EndsHere ==
    ASSUME ParserInv, mode = "run", Top.at \in {"first", "comma", "after"},
           Token = Close(Top.type)
    PROVE  Ends(text, Top, Len(stack), pos) = {pos} /\ pos \in 1 .. Len(text)
  <1>1. /\ Len(stack) \in 0 .. MAX_NESTING + 1
        /\ Len(text) \in Nat /\ pos \in 1 .. Len(text) + 1
        /\ Token = IF pos <= Len(text) THEN text[pos] ELSE "end"
        /\ Top.type \in Containers /\ Used(Top) \in SUBSET Keys
    BY WhileRunning
  <1>2. Close(Top.type) # "end"
    BY <1>1, Zenon DEF Containers, Close
  <1>3. pos \in 1 .. Len(text) /\ text[pos] = Close(Top.type)
    BY <1>1, <1>2
  <1>4. /\ Len(text) \in Nat /\ Top.type \in Containers /\ Used(Top) \in SUBSET Keys
        /\ Top.at \in {"first", "comma", "after"} /\ Len(stack) \in 0 .. MAX_NESTING + 1
        /\ pos \in 1 .. Len(text) /\ text[pos] = Close(Top.type)
    BY <1>1, <1>3
  <1>5. Ends(text, Top, Len(stack), pos) = {pos}
    BY ONLY <1>4, ClosedEnds
  <1> QED
    BY <1>3, <1>5

LEMMA FinishRunning ==
    ASSUME ParserInv, GrammarInv, mode = "run", Top.at \in {"first", "comma", "after"},
           Token = Close(Top.type), NEW g, g.type = Top.type, Finish(g),
           pos' = pos + 1, text' = text, failures' = failures
    PROVE  GrammarInv'
  <1>1. /\ stack # <<>> /\ Waiting = Len(stack) - 1
        /\ Places = {pos} /\ pos \in 1 .. Len(text) /\ Top.type \in Containers
    BY WhileRunning, EndsHere, Zenon
  <1>2. stack' = Others /\ mode' = "return" /\ ret'.type = Top.type
    BY DEF Finish, Return
  <1>3. ret' # NULL
    BY <1>1, <1>2 DEF Containers, NULL
  <1>4. pos' - 1 = pos /\ pos' > 1
    BY <1>1
  <1>5. Places' = {pos}
    BY <1>1, <1>2, <1>3, <1>4, OthersWait
  <1>6. Waiting' = Waiting /\ \A d \in 1 .. Waiting : stack'[d] = stack[d]
    BY <1>1, <1>2, OthersWait, SMTT(30)
  <1> QED
    BY <1>1, <1>2, <1>4, <1>5, <1>6, SameWaiting

(***************************************************************************)
(* The call on top goes on as g: it runs on, it starts to wait for a value *)
(* or it takes one.                                                        *)
(***************************************************************************)
LEMMA ReplacedTop ==
    ASSUME ParserInv, stack # <<>>, NEW g \in FrameType,
           stack' = [stack EXCEPT ![Len(stack)] = g]
    PROVE  /\ Len(stack') = Len(stack) /\ stack' # <<>>
           /\ Top' = g /\ stack'[Len(stack)] = g
           /\ \A d \in 1 .. Len(stack) - 1 : stack'[d] = stack[d]
  <1>1. /\ Len(stack') = Len(stack) /\ stack' # <<>> /\ stack'[Len(stack)] = g
        /\ \A d \in 1 .. Len(stack) - 1 : stack'[d] = stack[d]
    BY Replaced, SMTT(30) DEF ParserInv, BasicOK
  <1> QED
    BY <1>1, Zenon DEF Top

LEMMA RunsOn ==
    ASSUME ParserInv, GrammarInv, mode = "run", mode' = "run", NEW g \in FrameType,
           stack' = [stack EXCEPT ![Len(stack)] = g],
           text' = text, failures' = failures,
           Ends(text, g, Len(stack), pos') = Ends(text, Top, Len(stack), pos)
    PROVE  GrammarInv'
  <1>1. /\ stack # <<>> /\ Waiting = Len(stack) - 1
        /\ Places = Ends(text, Top, Len(stack), pos)
    BY WhileRunning
  <1>2. /\ Len(stack') = Len(stack) /\ Top' = g
        /\ \A d \in 1 .. Len(stack) - 1 : stack'[d] = stack[d]
    BY <1>1, ReplacedTop
  <1>3. Waiting' = Len(stack') - 1 /\ Places' = Ends(text', Top', Len(stack'), pos')
    BY DEF Waiting, Places
  <1>4. Waiting' = Waiting /\ \A d \in 1 .. Waiting : stack'[d] = stack[d]
    BY <1>1, <1>2, <1>3
  <1>5. Places' = Places
    BY <1>1, <1>2, <1>3
  <1> QED
    BY <1>4, <1>5, SameWaiting

LEMMA StartsToWait ==
    ASSUME ParserInv, GrammarInv, mode = "run", mode' = "call", NEW g \in FrameType,
           stack' = [stack EXCEPT ![Len(stack)] = g],
           text' = text, failures' = failures, pos' \in Nat \ {0},
           Ends(text, Top, Len(stack), pos)
             = {j \in 1 .. Len(text) : \E m \in pos' .. Len(text) :
                  /\ IsValue(text, pos', m, Len(stack))
                  /\ EndsAfter(text, g, Len(stack), m, j)}
    PROVE  GrammarInv'
  <1>1. /\ stack # <<>> /\ Waiting = Len(stack) - 1
        /\ Places = Ends(text, Top, Len(stack), pos)
        /\ Len(stack) \in 1 .. MAX_NESTING + 1 /\ Len(text) \in Nat
    BY WhileRunning
  <1>2. PICK n \in Nat : n + 1 = Len(stack) /\ n = Len(stack) - 1
    BY <1>1
  <1>3. /\ Len(stack') = n + 1 /\ stack'[n + 1] = g
        /\ \A d \in 1 .. n : stack'[d] = stack[d]
    BY <1>1, <1>2, ReplacedTop
  <1>4. /\ Waiting' = Len(stack')
        /\ Places' = {j \in pos' .. Len(text') : IsValue(text', pos', j, Len(stack'))}
    BY DEF Waiting, Places
  <1>5. Places' = {j \in pos' .. Len(text) : IsValue(text, pos', j, n + 1)}
    BY <1>3, <1>4
  <1>6. Waiting = n /\ Waiting' = n + 1 /\ Places' \subseteq 1 .. Len(text)
    <2>1. \A j \in pos' .. Len(text) : j \in 1 .. Len(text)
      BY <1>1
    <2> QED
      BY <1>1, <1>2, <1>3, <1>4, <1>5, <2>1
  <1>7. Places = {j \in 1 .. Len(text) :
                    \E m \in Places' : EndsAfter(text, stack'[n + 1], n + 1, m, j)}
    <2>1. \A j : (\E m \in Places' : EndsAfter(text, stack'[n + 1], n + 1, m, j))
                   <=> \E m \in pos' .. Len(text) :
                         /\ IsValue(text, pos', m, Len(stack))
                         /\ EndsAfter(text, g, Len(stack), m, j)
      BY <1>2, <1>3, <1>5, Zenon
    <2> QED
      BY <1>1, <2>1, Zenon
  <1> QED
    BY <1>3, <1>6, <1>7, OneMoreWaiting

LEMMA TakesValue ==
    ASSUME ParserInv, GrammarInv, mode = "return", stack # <<>>, ret # NULL,
           mode' = "run", NEW g \in FrameType, g.at = "after", g.type = Top.type,
           Top.type = "object" => Top.key \notin Used(Top),
           Used(g) = UsedWith(Top.type, Used(Top), Top.key),
           stack' = [stack EXCEPT ![Len(stack)] = g],
           text' = text, pos' = pos, failures' = failures
    PROVE  GrammarInv'
  <1>1. PICK n \in Nat : n + 1 = Len(stack) /\ n = Len(stack) - 1
    <2>1. Len(stack) \in Nat /\ Len(stack) >= 1
      BY TopOK
    <2> QED
      BY <2>1
  <1>2. /\ Waiting = n + 1 /\ Places \subseteq 1 .. Len(text)
        /\ Places = {pos - 1} /\ pos \in Nat /\ (pos - 1) + 1 = pos
        /\ pos \in 1 .. Len(text) + 1 /\ Len(text) \in Nat
    BY <1>1, WhileReturning, SMTT(30)
  <1>3. /\ Len(stack') = n + 1 /\ Top' = g
        /\ \A d \in 1 .. n : stack'[d] = stack[d]
    BY <1>1, ReplacedTop, Zenon
  <1>4. Waiting' = Len(stack') - 1 /\ Places' = Ends(text', Top', Len(stack'), pos')
    BY DEF Waiting, Places
  <1>5. Top = stack[n + 1] /\ Top.type \in Containers
    BY <1>1, TopOK, UsedType DEF Top
  <1>6. Places' = {j \in pos .. Len(text) : IsEnd(text, g.type, pos, j, n + 1, Used(g))}
    BY <1>3, <1>4, EndsNext
  <1>7. \A j : EndsAfter(text, stack[n + 1], n + 1, pos - 1, j)
                 <=> IsEnd(text, g.type, pos, j, n + 1, Used(g))
    BY <1>2, <1>5, Zenon DEF EndsAfter
  <1>8. ASSUME NEW j \in 1 .. Len(text), IsEnd(text, g.type, pos, j, n + 1, Used(g))
        PROVE  j \in pos .. Len(text)
    <2>1. pos = j \/ pos < j
      BY <1>8, Zenon DEF IsEnd, MakeEnd
    <2> QED
      BY <1>2, <2>1
  <1>9. \A j \in pos .. Len(text) : j \in 1 .. Len(text)
    BY <1>2
  <1>10. Places' = {j \in 1 .. Len(text) :
                      \E m \in Places : EndsAfter(text, stack[n + 1], n + 1, m, j)}
    <2>1. Places' = {j \in 1 .. Len(text) : EndsAfter(text, stack[n + 1], n + 1, pos - 1, j)}
      BY <1>6, <1>7, <1>8, <1>9, Zenon
    <2> QED
      BY <1>2, <2>1, Zenon
  <1>11. Waiting' = n
    BY <1>3, <1>4
  <1> QED
    BY <1>2, <1>3, <1>10, <1>11, OneLessWaiting

-----------------------------------------------------------------------------
(* What reading a token does to the places where a call can end.           *)

LEMMA EndLater ==
    ASSUME NEW t, NEW f, NEW depth, NEW m, NEW j, EndsAfter(t, f, depth, m, j)
    PROVE  m + 1 = j \/ m + 1 < j
  BY Zenon DEF EndsAfter, IsEnd, MakeEnd

LEMMA SameEndsAfter ==
    ASSUME NEW f, NEW g, g.type = f.type, g.key = f.key, Used(g) = Used(f),
           NEW t, NEW depth, NEW m, NEW j
    PROVE  EndsAfter(t, g, depth, m, j) <=> EndsAfter(t, f, depth, m, j)
  BY Zenon DEF EndsAfter

LEMMA KeyRead ==
    ASSUME NEW t, Len(t) \in Nat, NEW depth \in 0 .. MAX_NESTING + 1,
           NEW f, f.type = "object", f.at \in {"first", "comma"}, Used(f) \in SUBSET Keys,
           NEW i \in 1 .. Len(t), t[i] \in Keys,
           NEW g, g.type = "object", g.at = "colon", g.key = t[i], Used(g) = Used(f)
    PROVE  Ends(t, g, depth, i + 1) = Ends(t, f, depth, i)
  <1>1. "object" \in Containers /\ t[i] # Close("object")
    BY Tokens, Zenon DEF Containers, Strings
  <1>2. ASSUME NEW j \in i .. Len(t)
        PROVE  IsRest(t, "object", i, j, depth, Used(f))
                 <=> \E m \in i .. j - 1 :
                       /\ IsMember(t, "object", i, m, depth, Used(f))
                       /\ IsEnd(t, "object", m + 1, j, depth,
                                UsedWith("object", Used(f), t[i]))
    <2>1. j \in 1 .. Len(t)
      OBVIOUS
    <2> QED
      BY <1>1, <2>1, OpenRest, Zenon
  <1>3. ASSUME NEW m, NEW j
        PROVE  (/\ IsMember(t, "object", i, m, depth, Used(f))
                /\ IsEnd(t, "object", m + 1, j, depth, UsedWith("object", Used(f), t[i])))
                 <=> (/\ t[i + 1] = ":" /\ i + 2 <= m
                      /\ IsValue(t, i + 2, m, depth) /\ EndsAfter(t, g, depth, m, j))
    <2>1. IsMember(t, "object", i, m, depth, Used(f))
            <=> /\ i + 2 <= m /\ t[i] \in Keys \ Used(f) /\ t[i + 1] = ":"
                /\ IsValue(t, i + 2, m, depth)
      BY Zenon DEF IsMember, MakeMember, IsValue
    <2>2. EndsAfter(t, g, depth, m, j)
            <=> /\ t[i] \notin Used(f)
                /\ IsEnd(t, "object", m + 1, j, depth, UsedWith("object", Used(f), t[i]))
      BY Zenon DEF EndsAfter
    <2> QED
      BY <2>1, <2>2, Zenon
  <1>4. ASSUME NEW j
        PROVE  j \in Ends(t, f, depth, i)
                 <=> /\ j \in i .. Len(t)
                     /\ \E m \in i .. j - 1 :
                          /\ t[i + 1] = ":" /\ i + 2 <= m
                          /\ IsValue(t, i + 2, m, depth) /\ EndsAfter(t, g, depth, m, j)
    <2>1. j \in Ends(t, f, depth, i)
            <=> j \in i .. Len(t) /\ IsRest(t, "object", i, j, depth, Used(f))
      BY Zenon DEF Ends
    <2> QED
      BY <1>2, <1>3, <2>1, Zenon
  <1>5. ASSUME NEW j
        PROVE  j \in Ends(t, g, depth, i + 1)
                 <=> /\ j \in i + 1 .. Len(t)
                     /\ \E m \in (i + 1) + 1 .. j - 1 :
                          /\ t[i + 1] = ":"
                          /\ IsValue(t, (i + 1) + 1, m, depth) /\ EndsAfter(t, g, depth, m, j)
    BY Zenon DEF Ends
  <1>6. ASSUME NEW j
        PROVE  j \in Ends(t, f, depth, i) <=> j \in Ends(t, g, depth, i + 1)
    <2>1. (i + 1) + 1 = i + 2
      OBVIOUS
    <2>2. ASSUME j \in Int, NEW m
          PROVE  (m \in i .. j - 1 /\ i + 2 <= m) <=> m \in i + 2 .. j - 1
      BY <2>2
    <2>3. j \in Int /\ (\E m : m \in i + 2 .. j - 1)
            => (j \in i .. Len(t) <=> j \in i + 1 .. Len(t))
      OBVIOUS
    <2>4. j \in i .. Len(t) \/ j \in i + 1 .. Len(t) => j \in Int
      OBVIOUS
    <2> QED
      BY <1>4, <1>5, <2>1, <2>2, <2>3, <2>4, Zenon
  <1> QED
    BY <1>6

(***************************************************************************)
(* Nothing is read: no member, no colon, no comma.                         *)
(***************************************************************************)
LEMMA NoKey ==
    ASSUME NEW t, Len(t) \in Nat, NEW depth \in 0 .. MAX_NESTING + 1,
           NEW f, f.type = "object", f.at \in {"first", "comma"}, Used(f) \in SUBSET Keys,
           NEW i \in 1 .. Len(t) + 1,
           i \in 1 .. Len(t) => t[i] \notin Keys /\ t[i] # Close("object")
    PROVE  Ends(t, f, depth, i) = {}
  <1>1. "object" \in Containers
    BY DEF Containers
  <1>2. ASSUME NEW j \in i .. Len(t)
        PROVE  ~IsRest(t, "object", i, j, depth, Used(f))
    <2>1. j \in 1 .. Len(t) /\ i \in 1 .. Len(t)
      OBVIOUS
    <2>2. \A m : ~IsMember(t, "object", i, m, depth, Used(f))
      BY <2>1, Zenon DEF IsMember, MakeMember
    <2> QED
      BY <1>1, <2>1, <2>2, OpenRest, Zenon
  <1> QED
    BY <1>2, Zenon DEF Ends

LEMMA NoColon ==
    ASSUME NEW t, NEW f, NEW depth, NEW i, f.at = "colon",
           i .. Len(t) = {} \/ t[i] # ":"
    PROVE  Ends(t, f, depth, i) = {}
  BY Zenon DEF Ends

LEMMA NoComma ==
    ASSUME NEW t, NEW f, f.type \in Containers, f.at = "after", NEW depth, NEW i,
           i .. Len(t) = {} \/ t[i] \notin {Close(f.type), ","}
    PROVE  Ends(t, f, depth, i) = {}
  <1>1. CASE i .. Len(t) = {}
    BY <1>1, Zenon DEF Ends
  <1>2. CASE t[i] \notin {Close(f.type), ","}
    <2>1. \A j : ~IsEnd(t, f.type, i, j, depth, Used(f))
      BY <1>2, Zenon DEF IsEnd, MakeEnd
    <2> QED
      BY <2>1, Zenon DEF Ends
  <1> QED
    BY <1>1, <1>2, Zenon

(***************************************************************************)
(* Names for the two tokens (the SMT solver cannot read their quotes).     *)
(***************************************************************************)
Colon == ":"
Comma == ","

(***************************************************************************)
(* A value is read next.                                                   *)
(***************************************************************************)
LEMMA ColonRead ==
    ASSUME NEW t, Len(t) \in Nat, NEW depth, NEW f, f.at = "colon",
           NEW i \in 1 .. Len(t), t[i] = Colon,
           NEW g, g.type = f.type, g.key = f.key, Used(g) = Used(f)
    PROVE  Ends(t, f, depth, i)
             = {j \in 1 .. Len(t) : \E m \in i + 1 .. Len(t) :
                  IsValue(t, i + 1, m, depth) /\ EndsAfter(t, g, depth, m, j)}
  <1>1. \A m, j : EndsAfter(t, g, depth, m, j) <=> EndsAfter(t, f, depth, m, j)
    BY SameEndsAfter, Zenon
  <1>2. ASSUME NEW j \in i .. Len(t), NEW m \in i + 1 .. j - 1
        PROVE  j \in 1 .. Len(t) /\ m \in i + 1 .. Len(t)
    OBVIOUS
  <1>3. ASSUME NEW j \in 1 .. Len(t), NEW m \in i + 1 .. Len(t),
               EndsAfter(t, f, depth, m, j)
        PROVE  j \in i .. Len(t) /\ m \in i + 1 .. j - 1
    <2>1. m + 1 = j \/ m + 1 < j
      BY <1>3, EndLater, Zenon
    <2> QED
      BY <2>1
  <1>4. \A j : j \in Ends(t, f, depth, i)
                 <=> /\ j \in i .. Len(t)
                     /\ \E m \in i + 1 .. j - 1 :
                          IsValue(t, i + 1, m, depth) /\ EndsAfter(t, f, depth, m, j)
    BY Zenon DEF Ends, Colon
  <1> QED
    BY <1>1, <1>2, <1>3, <1>4, Zenon

LEMMA ItemNext ==
    ASSUME NEW t, Len(t) \in Nat, NEW depth \in 0 .. MAX_NESTING + 1,
           NEW f, f.type = "array", f.at \in {"first", "comma"},
           NEW i \in 1 .. Len(t) + 1, i \in 1 .. Len(t) => t[i] # Close("array"),
           NEW g, g.type = f.type, g.key = f.key, Used(g) = Used(f)
    PROVE  Ends(t, f, depth, i)
             = {j \in 1 .. Len(t) : \E m \in i .. Len(t) :
                  IsValue(t, i, m, depth) /\ EndsAfter(t, g, depth, m, j)}
  <1>1. \A m, j : EndsAfter(t, g, depth, m, j) <=> EndsAfter(t, f, depth, m, j)
    BY SameEndsAfter, Zenon
  <1>2. /\ "array" \in Containers /\ Used(f) = {} /\ {} \in SUBSET Keys
        /\ \A k : UsedWith("array", Used(f), k) = {}
    BY DEF Containers, Used, UsedWith
  <1>3. ASSUME NEW j \in i .. Len(t)
        PROVE  IsRest(t, "array", i, j, depth, Used(f))
                 <=> \E m \in i .. j - 1 :
                       IsValue(t, i, m, depth) /\ EndsAfter(t, f, depth, m, j)
    <2>1. i \in 1 .. Len(t) /\ j \in 1 .. Len(t)
      OBVIOUS
    <2>2. IsRest(t, "array", i, j, depth, {})
            <=> \E m \in i .. j - 1 :
                  /\ IsMember(t, "array", i, m, depth, {})
                  /\ IsEnd(t, "array", m + 1, j, depth, UsedWith("array", {}, t[i]))
      BY <1>2, <2>1, OpenRest, Zenon
    <2>3. \A m : IsMember(t, "array", i, m, depth, {}) <=> IsValue(t, i, m, depth)
      BY Zenon DEF IsMember, MakeMember, IsValue
    <2>4. \A m : EndsAfter(t, f, depth, m, j) <=> IsEnd(t, "array", m + 1, j, depth, {})
      BY <1>2, Zenon DEF EndsAfter
    <2> QED
      BY <1>2, <2>2, <2>3, <2>4, Zenon
  <1>4. ASSUME NEW j \in i .. Len(t), NEW m \in i .. j - 1
        PROVE  j \in 1 .. Len(t) /\ m \in i .. Len(t)
    OBVIOUS
  <1>5. ASSUME NEW j \in 1 .. Len(t), NEW m \in i .. Len(t),
               EndsAfter(t, f, depth, m, j)
        PROVE  j \in i .. Len(t) /\ m \in i .. j - 1
    <2>1. m + 1 = j \/ m + 1 < j
      BY <1>5, EndLater, Zenon
    <2> QED
      BY <2>1
  <1>6. \A j : j \in Ends(t, f, depth, i)
                 <=> j \in i .. Len(t) /\ IsRest(t, "array", i, j, depth, Used(f))
    BY Zenon DEF Ends
  <1> QED
    BY <1>1, <1>3, <1>4, <1>5, <1>6, Zenon

LEMMA FromNext ==
    ASSUME NEW i \in Int, NEW n \in Int
    PROVE  /\ \A j \in i .. n : i < j => j \in i + 1 .. n
           /\ \A j \in i + 1 .. n : j \in i .. n /\ i < j
  OBVIOUS

LEMMA CommaRead ==
    ASSUME NEW t, Len(t) \in Nat, NEW depth, NEW f, f.type \in Containers, f.at = "after",
           NEW i \in 1 .. Len(t), t[i] = Comma,
           NEW g, g.type = f.type, g.at = "comma", Used(g) = Used(f)
    PROVE  Ends(t, g, depth, i + 1) = Ends(t, f, depth, i)
  <1>1. Close(f.type) # ","
    BY Tokens, Zenon
  <1>2. \A j : IsEnd(t, f.type, i, j, depth, Used(f))
                 <=> i < j /\ IsRest(t, f.type, i + 1, j, depth, Used(f))
    BY <1>1, Zenon DEF IsEnd, MakeEnd, IsRest, Comma
  <1>3. /\ \A j \in i .. Len(t) : i < j => j \in i + 1 .. Len(t)
        /\ \A j \in i + 1 .. Len(t) : j \in i .. Len(t) /\ i < j
    <2>1. \A n \in 1 .. Len(t) : n \in Int /\ Len(t) \in Int
      BY ONLY Len(t) \in Nat
    <2> QED
      BY <2>1, FromNext, Zenon
  <1>4. \A j : j \in Ends(t, f, depth, i)
                 <=> j \in i .. Len(t) /\ IsEnd(t, f.type, i, j, depth, Used(f))
    BY Zenon DEF Ends
  <1>5. \A j : j \in Ends(t, g, depth, i + 1)
                 <=> j \in i + 1 .. Len(t) /\ IsRest(t, f.type, i + 1, j, depth, Used(f))
    BY Zenon DEF Ends
  <1> QED
    BY <1>2, <1>3, <1>4, <1>5, Zenon

-----------------------------------------------------------------------------
(* parse_value.                                                            *)

LEMMA WhileCalling ==
    ASSUME ParserInv, mode = "call"
    PROVE  /\ Waiting = Len(stack) /\ Len(stack) \in 0 .. MAX_NESTING + 1
           /\ Len(text) \in Nat /\ pos \in 1 .. Len(text) + 1
           /\ Token = IF pos <= Len(text) THEN text[pos] ELSE "end"
           /\ Places = {j \in pos .. Len(text) : IsValue(text, pos, j, Len(stack))}
  <1>1. /\ Len(stack) \in 0 .. MAX_NESTING + 1
        /\ Len(text) \in Nat /\ pos \in 1 .. Len(text) + 1
    BY BoundsAssumption DEF ParserInv, BasicOK
  <1>2. /\ Waiting = Len(stack)
        /\ Places = {j \in pos .. Len(text) : IsValue(text, pos, j, Len(stack))}
    BY DEF Waiting, Places
  <1> QED
    BY <1>1, <1>2, Zenon DEF Token

LEMMA NoValueComes ==
    ASSUME ParserInv, GrammarInv, mode = "call", TooDeep \/ Token \notin Starters,
           Return(NULL), text' = text, stack' = stack, failures' = failures
    PROVE  GrammarInv'
  <1>1. /\ Waiting = Len(stack) /\ Len(stack) \in 0 .. MAX_NESTING + 1
        /\ Len(text) \in Nat /\ pos \in 1 .. Len(text) + 1
        /\ Token = IF pos <= Len(text) THEN text[pos] ELSE "end"
        /\ Places = {j \in pos .. Len(text) : IsValue(text, pos, j, Len(stack))}
    BY WhileCalling
  <1>2. ASSUME NEW j \in pos .. Len(text)
        PROVE  ~IsValue(text, pos, j, Len(stack))
    <2>1. j \in 1 .. Len(text) /\ pos \in 1 .. Len(text) /\ Token = text[pos]
      BY <1>1
    <2>2. Len(stack) > MAX_NESTING \/ text[pos] \notin Starters
      BY <2>1 DEF TooDeep
    <2> QED
      BY <1>1, <2>1, <2>2, NoValue
  <1>3. Places = {}
    BY <1>1, <1>2, Zenon
  <1>4. mode' = "return" /\ ret' = NULL
    BY DEF Return
  <1>5. Waiting' = Len(stack) /\ Places' = {}
    BY <1>4 DEF Waiting, Places
  <1> QED
    BY <1>1, <1>3, <1>4, <1>5, SameWaiting

LEMMA ScalarComes ==
    ASSUME ParserInv, GrammarInv, IsFiniteSet(heap), mode = "call", ~TooDeep,
           Token \in Strings \union {"lit"}, NEW n \in Nat, n > 0, Scalar(n),
           text' = text
    PROVE  GrammarInv'
  <1>1. /\ Waiting = Len(stack) /\ Len(stack) \in 0 .. MAX_NESTING + 1
        /\ Len(text) \in Nat /\ pos \in 1 .. Len(text) + 1
        /\ Token = IF pos <= Len(text) THEN text[pos] ELSE "end"
        /\ Places = {j \in pos .. Len(text) : IsValue(text, pos, j, Len(stack))}
    BY WhileCalling
  <1>2. Token # "end" /\ Len(stack) \in 0 .. MAX_NESTING
    BY <1>1, TokenRead, BoundsAssumption DEF TooDeep
  <1>3. pos \in 1 .. Len(text) /\ text[pos] \in Strings \union {"lit"}
    BY <1>1, <1>2
  <1>4. Places = {pos}
    <2>1. \A j \in pos .. Len(text) : j \in 1 .. Len(text)
      BY <1>3
    <2>2. \A j \in pos .. Len(text) : IsValue(text, pos, j, Len(stack)) <=> pos = j
      BY <1>1, <1>2, <1>3, <2>1, ScalarValue
    <2>3. pos \in pos .. Len(text)
      BY <1>3
    <2> QED
      BY <1>1, <2>2, <2>3, Zenon
  <1>5. mode' = "return" /\ pos' = pos + 1 /\ stack' = stack
    BY DEF Scalar, Return
  <1>6. CASE Fails /\ ret' = NULL
    BY <1>6, Failed
  <1>7. CASE ret' = [type |-> Token, blocks |-> NewBlocks(n)] /\ failures' = failures
    <2>1. NewBlocks(n) # {}
      BY SomeBlock
    <2>2. ret' # NULL
      BY <1>7, <2>1 DEF NULL
    <2>3. pos' - 1 = pos /\ pos' > 1
      BY <1>3, <1>5
    <2>4. Waiting' = Len(stack) /\ Places' = {pos}
      BY <1>5, <2>2, <2>3 DEF Waiting, Places
    <2> QED
      BY <1>1, <1>4, <1>5, <1>7, <2>3, <2>4, SameWaiting
  <1> QED
    BY <1>6, <1>7, Zenon DEF Scalar, Return

LEMMA ContainerComes ==
    ASSUME ParserInv, GrammarInv, mode = "call", ~TooDeep, NEW type \in Containers,
           Token = Open(type), Container(type), text' = text
    PROVE  GrammarInv'
  <1>1. /\ Waiting = Len(stack) /\ Len(stack) \in 0 .. MAX_NESTING + 1
        /\ Len(text) \in Nat /\ pos \in 1 .. Len(text) + 1
        /\ Token = IF pos <= Len(text) THEN text[pos] ELSE "end"
        /\ Places = {j \in pos .. Len(text) : IsValue(text, pos, j, Len(stack))}
    BY WhileCalling
  <1>2. Open(type) # "end"
    BY Zenon DEF Containers, Open
  <1>3. /\ pos \in 1 .. Len(text) /\ text[pos] = Open(type)
        /\ Len(stack) \in 0 .. MAX_NESTING
    BY <1>1, <1>2, BoundsAssumption DEF TooDeep
  <1>4. CASE Fails /\ ret' = NULL
    BY <1>4, Failed
  <1> DEFINE g == Frame(type, NewBlocks(2))
  <1>5. CASE /\ stack' = Append(stack, g) /\ pos' = pos + 1 /\ mode' = "run"
             /\ failures' = failures
    <2>1. g.type = type /\ g.at = "first" /\ Used(g) = {}
      BY DEF Frame, Used, NewTable, Count
    <2> HIDE DEF g
    <2>2. /\ Len(stack') = Len(stack) + 1 /\ Top' = g
          /\ \A d \in 1 .. Len(stack) : stack'[d] = stack[d]
      <3>1. stack \in Seq(FrameType)
        BY DEF ParserInv, BasicOK
      <3> QED
        BY <1>5, <3>1 DEF Top
    <2>3. /\ Waiting' = Len(stack') - 1
          /\ Places' = Ends(text', Top', Len(stack'), pos')
      BY <1>5 DEF Waiting, Places
    <2>4. Places' = {j \in pos + 1 .. Len(text) :
                       IsRest(text, type, pos + 1, j, Len(stack) + 1, {})}
      <3>1. Places' = Ends(text, g, Len(stack) + 1, pos + 1)
        BY <1>5, <2>2, <2>3
      <3>2. Ends(text, g, Len(stack) + 1, pos + 1)
              = {j \in pos + 1 .. Len(text) :
                   IsRest(text, g.type, pos + 1, j, Len(stack) + 1, Used(g))}
        BY <2>1, Zenon DEF Ends
      <3> QED
        BY <2>1, <3>1, <3>2
    <2>5. ASSUME NEW j \in pos .. Len(text)
          PROVE  IsValue(text, pos, j, Len(stack))
                   <=> pos < j /\ IsRest(text, type, pos + 1, j, Len(stack) + 1, {})
      <3>1. j \in 1 .. Len(text)
        BY <1>3
      <3> QED
        BY <1>1, <1>3, <3>1, ContainerValue
    <2>6. /\ \A j \in pos .. Len(text) : pos < j => j \in pos + 1 .. Len(text)
          /\ \A j \in pos + 1 .. Len(text) : j \in pos .. Len(text) /\ pos < j
      BY <1>1, FromNext
    <2>7. Places' = Places
      BY <1>1, <2>4, <2>5, <2>6, Zenon
    <2>8. Waiting' = Waiting
      BY <1>1, <2>2, <2>3
    <2> QED
      BY <1>1, <1>5, <2>2, <2>7, <2>8, SameWaiting
  <1> QED
    BY <1>4, <1>5, Zenon DEF Container, Return

LEMMA ValueInGrammar ==
    ASSUME ParserInv, GrammarInv, IsFiniteSet(heap), ParseValue
    PROVE  GrammarInv'
  <1>1. mode = "call" /\ text' = text
    BY Zenon DEF ParseValue
  <1>2. CASE ~TooDeep /\ Token = "lit" /\ Scalar(1)
    BY <1>1, <1>2, ScalarComes
  <1>3. CASE ~TooDeep /\ Token \in Strings /\ Scalar(2)
    BY <1>1, <1>3, ScalarComes
  <1>4. CASE \E type \in Containers : ~TooDeep /\ Token = Open(type) /\ Container(type)
    BY <1>1, <1>4, ContainerComes
  <1>5. CASE /\ TooDeep \/ Token \notin Starters
             /\ Return(NULL) /\ UNCHANGED <<pos, stack, heap, failures>>
    BY <1>1, <1>5, NoValueComes
  <1>6. /\ "object" \in Containers /\ Open("object") = "{"
        /\ "array" \in Containers /\ Open("array") = "["
    BY Zenon DEF Containers, Open
  <1> QED
    BY <1>2, <1>3, <1>4, <1>5, <1>6, Zenon DEF ParseValue, Starters

-----------------------------------------------------------------------------
(* The members of an object.                                               *)

LEMMA KeyInGrammar ==
    ASSUME ParserInv, GrammarInv, ObjectKey
    PROVE  GrammarInv'
  <1>1. /\ mode = "run" /\ Top.type = "object" /\ Top.at \in {"first", "comma"}
        /\ Token # Close("object") /\ text' = text
    BY Zenon DEF ObjectKey, Close
  <1>2. /\ stack # <<>> /\ Len(stack) \in 1 .. MAX_NESTING + 1
        /\ Len(text) \in Nat /\ pos \in 1 .. Len(text) + 1
        /\ Token = IF pos <= Len(text) THEN text[pos] ELSE "end"
        /\ Top \in FrameType /\ Used(Top) \in SUBSET Keys
    BY <1>1, WhileRunning
  <1>3. Len(stack) \in 0 .. MAX_NESTING + 1
    BY <1>2
  <1>4. CASE Fails /\ GiveUp({})
    BY <1>4, Failed DEF GiveUp, Return
  <1>5. CASE Token \notin Keys /\ GiveUp({}) /\ failures' = failures
    <2>1. pos \in 1 .. Len(text) => text[pos] \notin Keys /\ text[pos] # Close("object")
      BY <1>1, <1>2, <1>5
    <2>2. Ends(text, Top, Len(stack), pos) = {}
      BY <1>1, <1>2, <1>3, <2>1, NoKey
    <2> QED
      BY <1>1, <1>5, <2>2, GiveUpRunning
  <1>6. CASE /\ Token \in Keys
             /\ stack' = [stack EXCEPT ![Len(stack)] =
                            [@ EXCEPT !.key = Token, !.keyBlock = NewBlocks(1),
                                      !.at = "colon"]]
             /\ pos' = pos + 1 /\ mode' = mode /\ failures' = failures
    <2> DEFINE g == [Top EXCEPT !.key = Token, !.keyBlock = NewBlocks(1), !.at = "colon"]
    <2>1. stack' = [stack EXCEPT ![Len(stack)] = g]
      BY <1>6, Zenon DEF Top
    <2>2. NewBlocks(1) \subseteq Int
      BY FreshBlocks
    <2>3. g \in FrameType
      BY <1>2, <1>6, <2>2, Zenon DEF FrameType
    <2>4. g.type = "object" /\ g.at = "colon" /\ g.key = Token /\ g.table = Top.table
      BY <1>1, <1>2, Zenon DEF FrameType
    <2> HIDE DEF g
    <2>5. Used(g) = Used(Top)
      BY <1>1, <2>4 DEF Used
    <2>6. Token # "end"
      BY <1>6, TokenRead, Zenon DEF Strings
    <2>7. pos \in 1 .. Len(text) /\ text[pos] = Token
      BY <1>2, <2>6
    <2>8. Ends(text, g, Len(stack), pos + 1) = Ends(text, Top, Len(stack), pos)
      <3>1. PICK f, i : f = Top /\ i = pos
        OBVIOUS
      <3>2. Ends(text, g, Len(stack), i + 1) = Ends(text, f, Len(stack), i)
        BY <1>1, <1>2, <1>3, <1>6, <2>4, <2>5, <2>7, <3>1, KeyRead
      <3> QED
        BY <3>1, <3>2
    <2> QED
      BY <1>1, <1>6, <2>1, <2>3, <2>8, RunsOn
  <1> QED
    BY <1>4, <1>5, <1>6, Zenon DEF ObjectKey

(***************************************************************************)
(* Goes: the call on top stands elsewhere.                                 *)
(***************************************************************************)
LEMMA GoesOn ==
    ASSUME ParserInv, stack # <<>>, NEW at, at \in {"value", "comma"}, Goes(at)
    PROVE  \E g \in FrameType : /\ stack' = [stack EXCEPT ![Len(stack)] = g]
                                /\ g.type = Top.type /\ g.at = at /\ g.key = Top.key
                                /\ Used(g) = Used(Top)
  <1> DEFINE g == [Top EXCEPT !.at = at]
  <1>1. Top \in FrameType
    BY TopOK
  <1>2. stack' = [stack EXCEPT ![Len(stack)] = g]
    BY Zenon DEF Goes, Top
  <1>3. g \in FrameType
    BY <1>1, Zenon DEF FrameType
  <1>4. g.type = Top.type /\ g.at = at /\ g.key = Top.key /\ g.table = Top.table
    BY <1>1, Zenon DEF FrameType
  <1> HIDE DEF g
  <1>5. Used(g) = Used(Top)
    BY <1>4 DEF Used
  <1> QED
    BY <1>2, <1>3, <1>4, <1>5, Zenon

LEMMA ColonInGrammar ==
    ASSUME ParserInv, GrammarInv, ObjectColon
    PROVE  GrammarInv'
  <1>1. /\ mode = "run" /\ Top.at = "colon" /\ text' = text /\ failures' = failures
    BY Zenon DEF ObjectColon
  <1>2. /\ stack # <<>> /\ Len(text) \in Nat /\ pos \in 1 .. Len(text) + 1
        /\ Token = IF pos <= Len(text) THEN text[pos] ELSE "end"
    BY <1>1, WhileRunning
  <1>3. CASE Token # ":" /\ GiveUp(Top.keyBlock)
    <2>1. pos .. Len(text) = {} \/ Token = text[pos]
      BY ONLY <1>2
    <2>2. pos .. Len(text) = {} \/ text[pos] # ":"
      BY <1>3, <2>1, Zenon
    <2>3. Ends(text, Top, Len(stack), pos) = {}
      BY <1>1, <2>2, NoColon, Zenon
    <2>4. GiveUp(Top.keyBlock)
      BY <1>3
    <2> QED
      BY ONLY ParserInv, GrammarInv, <1>1, <2>3, <2>4, GiveUpRunning
  <1>4. CASE Token = ":" /\ pos' = pos + 1 /\ mode' = "call" /\ Goes("value")
    <2>1. pos' = pos + 1 /\ mode' = "call" /\ Goes("value") /\ text[pos] = Colon
      BY <1>2, <1>4, Zenon DEF Colon
    <2>2. pos \in 1 .. Len(text)
      <3>1. Token # "end"
        BY <1>4, Zenon
      <3> QED
        BY ONLY <1>2, <3>1
    <2>3. PICK g \in FrameType : /\ stack' = [stack EXCEPT ![Len(stack)] = g]
                                 /\ g.type = Top.type /\ g.key = Top.key
                                 /\ Used(g) = Used(Top)
      BY <1>2, <2>1, GoesOn, Zenon
    <2>4. Ends(text, Top, Len(stack), pos)
            = {j \in 1 .. Len(text) : \E m \in pos + 1 .. Len(text) :
                 /\ IsValue(text, pos + 1, m, Len(stack))
                 /\ EndsAfter(text, g, Len(stack), m, j)}
      BY ONLY <1>1, <1>2, <2>1, <2>2, <2>3, ColonRead
    <2>5. pos + 1 \in Nat \ {0}
      BY ONLY <1>2
    <2>6. pos' = pos + 1 /\ mode' = "call"
      BY <2>1
    <2> QED
      BY ONLY ParserInv, GrammarInv, <1>1, <2>3, <2>4, <2>5, <2>6, StartsToWait
  <1> QED
    BY <1>3, <1>4, Zenon DEF ObjectColon

LEMMA EndsInGrammar ==
    ASSUME ParserInv, GrammarInv, ObjectEnds
    PROVE  GrammarInv'
  <1>1. /\ mode = "run" /\ Top.at \in {"first", "comma", "after"}
        /\ Token = Close(Top.type) /\ Finish(Top)
        /\ pos' = pos + 1 /\ text' = text /\ failures' = failures
    BY Zenon DEF ObjectEnds, Close
  <1> QED
    BY <1>1, FinishRunning

(***************************************************************************)
(* json_object_add: a name that the object has already is found in its     *)
(* table, and no other.                                                    *)
(***************************************************************************)
LEMMA FoundIsUsed ==
    ASSUME NEW f, f.type = "object", TableOK(f.table), f.key \in Keys
    PROVE  Found(f.table, f.key) <=> f.key \in Used(f)
  <1>1. Used(f) = {f.table.names[n] : n \in 1 .. Count(f.table)}
    BY DEF Used
  <1>2. CASE f.key \in Used(f)
    <2>1. PICK n \in 1 .. Count(f.table) : f.key = f.table.names[n]
      BY <1>1, <1>2
    <2> QED
      BY <1>2, <2>1, MemberFound
  <1>3. CASE f.key \notin Used(f)
    <2>1. Absent(f.table, f.key)
      BY <1>1, <1>3 DEF Absent
    <2> QED
      BY <1>3, <2>1, AbsentNotFound
  <1> QED
    BY <1>2, <1>3

LEMMA UsedAfterAdd ==
    ASSUME NEW f, NEW g, f.type = "object", g.type = "object",
           f.table.names \in Seq(Keys), NEW key \in Keys,
           g.table.names = Append(f.table.names, key)
    PROVE  Used(g) = Used(f) \union {key}
  <1> DEFINE s == f.table.names
             r == g.table.names
  <1>1. /\ Len(s) \in Nat /\ Len(r) = Len(s) + 1 /\ r[Len(s) + 1] = key
        /\ \A n \in 1 .. Len(s) : r[n] = s[n]
    OBVIOUS
  <1>2. /\ Used(f) = {s[n] : n \in 1 .. Len(s)}
        /\ Used(g) = {r[n] : n \in 1 .. Len(r)}
    BY DEF Used, Count
  <1>3. \A n : n \in 1 .. Len(r) <=> n \in 1 .. Len(s) \/ n = Len(s) + 1
    BY <1>1
  <1> HIDE DEF s, r
  <1>4. ASSUME NEW k
        PROVE  k \in Used(g) <=> k \in Used(f) \/ k = key
    BY <1>1, <1>2, <1>3, Zenon
  <1> QED
    BY <1>4

LEMMA AddInGrammar ==
    ASSUME ParserInv, GrammarInv, ObjectAdd
    PROVE  GrammarInv'
  <1>1. /\ mode = "return" /\ stack # <<>> /\ Top.type = "object"
        /\ text' = text /\ pos' = pos
    BY DEF ObjectAdd
  <1>2. Top \in FrameType /\ FrameOK(Top) /\ Top.at = "value"
    BY <1>1, TopOK DEF ParserInv, CallsOK
  <1>3. TableOK(Top.table) /\ Top.key \in Keys
    BY <1>1, <1>2 DEF FrameOK, Named
  <1>4. Found(Top.table, Top.key) <=> Top.key \in Used(Top)
    BY <1>1, <1>3, FoundIsUsed
  <1>5. CASE ret = NULL /\ GiveUp(Top.keyBlock) /\ failures' = failures
    BY <1>1, <1>5, GiveUpReturned
  <1>6. CASE Found(Top.table, Top.key) /\ GiveUp(Refused) /\ failures' = failures
    BY <1>1, <1>4, <1>6, GiveUpReturned
  <1>7. CASE Fails /\ GiveUp(Refused)
    BY <1>7, Failed DEF GiveUp, Return
  <1>8. CASE /\ ret # NULL /\ ~Found(Top.table, Top.key)
             /\ LET new == IF MustGrow(Top.table) THEN NewBlocks(1) ELSE Top.room
                IN  stack' = [stack EXCEPT ![Len(stack)] =
                       With(@, Added(@.table, @.key, ret), new)]
             /\ mode' = "run" /\ failures' = failures
    <2> DEFINE new == IF MustGrow(Top.table) THEN NewBlocks(1) ELSE Top.room
               o == Added(Top.table, Top.key, ret)
               g == With(Top, o, new)
    <2>1. stack' = [stack EXCEPT ![Len(stack)] = g]
      BY <1>8, Zenon DEF Top
    <2>2. new \subseteq Int
      BY <1>2, FreshBlocks, Zenon DEF FrameType
    <2>3. Absent(Top.table, Top.key)
      BY <1>3, <1>8, MemberFound DEF Absent
    <2>4. ret \in Value
      BY DEF ParserInv, BasicOK
    <2>5. TableOK(o) /\ o.names = Append(Top.table.names, Top.key)
      BY <1>3, <2>3, <2>4, AddedOK
    <2>6. o \in Table
      BY <2>5 DEF TableOK, ShapeOK
    <2> HIDE DEF o, new
    <2>7. g.type = Top.type /\ g.at = "after" /\ g.table = o
      BY <1>2, Zenon DEF FrameType, With
    <2>8. g \in FrameType
      BY <1>2, <2>2, <2>6, Zenon DEF FrameType, With
    <2> HIDE DEF g
    <2>9. Top.table.names \in Seq(Keys)
      BY <1>2, Zenon DEF FrameType, Table
    <2>10. Used(g) = Used(Top) \union {Top.key}
      <3>1. g.table.names = Append(Top.table.names, Top.key) /\ g.type = "object"
        BY <1>1, <2>5, <2>7
      <3> QED
        BY <1>1, <1>3, <2>9, <3>1, UsedAfterAdd
    <2>11. Used(g) = UsedWith(Top.type, Used(Top), Top.key)
      BY <1>1, <2>10 DEF UsedWith
    <2>12. Top.key \notin Used(Top)
      BY <1>4, <1>8
    <2> QED
      BY <1>1, <1>8, <2>1, <2>7, <2>8, <2>11, <2>12, TakesValue
  <1> QED
    BY <1>5, <1>6, <1>7, <1>8 DEF ObjectAdd

-----------------------------------------------------------------------------
(* The items of an array, what follows both, and the root.                 *)

LEMMA StartInGrammar ==
    ASSUME ParserInv, GrammarInv, ArrayStarts
    PROVE  GrammarInv'
  <1>1. /\ mode = "run" /\ Top.type = "array" /\ Top.at \in {"first", "comma"}
        /\ text' = text /\ failures' = failures
    BY Zenon DEF ArrayStarts
  <1>2. CASE Token = Close(Top.type) /\ pos' = pos + 1 /\ Finish(Top)
    BY <1>1, <1>2, FinishRunning
  <1>3. CASE /\ Token # Close("array") /\ mode' = "call" /\ Goes("value")
             /\ pos' = pos
    <2>1. /\ stack # <<>> /\ Len(stack) \in 1 .. MAX_NESTING + 1
          /\ Len(text) \in Nat /\ pos \in 1 .. Len(text) + 1
          /\ Token = IF pos <= Len(text) THEN text[pos] ELSE "end"
      BY <1>1, WhileRunning
    <2>2. PICK g \in FrameType : /\ stack' = [stack EXCEPT ![Len(stack)] = g]
                                 /\ g.type = Top.type /\ g.key = Top.key
                                 /\ Used(g) = Used(Top)
      BY <1>3, <2>1, GoesOn
    <2>3. pos \in 1 .. Len(text) => text[pos] # Close("array")
      BY <1>3, <2>1
    <2>4. Len(stack) \in 0 .. MAX_NESTING + 1 /\ pos' \in Nat \ {0}
      BY <1>3, <2>1
    <2>5. Ends(text, Top, Len(stack), pos)
            = {j \in 1 .. Len(text) : \E m \in pos .. Len(text) :
                 /\ IsValue(text, pos, m, Len(stack))
                 /\ EndsAfter(text, g, Len(stack), m, j)}
      <3>1. PICK f, i, depth : f = Top /\ i = pos /\ depth = Len(stack)
        OBVIOUS
      <3>2. Ends(text, f, depth, i)
              = {j \in 1 .. Len(text) : \E m \in i .. Len(text) :
                   IsValue(text, i, m, depth) /\ EndsAfter(text, g, depth, m, j)}
        <4>1. /\ Len(text) \in Nat /\ depth \in 0 .. MAX_NESTING + 1
              /\ f.type = "array" /\ f.at \in {"first", "comma"}
              /\ i \in 1 .. Len(text) + 1
              /\ i \in 1 .. Len(text) => text[i] # Close("array")
              /\ g.type = f.type /\ g.key = f.key /\ Used(g) = Used(f)
          BY ONLY <1>1, <2>1, <2>2, <2>3, <2>4, <3>1
        <4> QED
          BY ONLY <4>1, ItemNext
      <3> QED
        BY <3>1, <3>2
    <2> QED
      BY <1>1, <1>3, <2>2, <2>4, <2>5, StartsToWait
  <1>4. Close("array") = "]" /\ Close(Top.type) = "]"
    BY <1>1, Zenon DEF Close
  <1> QED
    BY <1>2, <1>3, <1>4, Zenon DEF ArrayStarts

LEMMA ItemInGrammar ==
    ASSUME ParserInv, GrammarInv, ArrayAdd
    PROVE  GrammarInv'
  <1>1. /\ mode = "return" /\ stack # <<>> /\ Top.type = "array"
        /\ text' = text /\ pos' = pos
    BY DEF ArrayAdd
  <1>2. Top \in FrameType
    BY <1>1, TopOK
  <1>3. CASE ret = NULL /\ GiveUp({}) /\ failures' = failures
    BY <1>1, <1>3, GiveUpReturned
  <1>4. CASE Fails /\ GiveUp(ret.blocks)
    BY <1>4, Failed DEF GiveUp, Return
  <1> DEFINE full == Len(Top.table.values) >= Top.table.capacity
             new == IF full THEN NewBlocks(1) ELSE Top.room
             room == IF full THEN Larger(Top.table) ELSE Top.table.capacity
  <1>5. CASE /\ ret # NULL
             /\ stack' = [stack EXCEPT ![Len(stack)] =
                    [Top EXCEPT !.at = "after", !.room = new,
                                !.table.values = Append(@, ret),
                                !.table.capacity = IF full THEN Larger(Top.table)
                                                           ELSE @]]
             /\ mode' = "run" /\ failures' = failures
    <2> DEFINE o == [Top.table EXCEPT !.values = Append(@, ret), !.capacity = room]
               g == [Top EXCEPT !.at = "after", !.room = new, !.table = o]
    <2>1. new \subseteq Int
      BY <1>2, FreshBlocks, Zenon DEF FrameType
    <2>2. Top.table \in Table
      BY <1>2, Zenon DEF FrameType
    <2>3. room \in Nat
      BY <2>2, CapacityAssumption DEF Table, Larger
    <2>4. stack' = [stack EXCEPT ![Len(stack)] = g]
      BY <1>5
    <2> HIDE DEF room
    <2>5. Append(Top.table.values, ret) \in Seq(Value)
      BY <2>2 DEF Table, ParserInv, BasicOK
    <2>6. o \in Table
      BY <2>2, <2>3, <2>5 DEF Table
    <2> HIDE DEF o, new
    <2>7. g \in FrameType
      BY <1>2, <2>1, <2>6, Zenon DEF FrameType
    <2>8. g.type = Top.type /\ g.at = "after"
      BY <1>2, Zenon DEF FrameType
    <2> HIDE DEF g
    <2>9. Used(g) = UsedWith(Top.type, Used(Top), Top.key)
      BY <1>1, <2>8 DEF Used, UsedWith
    <2> QED
      BY <1>1, <1>5, <2>4, <2>7, <2>8, <2>9, TakesValue
  <1> QED
    BY <1>3, <1>4, <1>5, Zenon DEF ArrayAdd

LEMMA ArrayEndsInGrammar ==
    ASSUME ParserInv, GrammarInv, ArrayEnds
    PROVE  GrammarInv'
  <1>1. /\ mode = "run" /\ Top.at \in {"first", "comma", "after"}
        /\ Token = Close(Top.type) /\ text' = text
    BY Zenon DEF ArrayEnds, Close
  <1>2. CASE Fails /\ GiveUp({})
    BY <1>2, Failed DEF GiveUp, Return
  <1>3. CASE \E new : /\ pos' = pos + 1 /\ Finish([Top EXCEPT !.room = new])
                      /\ failures' = failures
    <2>1. PICK new : Finish([Top EXCEPT !.room = new])
      BY <1>3
    <2> DEFINE g == [Top EXCEPT !.room = new]
    <2>2. Top \in FrameType
      BY <1>1, WhileRunning
    <2>3. g.type = Top.type
      BY <2>2, Zenon DEF FrameType
    <2>4. Finish(g) /\ pos' = pos + 1 /\ failures' = failures
      BY <1>3, <2>1
    <2> HIDE DEF g
    <2> QED
      BY <1>1, <2>3, <2>4, FinishRunning
  <1> QED
    BY <1>2, <1>3, Zenon DEF ArrayEnds

LEMMA CommaInGrammar ==
    ASSUME ParserInv, GrammarInv, After
    PROVE  GrammarInv'
  <1>1. /\ mode = "run" /\ Top.at = "after" /\ Token # Close(Top.type)
        /\ text' = text /\ failures' = failures
    BY Zenon DEF After, Close
  <1>2. /\ stack # <<>> /\ Len(text) \in Nat /\ pos \in 1 .. Len(text) + 1
        /\ Token = IF pos <= Len(text) THEN text[pos] ELSE "end"
        /\ Top.type \in Containers
    BY <1>1, WhileRunning
  <1>3. CASE Token # "," /\ GiveUp({})
    <2>1. pos .. Len(text) = {} \/ Token = text[pos]
      BY ONLY <1>2
    <2>2. pos .. Len(text) = {} \/ text[pos] \notin {Close(Top.type), ","}
      BY <1>1, <1>3, <2>1, Zenon
    <2>3. Ends(text, Top, Len(stack), pos) = {}
      BY <1>1, <1>2, <2>2, NoComma, Zenon
    <2>4. GiveUp({})
      BY <1>3, Zenon
    <2> QED
      BY ONLY ParserInv, GrammarInv, <1>1, <2>3, <2>4, GiveUpRunning
  <1>4. CASE Token = "," /\ pos' = pos + 1 /\ Goes("comma") /\ mode' = mode
    <2>1. pos' = pos + 1 /\ mode' = "run" /\ Goes("comma") /\ text[pos] = Comma
      BY <1>1, <1>2, <1>4, Zenon DEF Comma
    <2>2. pos \in 1 .. Len(text)
      <3>1. Token # "end"
        BY <1>4, Zenon
      <3> QED
        BY ONLY <1>2, <3>1
    <2>3. PICK g \in FrameType : /\ stack' = [stack EXCEPT ![Len(stack)] = g]
                                 /\ g.type = Top.type /\ g.at = "comma"
                                 /\ Used(g) = Used(Top)
      BY <1>2, <2>1, GoesOn, Zenon
    <2>4. Ends(text, g, Len(stack), pos + 1) = Ends(text, Top, Len(stack), pos)
      BY ONLY <1>1, <1>2, <2>1, <2>2, <2>3, CommaRead
    <2>5. pos' = pos + 1 /\ mode' = "run"
      BY <2>1
    <2> QED
      BY ONLY ParserInv, GrammarInv, <1>1, <2>3, <2>4, <2>5, RunsOn
  <1> QED
    BY <1>3, <1>4, Zenon DEF After

LEMMA RootInGrammar ==
    ASSUME ParserInv, GrammarInv, Parsed \/ FreeRoot
    PROVE  GrammarInv'
  <1>1. CASE Parsed
    <2>1. /\ mode = "return" /\ mode' = "parsed"
          /\ UNCHANGED <<text, pos, stack, ret, failures>>
      BY <1>1 DEF Parsed
    <2>2. Waiting' = Waiting /\ Places' = Places
      BY <2>1 DEF Waiting, Places
    <2>3. mode' \in {"return", "parsed"} /\ ret' # NULL => pos' > 1
      BY <2>1 DEF GrammarInv
    <2> QED
      BY <2>1, <2>2, <2>3, SameWaiting
  <1>2. CASE FreeRoot
    BY <1>2 DEF FreeRoot, GrammarInv
  <1> QED
    BY <1>1, <1>2

-----------------------------------------------------------------------------
LEMMA GrammarStep ==
    ASSUME ParserInv, GrammarInv, IsFiniteSet(heap), [Next]_vars
    PROVE  GrammarInv'
  <1>1. CASE ParseValue
    BY <1>1, ValueInGrammar
  <1>2. CASE ObjectKey \/ ObjectColon \/ ObjectAdd \/ ObjectEnds
    BY <1>2, KeyInGrammar, ColonInGrammar, AddInGrammar, EndsInGrammar
  <1>3. CASE ArrayStarts \/ ArrayAdd \/ ArrayEnds
    BY <1>3, StartInGrammar, ItemInGrammar, ArrayEndsInGrammar
  <1>4. CASE After \/ Parsed \/ FreeRoot
    BY <1>4, CommaInGrammar, RootInGrammar
  <1>5. CASE UNCHANGED vars
    <2>1. /\ mode' = mode /\ ret' = ret /\ pos' = pos /\ failures' = failures
          /\ text' = text /\ stack' = stack
      BY <1>5 DEF vars
    <2>2. Waiting' = Waiting /\ Places' = Places
      BY <2>1 DEF Waiting, Places, Top
    <2>3. mode' \in {"return", "parsed"} /\ ret' # NULL => pos' > 1
      BY <2>1 DEF GrammarInv
    <2>4. CASE mode # "done"
      BY <2>1, <2>2, <2>3, <2>4, SameWaiting
    <2>5. CASE mode = "done"
      BY <2>1, <2>3, <2>5 DEF GrammarInv
    <2> QED
      BY <2>4, <2>5
  <1> QED
    BY <1>1, <1>2, <1>3, <1>4, <1>5, Zenon DEF Next

(***************************************************************************)
(* The inductive invariant.                                                *)
(***************************************************************************)
AcceptInv == ParserInv /\ IsFiniteSet(heap) /\ GrammarInv

LEMMA GrammarInit ==
    ASSUME Init
    PROVE  AcceptInv
  <1>1. /\ pos = 1 /\ stack = <<>> /\ mode = "call" /\ heap = {} /\ failures = 0
    BY DEF Init
  <1>2. ParserInv /\ IsFiniteSet(heap)
    BY <1>1, ParserInit, FS_EmptySet
  <1>3. /\ Waiting = 0 /\ Len(stack) = 0
        /\ Places = {j \in 1 .. Len(text) : IsValue(text, 1, j, 0)}
    BY <1>1 DEF Waiting, Places
  <1>4. IsText(text) <=> Places # {}
    BY <1>3, Zenon DEF IsText
  <1>5. CanEnd(text, stack, 0, Places) <=> Places # {}
    <2>1. Places \subseteq 1 .. Len(text)
      BY <1>3
    <2> QED
      BY <2>1, RootEnds
  <1>6. GrammarInv
    BY <1>1, <1>3, <1>4, <1>5 DEF GrammarInv
  <1> QED
    BY <1>2, <1>6 DEF AcceptInv

LEMMA GrammarNext ==
    ASSUME AcceptInv, [Next]_vars
    PROVE  AcceptInv'
  <1>1. ParserInv /\ IsFiniteSet(heap) /\ GrammarInv
    BY DEF AcceptInv
  <1>2. ParserInv' /\ IsFiniteSet(heap') /\ GrammarInv'
    BY <1>1, ParserNext, HeapStaysFinite, GrammarStep
  <1> QED
    BY <1>2, Zenon DEF AcceptInv

LEMMA AcceptInvHolds == Spec => []AcceptInv
  BY GrammarInit, GrammarNext, PTL DEF Spec

(***************************************************************************)
(* Whatever the text, as long as memory lasts the parser accepts it if and *)
(* only if it begins with a value of the grammar (json_parse_string,       *)
(* parse_value, parse_object_value, parse_array_value).                    *)
(***************************************************************************)
THEOREM GrammarCorrect == Spec => []AcceptsTheGrammar
  <1>1. ASSUME AcceptInv
        PROVE  AcceptsTheGrammar
    <2>1. ParserInv /\ GrammarInv
      BY <1>1 DEF AcceptInv
    <2>2. SUFFICES ASSUME mode = "parsed", failures = 0
                   PROVE  ret # NULL <=> IsText(text)
      BY DEF AcceptsTheGrammar
    <2>3. /\ stack = <<>> /\ Len(text) \in Nat /\ pos \in 1 .. Len(text) + 1
      BY <2>1, <2>2 DEF ParserInv, BasicOK, CallsOK
    <2>4. Waiting = 0 /\ Places = IF ret = NULL THEN {} ELSE {pos - 1}
      BY <2>2, <2>3 DEF Waiting, Places
    <2>5. Places \subseteq 1 .. Len(text)
      <3>1. ret # NULL => pos > 1
        BY <2>1, <2>2 DEF GrammarInv
      <3> QED
        BY <2>3, <2>4, <3>1
    <2>6. IsText(text) <=> CanEnd(text, stack, 0, Places)
      BY <2>1, <2>2, <2>4 DEF GrammarInv
    <2>7. CanEnd(text, stack, 0, Places) <=> Places # {}
      BY <2>5, RootEnds
    <2> QED
      BY <2>4, <2>6, <2>7
  <1> QED
    BY <1>1, AcceptInvHolds, PTL
=============================================================================
