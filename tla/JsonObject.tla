----------------------------- MODULE JsonObject -----------------------------
(***************************************************************************)
(* The hash table in which parson keeps the members of a JSON object:      *)
(* names and values in the order in which they were added, and cells that  *)
(* hold the number of an item, searched by linear probing.                 *)
(*                                                                         *)
(* Items are numbered from 1, so that a cell holding 0 is one that the     *)
(* code marks with OBJECT_INVALID_IX.  Only what the program uses is here: *)
(* members are added and looked up, never removed.                         *)
(***************************************************************************)
EXTENDS Integers, Sequences

CONSTANTS
    Keys,
    HashOf,              \* hash_string: Keys -> Nat
    STARTING_CAPACITY    \* a power of two; 16 in parson.c

ASSUME HashAssumption == HashOf \in [Keys -> Nat]
ASSUME CapacityAssumption == STARTING_CAPACITY \in Nat \ {0, 1}

Free == 0
Nowhere == -1

Count(o) == Len(o.names)

(***************************************************************************)
(* At most seven in ten cells are used.                                    *)
(***************************************************************************)
ItemCapacity_Full(capacity) == capacity + 1
ItemCapacity(capacity) == (capacity * 7) \div 10

NewTable(capacity) ==
    [capacity |-> capacity, cells |-> [ix \in 0 .. capacity - 1 |-> Free],
     names |-> <<>>, values |-> <<>>]

(***************************************************************************)
(* json_object_get_cell_ix: from the key's own cell on, the first that is  *)
(* free or has the key.  Capacities are powers of two, so that masking the *)
(* hash is taking a remainder; comparing the hashes first saves time only. *)
(***************************************************************************)
CellFrom(o, key, i) == (HashOf[key] + i) % o.capacity

StopsAt(o, key, ix) ==
    \/ o.cells[ix] = Free
    \/ o.names[o.cells[ix]] = key

CellOf_Home(o, key) == IF o.capacity = 0 THEN Nowhere ELSE CellFrom(o, key, 0)
CellOf(o, key) ==
    LET stops == {i \in 0 .. o.capacity - 1 : StopsAt(o, key, CellFrom(o, key, i))}
    IN  IF stops = {} THEN Nowhere
        ELSE CellFrom(o, key, CHOOSE i \in stops : \A j \in stops : i <= j)

Found(o, key) == CellOf(o, key) # Nowhere /\ o.cells[CellOf(o, key)] # Free

(***************************************************************************)
(* The end of json_object_add, into a table with room.                     *)
(***************************************************************************)
Put(o, key, value) ==
    [o EXCEPT !.cells[CellOf(o, key)] = Count(o) + 1,
              !.names = Append(@, key), !.values = Append(@, value)]

(***************************************************************************)
(* json_object_grow_and_rehash: the items are added again, in their order. *)
(***************************************************************************)
Larger(o) == IF 2 * o.capacity > STARTING_CAPACITY THEN 2 * o.capacity
                                                   ELSE STARTING_CAPACITY
Grown(o) ==
    LET table[n \in 0 .. Count(o)] ==
          IF n = 0 THEN NewTable(Larger(o))
                   ELSE Put(table[n - 1], o.names[n], o.values[n])
    IN  table[Count(o)]

MustGrow(o) == Count(o) >= ItemCapacity(o.capacity)

Added(o, key, value) == Put(IF MustGrow(o) THEN Grown(o) ELSE o, key, value)

(***************************************************************************)
(* json_object_getn_value.                                                 *)
(***************************************************************************)
Get(o, key, NULL) == IF Found(o, key) THEN o.values[o.cells[CellOf(o, key)]]
                                      ELSE NULL
=============================================================================
