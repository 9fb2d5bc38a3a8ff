--------------------------- MODULE GoServerProofs ---------------------------
(***************************************************************************)
(* Proofs about the Go server, for every number of goroutines, clients and *)
(* history positions and whatever capacities append chooses: the slices    *)
(* getClientInfo gives away uncopied are never written to again, the       *)
(* histories are windows of what was stored, and the server implements     *)
(* MonitorStore: its reports take effect with their last append, its views *)
(* when getClientInfo runs; and it uses its lock as RWMutex has it.        *)
(***************************************************************************)
EXTENDS GoServer, SequenceTheorems, FiniteSetTheorems, TLAPS

-----------------------------------------------------------------------------
(* Slices over arrays.                                                     *)

Header == [array : Nat, offset : Nat, len : Nat, cap : Nat]
Arrays == Seq(Seq(Nat))

(***************************************************************************)
(* The slice the map holds: it lies in the youngest array and reaches to   *)
(* that array's end.                                                       *)
(***************************************************************************)
SliceOn(slice, arrays) ==
    /\ arrays \in Arrays
    /\ slice \in Header
    /\ slice.len <= HISTORY_SIZE
    /\ slice.len <= slice.cap
    /\ slice.cap <= MaxCap
    /\ slice.array = Len(arrays)
    /\ slice.array > 0
    /\ Len(arrays[slice.array]) = slice.offset + slice.cap

(***************************************************************************)
(* A slice given away earlier lies in an older array, or ends no later.    *)
(***************************************************************************)
Behind(old, slice) ==
    /\ old \in Header
    /\ old.array > 0
    /\ \/ old.array < slice.array
       \/ old.array = slice.array /\ old.offset + old.len <= slice.offset + slice.len

LEMMA NewSliceOn ==
    /\ SliceOn(NewSlice, NewArrays)
    /\ Contents(NewSlice, NewArrays) = << >>
  <1>1. HISTORY_SIZE \in Nat \ {0} /\ MaxCap \in Nat /\ MaxCap >= HISTORY_SIZE
    BY SizesAssumption
  <1>2. [k \in 1..HISTORY_SIZE |-> 0] \in Seq(Nat) /\ Len([k \in 1..HISTORY_SIZE |-> 0]) = HISTORY_SIZE
    BY <1>1, IsASeq
  <1>3. NewArrays \in Seq(Seq(Nat)) /\ Len(NewArrays) = 1
        /\ NewArrays[1] = [k \in 1..HISTORY_SIZE |-> 0]
    BY <1>2 DEF NewArrays
  <1> QED BY <1>1, <1>2, <1>3 DEF SliceOn, NewSlice, Contents, Header, Arrays

LEMMA TrimmedOn ==
    ASSUME NEW slice, NEW arrays, SliceOn(slice, arrays)
    PROVE  /\ SliceOn(Trimmed(slice), arrays)
           /\ Trimmed(slice).len < HISTORY_SIZE
           /\ Trimmed(slice).array = slice.array
           /\ Trimmed(slice).offset + Trimmed(slice).len = slice.offset + slice.len
           /\ Trimmed(slice).len = IF slice.len < HISTORY_SIZE THEN slice.len
                                   ELSE HISTORY_SIZE - 1
  <1>1. /\ slice.array \in Nat /\ slice.offset \in Nat
        /\ slice.len \in Nat /\ slice.cap \in Nat
        /\ slice.len <= HISTORY_SIZE /\ slice.len <= slice.cap /\ slice.cap <= MaxCap
        /\ HISTORY_SIZE \in Nat \ {0} /\ MaxCap \in Nat
    BY SizesAssumption DEF SliceOn, Header
  <1>2. CASE slice.len < HISTORY_SIZE
    BY <1>1, <1>2 DEF Trimmed
  <1>3. CASE ~ (slice.len < HISTORY_SIZE)
    <2>1. /\ Trimmed(slice) \in Header
          /\ Trimmed(slice).array = slice.array
          /\ Trimmed(slice).offset = slice.offset + 1
          /\ Trimmed(slice).len = slice.len - 1
          /\ Trimmed(slice).cap = slice.cap - 1
      <3>1. slice \in Header /\ slice.len >= HISTORY_SIZE
        BY <1>1, <1>3 DEF SliceOn
      <3>2. Trimmed(slice) = [array  |-> slice.array,
                              offset |-> slice.offset + 1,
                              len    |-> slice.len - 1,
                              cap    |-> slice.cap - 1]
        BY <3>1 DEF Trimmed, Header
      <3>3. slice.offset + 1 \in Nat /\ slice.len - 1 \in Nat /\ slice.cap - 1 \in Nat
        BY <1>1, <1>3
      <3> QED BY <1>1, <3>2, <3>3 DEF Header
    <2>2. slice.len = HISTORY_SIZE
      BY <1>1, <1>3
    <2>3. SliceOn(Trimmed(slice), arrays)
      <3>1. /\ Trimmed(slice).len <= HISTORY_SIZE
            /\ Trimmed(slice).len <= Trimmed(slice).cap
            /\ Trimmed(slice).cap <= MaxCap
            /\ Trimmed(slice).offset + Trimmed(slice).cap = slice.offset + slice.cap
        BY <1>1, <2>1, <2>2
      <3> QED BY <2>1, <3>1 DEF SliceOn
    <2> QED BY <1>1, <2>1, <2>2, <2>3
  <1> QED BY <1>2, <1>3

(***************************************************************************)
(* What append does to the arrays: what the slice held is followed by the  *)
(* new element, and nothing up to its old end, or in an older array, is    *)
(* written.                                                                *)
(***************************************************************************)
LEMMA Appended ==
    ASSUME NEW slice, NEW arrays, SliceOn(slice, arrays), slice.len < HISTORY_SIZE,
           NEW v \in Nat, NEW newcap \in Capacities(slice)
    PROVE  LET long == AppendSlice(slice, newcap)
               after == AppendArrays(slice, arrays, v, newcap)
           IN  /\ SliceOn(long, after)
               /\ long.len = slice.len + 1
               /\ \A k \in 1..slice.len :
                    after[long.array][long.offset + k] = arrays[slice.array][slice.offset + k]
               /\ after[long.array][long.offset + long.len] = v
               /\ \A a \in 1..Len(arrays) : a # slice.array => after[a] = arrays[a]
               /\ \A p \in 1..(slice.offset + slice.len) :
                    after[slice.array][p] = arrays[slice.array][p]
               /\ \/ long.array > slice.array
                  \/ /\ long.array = slice.array
                     /\ long.offset + long.len = slice.offset + slice.len + 1
  <1> DEFINE long == AppendSlice(slice, newcap)
             after == AppendArrays(slice, arrays, v, newcap)
             base == arrays[slice.array]
             n == Len(arrays)
  <1>1. /\ arrays \in Seq(Seq(Nat)) /\ slice \in Header /\ n \in Nat
        /\ slice.array = n /\ n \in 1..n /\ base \in Seq(Nat)
        /\ Len(base) = slice.offset + slice.cap
        /\ slice.len <= slice.cap /\ slice.cap <= MaxCap /\ slice.len < HISTORY_SIZE
        /\ HISTORY_SIZE \in Nat /\ MaxCap \in Nat
        /\ slice.array \in Nat /\ slice.offset \in Nat
        /\ slice.len \in Nat /\ slice.cap \in Nat
    BY SizesAssumption DEF SliceOn, Header, Arrays
  <1>4. /\ slice.offset \in Nat /\ slice.len \in Nat /\ slice.cap \in Nat
        /\ slice.len <= slice.cap /\ Len(base) = slice.offset + slice.cap
    BY <1>1
  <1>2. CASE slice.len < slice.cap
    <2> DEFINE pos == slice.offset + slice.len + 1
               written1 == [base EXCEPT ![pos] = v]
    <2>1. /\ long = [array  |-> slice.array, offset |-> slice.offset,
                     len    |-> slice.len + 1, cap    |-> slice.cap]
          /\ after = [arrays EXCEPT ![n] = written1]
      BY <1>1, <1>2 DEF AppendSlice, AppendArrays, Header
    <2>2. pos \in 1..Len(base) /\ pos = slice.offset + slice.len + 1
      BY <1>1, <1>2 DEF Header
    <2>3. /\ written1 \in Seq(Nat) /\ Len(written1) = Len(base)
          /\ \A j \in 1..Len(base) : written1[j] = IF j = pos THEN v ELSE base[j]
      <3> HIDE DEF pos, base
      <3> QED BY <1>1, <2>2, ExceptSeq
    <2>4. /\ after \in Seq(Seq(Nat)) /\ Len(after) = n
          /\ \A a \in 1..n : after[a] = IF a = n THEN written1 ELSE arrays[a]
      <3> HIDE DEF written1
      <3> QED BY <1>1, <2>1, <2>3, ExceptSeq
    <2>5. /\ long \in Header /\ long.array = n /\ long.offset = slice.offset
          /\ long.len = slice.len + 1 /\ long.cap = slice.cap
      BY <1>1, <2>1 DEF Header
    <2>6. /\ after[n] = written1
          /\ \A p \in 1..(slice.offset + slice.len) : p \in 1..Len(base) /\ p # pos
          /\ \A k \in 1..slice.len : slice.offset + k \in 1..(slice.offset + slice.len)
      <3> HIDE DEF after, written1, base, n, pos
      <3>1. after[n] = written1
        BY <1>1, <2>4
      <3>2. \A p \in 1..(slice.offset + slice.len) : p \in 1..Len(base) /\ p # pos
        BY <1>2, <1>4, <2>2
      <3>3. \A k \in 1..slice.len : slice.offset + k \in 1..(slice.offset + slice.len)
        BY <1>4
      <3> QED BY <3>1, <3>2, <3>3
    <2> HIDE DEF long, after, written1, base, n, pos
    <2>7. SliceOn(long, after)
      <3>1. long.len <= HISTORY_SIZE /\ long.len <= long.cap /\ long.cap <= MaxCap
        BY <1>1, <1>2, <2>5
      <3>2. /\ long.array = Len(after) /\ long.array > 0
            /\ Len(after[long.array]) = long.offset + long.cap
        BY <1>1, <2>3, <2>4, <2>5, <2>6
      <3> QED BY <2>4, <2>5, <3>1, <3>2 DEF SliceOn, Arrays
    <2>8. \A p \in 1..(slice.offset + slice.len) : after[n][p] = base[p]
      BY <2>3, <2>6
    <2>9. \A k \in 1..slice.len : after[long.array][long.offset + k] = base[slice.offset + k]
      BY <2>5, <2>6, <2>8
    <2>10. after[long.array][long.offset + long.len] = v
      <3>1. long.offset + long.len = pos
        BY <1>1, <2>2, <2>5, SMTT(30)
      <3> QED BY <2>2, <2>3, <2>5, <2>6, <3>1
    <2>11. \A a \in 1..n : a # slice.array => after[a] = arrays[a]
      BY <1>1, <2>4
    <2>12. long.offset + long.len = slice.offset + slice.len + 1
      BY <1>1, <2>5
    <2> QED BY <1>1, <2>5, <2>7, <2>8, <2>9, <2>10, <2>11, <2>12 DEF n, base, long, after
  <1>3. CASE ~ (slice.len < slice.cap)
    <2> DEFINE fresh == [k \in 1..newcap |->
                           IF k <= slice.len THEN base[slice.offset + k]
                           ELSE IF k = slice.len + 1 THEN v ELSE 0]
    <2>1. /\ long = [array |-> n + 1, offset |-> 0, len |-> slice.len + 1, cap |-> newcap]
          /\ after = Append(arrays, fresh)
      BY <1>1, <1>3 DEF AppendSlice, AppendArrays
    <2>2. newcap \in (slice.len + 1)..MaxCap /\ slice.len \in Nat /\ slice.offset \in Nat
      BY <1>1, <1>3 DEF Capacities, Header
    <2>3. \A k \in 1..slice.len : base[slice.offset + k] \in Nat
      <3>1. \A k \in 1..slice.len : slice.offset + k \in 1..Len(base)
        BY <1>1, <2>2, SMTT(30) DEF Header
      <3> HIDE DEF base
      <3> QED BY <1>1, <3>1, ElementOfSeq
    <2>4. fresh \in Seq(Nat) /\ Len(fresh) = newcap
      <3>1. \A k \in 1..newcap : fresh[k] \in Nat
        BY <1>1, <2>2, <2>3
      <3> QED BY <1>1, <2>2, <3>1, IsASeq
    <2>5. /\ \A k \in 1..slice.len : fresh[k] = base[slice.offset + k]
          /\ fresh[slice.len + 1] = v
      <3>1. slice.len + 1 \in 1..newcap /\ ~ (slice.len + 1 <= slice.len)
        BY <2>2
      <3>2. \A k \in 1..slice.len : k \in 1..newcap /\ k <= slice.len
        BY <2>2
      <3> HIDE DEF base
      <3> QED BY <3>1, <3>2
    <2>6. /\ after \in Seq(Seq(Nat)) /\ Len(after) = n + 1 /\ after[n + 1] = fresh
          /\ \A a \in 1..n : after[a] = arrays[a]
      <3> HIDE DEF fresh
      <3> QED BY <1>1, <2>1, <2>4, AppendProperties
    <2>7. /\ long \in Header /\ long.array = n + 1 /\ long.offset = 0
          /\ long.len = slice.len + 1 /\ long.cap = newcap
      BY <1>1, <2>1, <2>2 DEF Header
    <2> HIDE DEF long, after, fresh, base, n
    <2>8. SliceOn(long, after)
      <3>1. long.len <= HISTORY_SIZE /\ long.len <= long.cap /\ long.cap <= MaxCap
        BY <1>1, <2>2, <2>7
      <3>2. /\ long.array = Len(after) /\ long.array > 0
            /\ Len(after[long.array]) = long.offset + long.cap
        BY <1>1, <2>2, <2>4, <2>6, <2>7
      <3> QED BY <2>6, <2>7, <3>1, <3>2 DEF SliceOn, Arrays
    <2>9. /\ \A k \in 1..slice.len :
               after[long.array][long.offset + k] = base[slice.offset + k]
          /\ after[long.array][long.offset + long.len] = v
      BY <2>2, <2>5, <2>6, <2>7
    <2>10. after[n] = base
      BY <1>1, <2>6 DEF n, base
    <2> QED BY <1>1, <2>6, <2>7, <2>8, <2>9, <2>10, SMTT(30) DEF n, base, long, after
  <1> QED BY <1>2, <1>3

(***************************************************************************)
(* handlePut's trimming and append: no slice given away earlier can tell   *)
(* the difference.                                                         *)
(***************************************************************************)
LEMMA PushKeepsOld ==
    ASSUME NEW slice, NEW arrays, SliceOn(slice, arrays),
           NEW v \in Nat, NEW newcap \in Capacities(Trimmed(slice)),
           NEW old, Behind(old, slice)
    PROVE  LET long == AppendSlice(Trimmed(slice), newcap)
               after == AppendArrays(Trimmed(slice), arrays, v, newcap)
           IN  Behind(old, long) /\ Contents(old, after) = Contents(old, arrays)
  <1> DEFINE short == Trimmed(slice)
             long == AppendSlice(short, newcap)
             after == AppendArrays(short, arrays, v, newcap)
  <1>1. /\ SliceOn(short, arrays) /\ short.len < HISTORY_SIZE
        /\ short.array = slice.array
        /\ short.offset + short.len = slice.offset + slice.len
    BY TrimmedOn
  <1>2. /\ SliceOn(long, after)
        /\ \A a \in 1..Len(arrays) : a # short.array => after[a] = arrays[a]
        /\ \A p \in 1..(short.offset + short.len) : after[short.array][p] = arrays[short.array][p]
        /\ \/ long.array > short.array
           \/ /\ long.array = short.array
              /\ long.offset + long.len = short.offset + short.len + 1
    BY <1>1, Appended
  <1> HIDE DEF short, long, after
  <1>3. /\ old.array \in Nat /\ old.offset \in Nat /\ old.len \in Nat /\ old.array > 0
        /\ slice.array \in Nat /\ slice.offset \in Nat /\ slice.len \in Nat
        /\ long.array \in Nat /\ long.offset \in Nat /\ long.len \in Nat
        /\ short.offset \in Nat /\ short.len \in Nat
    BY <1>1, <1>2 DEF Behind, SliceOn, Header
  <1>4. slice.array = Len(arrays)
    BY DEF SliceOn
  <1>8. /\ old.array < slice.array
             \/ (old.array = slice.array /\ old.offset + old.len <= slice.offset + slice.len)
        /\ long.array > slice.array
             \/ (long.array = slice.array
                  /\ long.offset + long.len = slice.offset + slice.len + 1)
    BY <1>1, <1>2 DEF Behind
  <1>9. \/ old.array < long.array
        \/ (old.array = long.array /\ old.offset + old.len <= long.offset + long.len)
    BY <1>3, <1>8
  <1>5. Behind(old, long)
    BY <1>3, <1>9 DEF Behind
  <1>6. ASSUME NEW k \in 1..old.len
        PROVE  after[old.array][old.offset + k] = arrays[old.array][old.offset + k]
    <2>1. CASE old.array < slice.array
      <3>1. old.array \in 1..Len(arrays) /\ old.array # short.array
        BY <1>1, <1>3, <1>4, <2>1, SMTT(30)
      <3> QED BY <1>2, <3>1
    <2>2. CASE old.array = slice.array /\ old.offset + old.len <= slice.offset + slice.len
      <3>1. old.offset + k \in 1..(short.offset + short.len)
        BY <1>1, <1>3, <2>2
      <3> QED BY <1>1, <1>2, <2>2, <3>1
    <2> QED BY <2>1, <2>2 DEF Behind
  <1>7. Contents(old, after) = Contents(old, arrays)
    BY <1>6 DEF Contents
  <1> QED BY <1>5, <1>7 DEF short, long, after

(***************************************************************************)
(* ... and the slice of the map goes from the window of a log to the       *)
(* window of the log with one entry more.                                  *)
(***************************************************************************)
LEMMA PushMovesWindow ==
    ASSUME NEW slice, NEW arrays, SliceOn(slice, arrays),
           NEW l \in Seq(Entry), NEW e \in Entry, NEW field \in {"report", "time"},
           Contents(slice, arrays) = WindowOf(l, field),
           NEW newcap \in Capacities(Trimmed(slice)), e[field] \in Nat
    PROVE  LET long == AppendSlice(Trimmed(slice), newcap)
               after == AppendArrays(Trimmed(slice), arrays, e[field], newcap)
           IN  /\ SliceOn(long, after)
               /\ Contents(long, after) = WindowOf(Append(l, e), field)
  <1> DEFINE short == Trimmed(slice)
             long == AppendSlice(short, newcap)
             after == AppendArrays(short, arrays, e[field], newcap)
             n == Len(l)
             h == IF n < HISTORY_SIZE THEN n ELSE HISTORY_SIZE
             g == IF n + 1 < HISTORY_SIZE THEN n + 1 ELSE HISTORY_SIZE
             more == Append(l, e)
  <1>1. /\ SliceOn(short, arrays) /\ short.len < HISTORY_SIZE
        /\ short.array = slice.array
        /\ short.offset + short.len = slice.offset + slice.len
        /\ short.len = IF slice.len < HISTORY_SIZE THEN slice.len ELSE HISTORY_SIZE - 1
    BY TrimmedOn
  <1>2. /\ SliceOn(long, after) /\ long.len = short.len + 1
        /\ \A k \in 1..short.len :
             after[long.array][long.offset + k] = arrays[short.array][short.offset + k]
        /\ after[long.array][long.offset + long.len] = e[field]
    BY <1>1, Appended
  <1>3. /\ Len(more) = n + 1 /\ more[n + 1] = e /\ \A i \in 1..n : more[i] = l[i]
        /\ n \in Nat /\ HISTORY_SIZE \in Nat \ {0} /\ h \in Nat /\ g \in Nat
    BY SizesAssumption
  <1> HIDE DEF short, long, after, more
  <1>4. /\ short.len \in Nat /\ short.offset \in Nat /\ long.len \in Nat
        /\ slice.len \in Nat /\ slice.offset \in Nat
    BY <1>1, <1>2 DEF SliceOn, Header
  <1>5. slice.len = h /\ \A k \in 1..h : arrays[slice.array][slice.offset + k] = l[n - h + k][field]
    <2>1. [k \in 1..slice.len |-> arrays[slice.array][slice.offset + k]]
            = [k \in 1..h |-> l[n - h + k][field]]
      BY DEF Contents, WindowOf
    <2>2. 1..slice.len = 1..h
      BY <2>1
    <2>3. slice.len = h
      <3> HIDE DEF h
      <3> QED BY <1>3, <1>4, <2>2
    <2> QED BY <2>1, <2>3
  <1>6. long.len = g /\ short.len = g - 1 /\ g <= n + 1
    BY <1>1, <1>2, <1>3, <1>4, <1>5
  <1>7. ASSUME NEW k \in 1..g
        PROVE  after[long.array][long.offset + k] = more[n + 1 - g + k][field]
    <2>1. CASE k = g
      BY <1>2, <1>3, <1>6, <2>1
    <2>2. CASE k # g
      <3>1. k \in 1..short.len /\ n + 1 - g + k \in 1..n
        BY <1>3, <1>6, <2>2
      <3>2. after[long.array][long.offset + k] = arrays[slice.array][short.offset + k]
        BY <1>1, <1>2, <3>1
      <3> DEFINE j == h - (g - 1) + k
      <3>3. /\ short.offset + k = slice.offset + j
            /\ j \in 1..h /\ n - h + j = n + 1 - g + k
        <4>1. short.len = g - 1 /\ slice.len = h
          BY <1>5, <1>6
        <4>2. k \in Nat /\ 1 <= k /\ k <= g - 1 /\ g - 1 <= h
          <5>1. k \in Nat /\ 1 <= k /\ k <= g - 1
            BY <1>4, <3>1, <4>1
          <5>2. g - 1 <= h
            BY <1>3
          <5> QED BY <5>1, <5>2
        <4>3. short.offset + (g - 1) = slice.offset + h
          BY <1>1, <4>1
        <4>4. n \in Nat /\ h \in Nat /\ g \in Nat /\ short.offset \in Nat /\ slice.offset \in Nat
          BY <1>3, <1>4
        <4>5. j = h - (g - 1) + k /\ j \in Int
          BY <4>2, <4>4
        <4> HIDE DEF h, g, n, j
        <4>6. short.offset + k = slice.offset + j
          BY <4>2, <4>3, <4>4, <4>5, SMTT(30)
        <4>7. j \in 1..h
          BY <4>2, <4>4, <4>5
        <4> QED BY <4>2, <4>4, <4>5, <4>6, <4>7
      <3> HIDE DEF j, h, g
      <3>4. arrays[slice.array][short.offset + k] = l[n - h + j][field]
        BY <1>5, <3>3
      <3> QED BY <1>3, <3>1, <3>2, <3>3, <3>4
    <2> QED BY <2>1, <2>2
  <1>8. Contents(long, after) = [k \in 1..g |-> more[n + 1 - g + k][field]]
    BY <1>6, <1>7 DEF Contents
  <1>9. WindowOf(more, field) = [k \in 1..g |-> more[n + 1 - g + k][field]]
    <2> DEFINE Kept(m) == IF m < HISTORY_SIZE THEN m ELSE HISTORY_SIZE
    <2>1. WindowOf(more, field) =
            [k \in 1..Kept(Len(more)) |-> more[Len(more) - Kept(Len(more)) + k][field]]
      BY DEF WindowOf
    <2>2. Kept(n + 1) = g
      OBVIOUS
    <2> HIDE DEF Kept, n, g
    <2> QED BY <1>3, <2>1, <2>2, SMTT(30)
  <1> QED BY <1>2, <1>8, <1>9 DEF long, after, more, short

-----------------------------------------------------------------------------
(* The map of clients.                                                     *)

Field(s) == IF s = "time" THEN "time" ELSE "report"

Stored(c) ==
    /\ clients[c] \in ClientHistory
    /\ DOMAIN heap[c] = Series
    /\ \A s \in Series : SliceOn(clients[c].history[s], heap[c][s])

MapOK ==
    /\ DOMAIN heap = DOMAIN clients
    /\ DOMAIN clients \subseteq ClientIds
    /\ \A c \in DOMAIN clients : Stored(c)

(***************************************************************************)
(* One writer at a time, none of them inside together with readers, and    *)
(* whoever waits has been put on the list that Unlock lets in.             *)
(***************************************************************************)
LockOK ==
    /\ \A t \in Threads : pc[t] \in {"drain", "store", "unlock"} \union Series <=> writer = t
    /\ \A t \in Threads : pc[t] \in {"store", "unlock"} \union Series => readers = {}
    /\ \A t \in Threads : pc[t] \in {"collect", "runlock"} => t \in readers
    /\ \A t \in readers : pc[t] \in {"rwait", "collect", "runlock"}
    /\ \A t \in rwait : pc[t] = "rwait" /\ t \notin readers

(***************************************************************************)
(* While the goroutine t is at the appends of its report, the slice of the *)
(* series s may already have it.                                           *)
(***************************************************************************)
Ahead(t, s) ==
    \/ pc[t] = "mem" /\ s = "load"
    \/ pc[t] = "time" /\ s \in {"load", "mem"}

(***************************************************************************)
(* At every moment a slice holds the window of what was stored, or, when   *)
(* the goroutine that holds the lock is past it, the window as it will be; *)
(* a client whose first report is still to be appended has an empty log.   *)
(***************************************************************************)
WindowsOK ==
    /\ \A c \in DOMAIN clients, s \in Series :
         (\A t \in Threads : Ahead(t, s) => req[t].body # c) =>
           Contents(clients[c].history[s], heap[c][s]) = WindowOf(log[c], Field(s))
    /\ \A t \in Threads, s \in Series, e \in Entry :
         Ahead(t, s) /\ e.report = report[t] =>
           LET c == req[t].body IN
             Contents(clients[c].history[s], heap[c][s])
               = WindowOf(Append(log[c], e), Field(s))
    /\ \A c \in ClientIds : log[c] # << >> => c \in DOMAIN clients
    /\ \A c \in DOMAIN clients :
         log[c] # << >> \/ \E t \in Threads : pc[t] \in Series /\ req[t].body = c

(***************************************************************************)
(* A report is only stored from a body that parsed, and only appended to   *)
(* the histories of a client of the map.                                   *)
(***************************************************************************)
ControlOK ==
    \A t \in Threads :
      /\ pc[t] \in {"lock", "drain", "store"} \union Series => req[t].body \in ClientIds
      /\ pc[t] \in Series => req[t].body \in DOMAIN clients

RestOK ==
    /\ now \in Times
    /\ writer \in Threads \union {NoThread}
    /\ readers \subseteq Threads
    /\ rwait \subseteq Threads
    /\ sent \in Serials
    /\ log \in [ClientIds -> Seq(Entry)]
    /\ pc \in [Threads -> Places]
    /\ req \in [Threads -> RequestType]
    /\ report \in [Threads -> Serials]
    /\ reply \in [Threads -> Replies]
    /\ DOMAIN result = Threads
    /\ DOMAIN seen = Threads
    /\ DOMAIN written = Threads

(***************************************************************************)
(* A step of the map as those see it who were given its slices: no client  *)
(* leaves, and what lies behind a slice stays behind it and keeps its      *)
(* elements.                                                               *)
(***************************************************************************)
OldKept ==
    \A c \in DOMAIN clients :
      /\ c \in DOMAIN clients'
      /\ \A s \in Series : \A old :
           Behind(old, clients[c].history[s]) =>
             /\ Behind(old, clients'[c].history[s])
             /\ Contents(old, heap'[c][s]) = Contents(old, heap[c][s])

TableInv == RestOK /\ MapOK /\ ControlOK /\ LockOK /\ WindowsOK

LEMMA SliceOnType ==
    ASSUME NEW slice, NEW arrays, SliceOn(slice, arrays)
    PROVE  slice \in Slice
  <1>1. slice \in Header /\ slice.len \in 0..HISTORY_SIZE /\ slice.cap \in 0..MaxCap
    BY SizesAssumption DEF SliceOn, Header
  <1> QED BY <1>1 DEF Header, Slice

LEMMA EmptyWindow == \A field : WindowOf(<< >>, field) = << >>
  BY SizesAssumption DEF WindowOf

LEMMA StoreMap ==
    ASSUME TableInv, NEW t \in Threads, PutStore(t)
    PROVE  MapOK' /\ WindowsOK' /\ OldKept
  <1> USE DEF TableInv
  <1> DEFINE c == req[t].body
             fresh == [s \in Series |-> NewSlice]
  <1>1. /\ c \in ClientIds /\ now \in Times /\ report[t] \in Serials
        /\ log \in [ClientIds -> Seq(Entry)] /\ log' = log
    BY DEF PutStore, ControlOK, RestOK
  <1>2. /\ DOMAIN clients' = DOMAIN clients \union {c}
        /\ \A d \in DOMAIN clients : d # c => clients'[d] = clients[d]
        /\ clients'[c].last_seen = now /\ clients'[c].latest = report[t]
        /\ clients'[c].history = IF c \in DOMAIN clients THEN clients[c].history ELSE fresh
        /\ clients'[c] = [last_seen |-> now, latest |-> report[t],
                          history |-> clients'[c].history]
    BY DEF PutStore, With
  <1>3. /\ DOMAIN heap' = DOMAIN heap \union {c}
        /\ \A d \in DOMAIN heap : heap'[d] = heap[d]
        /\ c \notin DOMAIN clients => heap'[c] = [s \in Series |-> NewArrays]
    BY DEF PutStore, With, MapOK
  <1>4. \A d \in DOMAIN clients : clients'[d].history = clients[d].history
    BY <1>2
  <1>10. /\ pc[t] = "store" /\ pc' = [pc EXCEPT ![t] = "load"] /\ req' = req
         /\ \A u \in Threads : pc[u] \notin Series
         /\ \A u \in Threads, s \in Series : ~ Ahead(u, s)
    BY DEF PutStore, GoTo, LockOK, Ahead, Series
  <1>5. ASSUME NEW d \in DOMAIN clients', NEW s \in Series
        PROVE  /\ SliceOn(clients'[d].history[s], heap'[d][s])
               /\ Contents(clients'[d].history[s], heap'[d][s]) = WindowOf(log'[d], Field(s))
    <2>1. CASE d \in DOMAIN clients
      BY <1>1, <1>3, <1>4, <1>10, <2>1 DEF MapOK, Stored, WindowsOK
    <2>2. CASE d \notin DOMAIN clients
      <3>1. d = c /\ log'[d] = << >>
        BY <1>1, <1>2, <1>10, <2>2 DEF WindowsOK
      <3>2. clients'[d].history[s] = NewSlice /\ heap'[d][s] = NewArrays
        BY <1>2, <1>3, <2>2, <3>1
      <3> QED BY <3>1, <3>2, NewSliceOn, EmptyWindow
    <2> QED BY <2>1, <2>2
  <1>6. ASSUME NEW d \in DOMAIN clients' PROVE clients'[d] \in ClientHistory
    <2>1. clients'[d].history \in [Series -> Slice]
      <3>1. \A s \in Series : clients'[d].history[s] \in Slice
        BY <1>5, SliceOnType
      <3>2. d \in DOMAIN clients => clients'[d].history \in [Series -> Slice]
        BY <1>4 DEF MapOK, Stored, ClientHistory
      <3>3. d \notin DOMAIN clients => d = c /\ clients'[d].history = fresh
        BY <1>2
      <3> QED BY <3>1, <3>2, <3>3
    <2>2. CASE d = c
      BY <1>1, <1>2, <2>1, <2>2 DEF ClientHistory
    <2>3. CASE d # c
      BY <1>2, <2>3 DEF MapOK, Stored
    <2> QED BY <2>2, <2>3
  <1>7. MapOK'
    BY <1>1, <1>2, <1>3, <1>5, <1>6 DEF MapOK, Stored
  <1>8. WindowsOK'
    <2>1. pc'[t] \in Series /\ \A u \in Threads, s \in Series : ~ Ahead(u, s)'
      BY <1>10 DEF RestOK, Ahead, Series
    <2> QED BY <1>1, <1>2, <1>5, <1>10, <2>1 DEF WindowsOK
  <1>9. OldKept
    BY <1>2, <1>3, <1>4 DEF OldKept, MapOK
  <1> QED BY <1>7, <1>8, <1>9

LEMMA PushMap ==
    ASSUME TableInv, NEW t \in Threads, PutPush(t)
    PROVE  MapOK' /\ WindowsOK' /\ OldKept
  <1> USE DEF TableInv
  <1> DEFINE c == req[t].body
             s0 == pc[t]
             entry == [report |-> report[t], time |-> now]
             value == IF s0 = "time" THEN now ELSE report[t]
             slice == clients[c].history[s0]
             arrays == heap[c][s0]
  <1>1. PICK newcap \in Capacities(Trimmed(slice)) :
          /\ clients' = [clients EXCEPT ![c].history[s0] = AppendSlice(Trimmed(slice), newcap)]
          /\ heap' = [heap EXCEPT ![c][s0] =
                        AppendArrays(Trimmed(slice), arrays, value, newcap)]
    BY DEF PutPush
  <1>2. /\ c \in DOMAIN clients /\ c \in DOMAIN heap /\ c \in ClientIds
        /\ s0 \in Series /\ now \in Times /\ report[t] \in Serials
        /\ log \in [ClientIds -> Seq(Entry)] /\ log[c] \in Seq(Entry)
        /\ clients[c] \in ClientHistory /\ SliceOn(slice, arrays)
        /\ entry \in Entry /\ value \in Nat
    <2>1. s0 \in Series /\ c \in DOMAIN clients /\ c \in ClientIds
      BY DEF PutPush, ControlOK, MapOK
    <2>2. now \in Times /\ report[t] \in Serials /\ log \in [ClientIds -> Seq(Entry)]
      BY DEF RestOK
    <2>3. c \in DOMAIN heap /\ clients[c] \in ClientHistory /\ SliceOn(slice, arrays)
      BY <2>1 DEF MapOK, Stored
    <2>4. entry \in Entry /\ value \in Nat
      BY <2>2, SizesAssumption DEF Entry, Times, Serials
    <2> QED BY <2>1, <2>2, <2>3, <2>4
  <1>3. /\ req' = req /\ report' = report /\ pc' = [pc EXCEPT ![t] = AfterPush[s0]]
        /\ log' = IF s0 = "time" THEN [log EXCEPT ![c] = Append(log[c], entry)] ELSE log
    BY DEF PutPush, GoTo
  <1>4. /\ \A u \in Threads : pc[u] \in Series => u = t
        /\ \A u \in Threads : pc'[u] \in Series => u = t
    <2>1. \A u \in Threads : pc[u] \in Series => u = t
      BY <1>2 DEF LockOK
    <2> QED BY <1>3, <2>1 DEF RestOK
  <1> HIDE DEF s0, entry, value, c
  <1>5. /\ DOMAIN clients' = DOMAIN clients /\ DOMAIN heap' = DOMAIN heap
        /\ \A d \in DOMAIN clients : d # c => clients'[d] = clients[d] /\ heap'[d] = heap[d]
        /\ \A d \in ClientIds : d # c => log'[d] = log[d]
        /\ log'[c] = IF s0 = "time" THEN Append(log[c], entry) ELSE log[c]
    BY <1>1, <1>2, <1>3 DEF MapOK
  <1>6. /\ clients'[c] = [clients[c] EXCEPT !.history[s0] =
                            AppendSlice(Trimmed(slice), newcap)]
        /\ heap'[c] = [heap[c] EXCEPT ![s0] =
                         AppendArrays(Trimmed(slice), arrays, value, newcap)]
    BY <1>1, <1>2
  <1>7. /\ clients'[c].history[s0] = AppendSlice(Trimmed(slice), newcap)
        /\ \A s \in Series : s # s0 => /\ clients'[c].history[s] = clients[c].history[s]
                                      /\ heap'[c][s] = heap[c][s]
    BY <1>2, <1>6 DEF ClientHistory
  <1>8. /\ SliceOn(AppendSlice(Trimmed(slice), newcap),
                   AppendArrays(Trimmed(slice), arrays, value, newcap))
        /\ \A old : Behind(old, slice) =>
             /\ Behind(old, AppendSlice(Trimmed(slice), newcap))
             /\ Contents(old, AppendArrays(Trimmed(slice), arrays, value, newcap))
                  = Contents(old, arrays)
    <2> HIDE DEF slice, arrays
    <2>1. SliceOn(Trimmed(slice), arrays) /\ Trimmed(slice).len < HISTORY_SIZE
      BY <1>2, TrimmedOn
    <2> QED BY <1>1, <1>2, <2>1, Appended, PushKeepsOld
  <1>9. heap'[c][s0] = AppendArrays(Trimmed(slice), arrays, value, newcap)
    <2>1. s0 \in DOMAIN heap[c]
      BY <1>2 DEF MapOK, Stored
    <2> QED BY <1>6, <2>1
  <1>10. MapOK'
    <2>1. \A s \in Series : SliceOn(clients'[c].history[s], heap'[c][s])
      BY <1>2, <1>7, <1>8, <1>9 DEF MapOK, Stored
    <2>2. clients'[c] \in ClientHistory
      <3>1. AppendSlice(Trimmed(slice), newcap) \in Slice
        BY <1>8, SliceOnType
      <3>2. clients[c].history \in [Series -> Slice]
        BY <1>2 DEF ClientHistory
      <3>3. [clients[c].history EXCEPT ![s0] = AppendSlice(Trimmed(slice), newcap)]
              \in [Series -> Slice]
        BY <3>1, <3>2
      <3>4. clients'[c] = [clients[c] EXCEPT !.history =
                [clients[c].history EXCEPT ![s0] = AppendSlice(Trimmed(slice), newcap)]]
        BY <1>6
      <3> QED BY <1>2, <3>3, <3>4 DEF ClientHistory
    <2>3. DOMAIN heap'[c] = Series
      <3>1. DOMAIN heap[c] = Series
        BY <1>2 DEF MapOK, Stored
      <3> QED BY <1>6, <3>1
    <2>4. \A d \in DOMAIN clients' : Stored(d)'
      <3> SUFFICES ASSUME NEW d \in DOMAIN clients' PROVE Stored(d)'
        OBVIOUS
      <3>1. CASE d = c
        BY <2>1, <2>2, <2>3, <3>1 DEF Stored
      <3>2. CASE d # c
        <4>1. Stored(d) /\ clients'[d] = clients[d] /\ heap'[d] = heap[d]
          BY <1>5, <3>2 DEF MapOK
        <4> QED BY <4>1 DEF Stored
      <3> QED BY <3>1, <3>2
    <2> QED BY <1>5, <2>4 DEF MapOK
  <1>11. OldKept
    BY <1>2, <1>5, <1>7, <1>8, <1>9 DEF OldKept
  <1>12. ASSUME NEW e \in Entry, e[Field(s0)] = value
         PROVE  Contents(clients'[c].history[s0], heap'[c][s0])
                  = WindowOf(Append(log[c], e), Field(s0))
    <2>1. Contents(slice, arrays) = WindowOf(log[c], Field(s0))
      <3>1. \A u \in Threads : ~ Ahead(u, s0)
        BY <1>4 DEF Ahead, Series, s0
      <3> QED BY <1>2, <3>1 DEF WindowsOK
    <2>2. Field(s0) \in {"report", "time"} /\ e[Field(s0)] \in Nat
      BY <1>2, <1>12 DEF Field
    <2> HIDE DEF slice, arrays
    <2>3. Contents(AppendSlice(Trimmed(slice), newcap),
                   AppendArrays(Trimmed(slice), arrays, e[Field(s0)], newcap))
            = WindowOf(Append(log[c], e), Field(s0))
      BY <1>1, <1>2, <2>1, <2>2, PushMovesWindow
    <2> QED BY <1>7, <1>9, <1>12, <2>3
  <1>13. WindowsOK'
    <2>1. ASSUME NEW d \in DOMAIN clients', NEW s \in Series,
                 \A u \in Threads : Ahead(u, s)' => req'[u].body # d
          PROVE  Contents(clients'[d].history[s], heap'[d][s]) = WindowOf(log'[d], Field(s))
      <3>1. CASE d # c
        <4>1. \A u \in Threads : Ahead(u, s) => req[u].body # d
          BY <1>4, <3>1 DEF Ahead, Series, c
        <4>2. d \in DOMAIN clients /\ d \in ClientIds
          BY <1>5 DEF MapOK
        <4>3. Contents(clients[d].history[s], heap[d][s]) = WindowOf(log[d], Field(s))
          BY <4>1, <4>2 DEF WindowsOK
        <4> QED BY <1>5, <3>1, <4>2, <4>3
      <3>2. CASE d = c /\ s0 = "time"
        <4>1. log'[d] = Append(log[c], entry)
          BY <1>5, <3>2
        <4>2. CASE s = "time"
          <5>1. entry[Field(s0)] = value
            BY <3>2 DEF Field, entry, value
          <5> QED BY <1>2, <1>12, <3>2, <4>1, <4>2, <5>1
        <4>3. CASE s # "time"
          <5>1. Ahead(t, s) /\ entry.report = report[t]
            BY <3>2, <4>3 DEF Ahead, Series, s0, entry
          <5>2. Contents(clients[c].history[s], heap[c][s])
                  = WindowOf(Append(log[c], entry), Field(s))
            BY <1>2, <5>1 DEF WindowsOK, c
          <5> QED BY <1>7, <3>2, <4>1, <4>3, <5>2
        <4> QED BY <4>2, <4>3
      <3>3. CASE d = c /\ s0 # "time"
        <4>1. ~ Ahead(t, s)'
          BY <1>3, <2>1, <3>3 DEF c
        <4>2. s # s0 /\ ~ Ahead(t, s)
          BY <1>2, <1>3, <3>3, <4>1 DEF Ahead, Series, AfterPush, RestOK, s0
        <4>3. \A u \in Threads : ~ Ahead(u, s)
          BY <1>4, <4>2 DEF Ahead, Series
        <4>4. Contents(clients[c].history[s], heap[c][s]) = WindowOf(log[c], Field(s))
          BY <1>2, <4>3 DEF WindowsOK
        <4> QED BY <1>5, <1>7, <3>3, <4>2, <4>4
      <3> QED BY <3>1, <3>2, <3>3
    <2>2. ASSUME NEW u \in Threads, NEW s \in Series, NEW e \in Entry,
                 Ahead(u, s)', e.report = report'[u]
          PROVE  Contents(clients'[req'[u].body].history[s], heap'[req'[u].body][s])
                   = WindowOf(Append(log'[req'[u].body], e), Field(s))
      <3>1. u = t /\ req'[u].body = c /\ e.report = report[t]
        BY <1>3, <1>4, <2>2 DEF Ahead, Series, c
      <3>2. s0 # "time" /\ (s = s0 \/ (Ahead(t, s) /\ s # s0))
        <4>1. pc'[t] = AfterPush[s0]
          BY <1>3 DEF RestOK
        <4>2. CASE s0 = "load"
          <5>1. pc'[t] = "mem"
            BY <4>1, <4>2 DEF AfterPush
          <5>2. s = "load"
            BY <2>2, <3>1, <5>1 DEF Ahead
          <5> QED BY <4>2, <5>2
        <4>3. CASE s0 = "mem"
          <5>1. pc'[t] = "time"
            BY <4>1, <4>3 DEF AfterPush
          <5>2. s \in {"load", "mem"}
            BY <2>2, <3>1, <5>1 DEF Ahead
          <5> QED BY <4>3, <5>2 DEF Ahead, s0
        <4>4. CASE s0 = "time"
          <5>1. pc'[t] = "unlock"
            BY <4>1, <4>4 DEF AfterPush
          <5> QED BY <2>2, <3>1, <5>1 DEF Ahead
        <4> QED BY <1>2, <4>2, <4>3, <4>4 DEF Series
      <3>3. log'[c] = log[c]
        BY <1>5, <3>2
      <3>4. CASE s = s0
        <4>1. e[Field(s0)] = value
          BY <3>1, <3>2 DEF Field, value
        <4> QED BY <1>12, <3>1, <3>3, <3>4, <4>1
      <3>5. CASE Ahead(t, s) /\ s # s0
        <4>1. Contents(clients[c].history[s], heap[c][s])
                = WindowOf(Append(log[c], e), Field(s))
          BY <3>1, <3>5 DEF WindowsOK, c
        <4> QED BY <1>7, <3>1, <3>3, <3>5, <4>1
      <3> QED BY <3>2, <3>4, <3>5
    <2>3. \A d \in ClientIds : log'[d] # << >> => d \in DOMAIN clients'
      BY <1>2, <1>5 DEF WindowsOK
    <2>4. ASSUME NEW d \in DOMAIN clients'
          PROVE  log'[d] # << >> \/ \E u \in Threads : pc'[u] \in Series /\ req'[u].body = d
      <3>1. d \in DOMAIN clients /\ d \in ClientIds
        BY <1>5 DEF MapOK
      <3>2. CASE d # c
        <4>1. log[d] # << >>
          BY <1>4, <3>1, <3>2 DEF WindowsOK, c
        <4> QED BY <1>5, <3>1, <3>2, <4>1
      <3>3. CASE d = c /\ s0 = "time"
        <4>1. Append(log[c], entry) # << >>
          BY <1>2, AppendProperties
        <4> QED BY <1>5, <3>3, <4>1
      <3>4. CASE d = c /\ s0 # "time"
        <4>1. pc'[t] \in Series
          BY <1>2, <1>3, <3>4 DEF RestOK, Series, AfterPush
        <4> QED BY <1>3, <3>4, <4>1 DEF c
      <3> QED BY <3>2, <3>3, <3>4
    <2> QED BY <2>1, <2>2, <2>3, <2>4 DEF WindowsOK
  <1> QED BY <1>10, <1>11, <1>13

(***************************************************************************)
(* No other step touches the map, or takes a thread to or from its appends.*)
(***************************************************************************)
Appending(t) ==
    /\ pc'[t] \in Series <=> pc[t] \in Series
    /\ pc[t] \in Series => pc'[t] = pc[t] /\ req'[t] = req[t] /\ report'[t] = report[t]

LEMMA MapWriters ==
    ASSUME RestOK, [Next]_vars
    PROVE  \/ UNCHANGED store /\ \A t \in Threads : Appending(t)
           \/ \E t \in Threads : PutStore(t) \/ PutPush(t)
  <1> USE DEF RestOK, Appending, GoTo, Answer, Series
  <1>1. CASE UNCHANGED vars \/ Tick
    BY <1>1 DEF vars, Tick
  <1>2. ASSUME NEW t \in Threads, (\E r \in Requests : Accept(t, r)) \/ Receive(t)
        PROVE  UNCHANGED store /\ \A u \in Threads : Appending(u)
    BY <1>2 DEF Accept, Receive, HandlePut, HandleView, HandleRoot
  <1>3. ASSUME NEW t \in Threads, Lock(t) \/ LockGranted(t) \/ Unlock(t) \/ Send(t)
        PROVE  UNCHANGED store /\ \A u \in Threads : Appending(u)
    BY <1>3 DEF Lock, LockGranted, Unlock, Send
  <1>4. ASSUME NEW t \in Threads, RLock(t) \/ RLockGranted(t) \/ RUnlock(t)
        PROVE  UNCHANGED store /\ \A u \in Threads : Appending(u)
    BY <1>4 DEF RLock, RLockGranted, RUnlock
  <1>5. ASSUME NEW t \in Threads, Collect(t) \/ Encode(t)
        PROVE  UNCHANGED store /\ \A u \in Threads : Appending(u)
    BY <1>5 DEF Collect, Encode
  <1> QED BY <1>1, <1>2, <1>3, <1>4, <1>5 DEF Next, Serve

LEMMA InitTable == Init => TableInv
  BY SizesAssumption, NamesAssumption
  DEF Init, TableInv, RestOK, MapOK, ControlOK, LockOK, WindowsOK, Ahead, EmptyMap,
      NoRequest, RequestType, Times, Serials, Places, Replies, Paths, Series

LEMMA NextRest == TableInv /\ [Next]_vars => RestOK'
  <1> SUFFICES ASSUME TableInv, [Next]_vars PROVE RestOK'
    OBVIOUS
  <1> USE SizesAssumption DEF TableInv, RestOK, GoTo, Answer, Places, Replies, Series
  <1>1. CASE UNCHANGED vars
    BY <1>1 DEF vars, rwmutex, store, locals
  <1>2. CASE Tick
    BY <1>2 DEF Tick, rwmutex, store, locals, Times
  <1>3. ASSUME NEW t \in Threads, NEW r \in Requests, Accept(t, r) PROVE RestOK'
    <2>1. r \in RequestType
      BY NamesAssumption
    <2>2. pc' \in [Threads -> Places] /\ req' \in [Threads -> RequestType]
      BY <1>3, <2>1 DEF Accept
    <2>3. sent' \in Serials /\ report' \in [Threads -> Serials]
      <3>1. CASE r.body \in ClientIds
        <4>1. sent + 1 \in Serials
          BY <1>3, <3>1 DEF Accept, Serials
        <4> QED BY <1>3, <3>1, <4>1 DEF Accept
      <3>2. CASE r.body \notin ClientIds
        BY <1>3, <3>2 DEF Accept, Serials
      <3> QED BY <3>1, <3>2
    <2> QED BY <1>3, <2>2, <2>3 DEF Accept, rwmutex, store, locals
  <1>4. ASSUME NEW t \in Threads, HandlePut(t) PROVE RestOK'
    BY <1>4, ZenonT(60) DEF HandlePut, rwmutex, store
  <1>5. ASSUME NEW t \in Threads, HandleView(t) \/ HandleRoot(t) PROVE RestOK'
    BY <1>5 DEF HandleView, HandleRoot, rwmutex, store, locals
  <1>6. ASSUME NEW t \in Threads, Send(t) PROVE RestOK'
    BY <1>6 DEF Send, rwmutex, store, NoRequest, RequestType, Paths, Serials
  <1>7. ASSUME NEW t \in Threads, Lock(t) \/ LockGranted(t) PROVE RestOK'
    BY <1>7 DEF Lock, LockGranted, rwmutex, store, locals
  <1>8. ASSUME NEW t \in Threads, Unlock(t) PROVE RestOK'
    BY <1>8 DEF Unlock, store
  <1>9. ASSUME NEW t \in Threads, RLock(t) \/ RLockGranted(t) \/ RUnlock(t) PROVE RestOK'
    BY <1>9 DEF RLock, RLockGranted, RUnlock, rwmutex, store, locals
  <1>10. ASSUME NEW t \in Threads, PutStore(t) PROVE RestOK'
    BY <1>10 DEF PutStore, rwmutex, locals
  <1>11. ASSUME NEW t \in Threads, PutPush(t) PROVE RestOK'
    <2>1. req[t].body \in ClientIds /\ [report |-> report[t], time |-> now] \in Entry
      BY <1>11 DEF PutPush, ControlOK, Entry
    <2>2. log' \in [ClientIds -> Seq(Entry)]
      BY <1>11, <2>1 DEF PutPush
    <2>3. AfterPush[pc[t]] \in Places
      BY <1>11 DEF PutPush, AfterPush
    <2> QED BY <1>11, <2>2, <2>3 DEF PutPush, rwmutex, locals
  <1>12. ASSUME NEW t \in Threads, Collect(t) \/ Encode(t) PROVE RestOK'
    <2>1. /\ pc' \in [Threads -> Places] /\ reply' \in [Threads -> Replies]
          /\ DOMAIN written' = Threads
      <3>1. CASE Collect(t)
        BY <3>1 DEF Collect
      <3>2. CASE Encode(t)
        <4>1. CASE Answer(t, IF req[t].path = "data" THEN "data" ELSE "page")
                   /\ UNCHANGED written
          BY <4>1
        <4>2. CASE UNCHANGED <<pc, reply>>
                   /\ \E c \in DOMAIN result[t] : written' = [written EXCEPT ![t] =
                        With(written[t], c, Elements(result[t][c], heap[c]))]
          BY <4>2
        <4> QED BY <3>2, <4>1, <4>2 DEF Encode
      <3> QED BY <1>12, <3>1, <3>2
    <2>2. DOMAIN result' = Threads /\ DOMAIN seen' = Threads
      BY <1>12 DEF Collect, Encode
    <2> QED BY <1>12, <2>1, <2>2 DEF Collect, Encode, rwmutex, store
  <1> QED BY <1>1, <1>2, <1>3, <1>4, <1>5, <1>6, <1>7, <1>8, <1>9, <1>10, <1>11, <1>12
          DEF Next, Receive, Serve

LEMMA NextMap == TableInv /\ [Next]_vars => MapOK' /\ OldKept
  <1> SUFFICES ASSUME TableInv, [Next]_vars PROVE MapOK' /\ OldKept
    OBVIOUS
  <1>1. CASE UNCHANGED store
    BY <1>1 DEF store, TableInv, MapOK, Stored, OldKept
  <1> QED BY <1>1, MapWriters, StoreMap, PushMap DEF TableInv

LEMMA NextControl == TableInv /\ [Next]_vars => ControlOK'
  <1> SUFFICES ASSUME TableInv, [Next]_vars PROVE ControlOK'
    OBVIOUS
  <1>1. DOMAIN clients \subseteq DOMAIN clients'
    BY NextMap DEF OldKept
  <1> USE <1>1 DEF TableInv, RestOK, ControlOK, GoTo, Answer, Series
  <1>2. CASE UNCHANGED vars \/ Tick
    BY <1>2 DEF vars, Tick
  <1>3. ASSUME NEW t \in Threads, (\E r \in Requests : Accept(t, r)) \/ Send(t)
        PROVE  ControlOK'
    BY <1>3 DEF Accept, Send
  <1>4. ASSUME NEW t \in Threads, HandlePut(t) PROVE ControlOK'
    BY <1>4 DEF HandlePut
  <1>5. ASSUME NEW t \in Threads, HandleView(t) \/ HandleRoot(t) PROVE ControlOK'
    BY <1>5 DEF HandleView, HandleRoot
  <1>6. ASSUME NEW t \in Threads, Lock(t) \/ LockGranted(t) \/ Unlock(t) PROVE ControlOK'
    BY <1>6 DEF Lock, LockGranted, Unlock
  <1>7. ASSUME NEW t \in Threads, RLock(t) \/ RLockGranted(t) \/ RUnlock(t) PROVE ControlOK'
    BY <1>7 DEF RLock, RLockGranted, RUnlock
  <1>8. ASSUME NEW t \in Threads, PutStore(t) PROVE ControlOK'
    <2>1. req[t].body \in DOMAIN clients'
      BY <1>8 DEF PutStore, With
    <2> QED BY <1>8, <2>1 DEF PutStore
  <1>9. ASSUME NEW t \in Threads, PutPush(t) PROVE ControlOK'
    BY <1>9 DEF PutPush, AfterPush
  <1>10. ASSUME NEW t \in Threads, Collect(t) \/ Encode(t) PROVE ControlOK'
    BY <1>10 DEF Collect, Encode
  <1> QED BY <1>2, <1>3, <1>4, <1>5, <1>6, <1>7, <1>8, <1>9, <1>10 DEF Next, Receive, Serve

LEMMA NextWindows == TableInv /\ [Next]_vars => WindowsOK'
  <1> SUFFICES ASSUME TableInv, [Next]_vars PROVE WindowsOK'
    OBVIOUS
  <1>1. CASE UNCHANGED store /\ \A t \in Threads : Appending(t)
    <2>1. \A t \in Threads, s \in Series : Ahead(t, s)' <=> Ahead(t, s)
      BY <1>1 DEF Appending, Ahead, Series
    <2>2. \A t \in Threads, s \in Series :
            Ahead(t, s) => req'[t] = req[t] /\ report'[t] = report[t]
      BY <1>1 DEF Appending, Ahead, Series
    <2> QED BY <1>1, <2>1, <2>2 DEF store, TableInv, WindowsOK, Appending
  <1> QED BY <1>1, MapWriters, StoreMap, PushMap DEF TableInv

LEMMA NextLock == TableInv /\ [Next]_vars => LockOK'
  <1> SUFFICES ASSUME RestOK, LockOK, [Next]_vars PROVE LockOK'
    BY DEF TableInv
  <1> USE NamesAssumption DEF LockOK, RestOK, GoTo, Answer, Series
  <1>1. CASE UNCHANGED vars \/ Tick
    BY <1>1 DEF vars, rwmutex, Tick
  <1>2. ASSUME NEW t \in Threads, (\E r \in Requests : Accept(t, r)) \/ Send(t)
        PROVE  LockOK'
    <2>1. CASE Send(t)
      BY <2>1 DEF Send, rwmutex
    <2>2. CASE \E r \in Requests : Accept(t, r)
      BY <2>2 DEF Accept, rwmutex
    <2> QED BY <1>2, <2>1, <2>2
  <1>3. ASSUME NEW t \in Threads, Receive(t) PROVE LockOK'
    <2>1. CASE HandlePut(t)
      BY <2>1, SMTT(30) DEF HandlePut, rwmutex
    <2>2. CASE HandleView(t) \/ HandleRoot(t)
      BY <2>2, ZenonT(60) DEF HandleView, HandleRoot, rwmutex
    <2> QED BY <1>3, <2>1, <2>2 DEF Receive
  <1>4. ASSUME NEW t \in Threads, Lock(t) PROVE LockOK'
    BY <1>4 DEF Lock
  <1>5. ASSUME NEW t \in Threads, LockGranted(t) PROVE LockOK'
    BY <1>5 DEF LockGranted, Drained, rwmutex
  <1>6. ASSUME NEW t \in Threads, Unlock(t) PROVE LockOK'
    <2>1. /\ pc' = [pc EXCEPT ![t] = "send"] /\ writer' = NoThread
          /\ readers' = readers \union rwait /\ rwait' = {} /\ pc[t] = "unlock"
      BY <1>6 DEF Unlock
    <2>2. writer = t /\ t # NoThread
      BY <2>1
    <2>3. \A u \in Threads : pc'[u] \notin {"drain", "store", "unlock"} \union Series
      BY <2>1, <2>2
    <2>4. \A u \in Threads : pc'[u] \in {"collect", "runlock"} => u \in readers'
      BY <2>1
    <2>5. \A u \in readers' : pc'[u] \in {"rwait", "collect", "runlock"}
      BY <2>1
    <2> QED BY <2>1, <2>3, <2>4, <2>5
  <1>7. ASSUME NEW t \in Threads, RLock(t) PROVE LockOK'
    BY <1>7, ZenonT(60) DEF RLock
  <1>8. ASSUME NEW t \in Threads, RLockGranted(t) PROVE LockOK'
    BY <1>8 DEF RLockGranted, rwmutex
  <1>9. ASSUME NEW t \in Threads, RUnlock(t) PROVE LockOK'
    BY <1>9 DEF RUnlock
  <1>10. ASSUME NEW t \in Threads, PutStore(t) \/ PutPush(t) PROVE LockOK'
    BY <1>10 DEF PutStore, PutPush, AfterPush, rwmutex
  <1>11. ASSUME NEW t \in Threads, Collect(t) \/ Encode(t) PROVE LockOK'
    BY <1>11, ZenonT(60) DEF Collect, Encode, rwmutex
  <1> QED BY <1>1, <1>2, <1>3, <1>4, <1>5, <1>6, <1>7, <1>8, <1>9, <1>10, <1>11
          DEF Next, Serve

LEMMA TableCorrect == Spec => []TableInv
  <1>1. TableInv /\ [Next]_vars => TableInv'
    BY NextRest, NextMap, NextControl, NextLock, NextWindows DEF TableInv
  <1> QED BY <1>1, InitTable, PTL DEF Spec

-----------------------------------------------------------------------------
(* What was given away.                                                    *)

ViewOK(t) ==
    /\ DOMAIN seen[t] = DOMAIN result[t]
    /\ \A c \in DOMAIN result[t] :
         /\ c \in DOMAIN clients
         /\ result[t][c] \in RowType
         /\ \A s \in Series : Behind(result[t][c].history[s], clients[c].history[s])
         /\ seen[t][c] = Elements(result[t][c], heap[c])
    /\ \A c \in DOMAIN written[t] : c \in DOMAIN result[t] /\ written[t][c] = seen[t][c]
    /\ pc[t] \notin {"encode", "send"} => DOMAIN written[t] = {}

ViewsOK == \A t \in Threads : ViewOK(t)

LEMMA ElementsKept ==
    ASSUME NEW row, NEW before, NEW after,
           \A s \in Series : Contents(row.history[s], after[s]) = Contents(row.history[s], before[s])
    PROVE  Elements(row, after) = Elements(row, before)
  BY DEF Elements

(***************************************************************************)
(* Whoever holds slices while others store: the map moved on behind them.  *)
(***************************************************************************)
LEMMA ViewFrame ==
    ASSUME OldKept, NEW t \in Threads, ViewOK(t),
           result'[t] = result[t], seen'[t] = seen[t], written'[t] = written[t],
           pc'[t] \notin {"encode", "send"} => pc[t] \notin {"encode", "send"}
    PROVE  ViewOK(t)'
  <1>1. ASSUME NEW c \in DOMAIN result[t]
        PROVE  /\ c \in DOMAIN clients'
               /\ result[t][c] \in RowType
               /\ \A s \in Series : Behind(result[t][c].history[s], clients'[c].history[s])
               /\ seen[t][c] = Elements(result[t][c], heap'[c])
    <2>1. /\ c \in DOMAIN clients /\ result[t][c] \in RowType
          /\ \A s \in Series : Behind(result[t][c].history[s], clients[c].history[s])
          /\ seen[t][c] = Elements(result[t][c], heap[c])
      BY DEF ViewOK
    <2>2. \A s \in Series :
            /\ Behind(result[t][c].history[s], clients'[c].history[s])
            /\ Contents(result[t][c].history[s], heap'[c][s])
                 = Contents(result[t][c].history[s], heap[c][s])
      BY <2>1 DEF OldKept
    <2>3. Elements(result[t][c], heap'[c]) = Elements(result[t][c], heap[c])
      BY <2>2, ElementsKept
    <2> QED BY <2>1, <2>2, <2>3 DEF OldKept
  <1> QED BY <1>1 DEF ViewOK

LEMMA CollectView ==
    ASSUME TableInv, NEW t \in Threads, ViewOK(t), Collect(t)
    PROVE  ViewOK(t)'
  <1> DEFINE rows == [c \in DOMAIN clients |->
                       [online  |-> now - clients[c].last_seen < OFFLINE_TIMEOUT,
                        latest  |-> clients[c].latest,
                        history |-> clients[c].history]]
  <1>1. /\ result'[t] = rows
        /\ seen'[t] = [c \in DOMAIN rows |-> Elements(rows[c], heap[c])]
        /\ written'[t] = written[t] /\ DOMAIN written[t] = {}
        /\ clients' = clients /\ heap' = heap
    BY DEF Collect, TableInv, RestOK, ViewOK, store
  <1>2. ASSUME NEW c \in DOMAIN clients
        PROVE  /\ rows[c] \in RowType
               /\ \A s \in Series : Behind(rows[c].history[s], clients[c].history[s])
    <2>1. clients[c] \in ClientHistory /\ rows[c].history = clients[c].history
      BY DEF TableInv, MapOK, Stored
    <2>2. rows[c] \in RowType
      BY <2>1 DEF RowType, ClientHistory
    <2>3. ASSUME NEW s \in Series
          PROVE  Behind(clients[c].history[s], clients[c].history[s])
      <3>1. SliceOn(clients[c].history[s], heap[c][s])
        BY DEF TableInv, MapOK, Stored
      <3> QED BY <3>1 DEF SliceOn, Behind, Header
    <2> QED BY <2>1, <2>2, <2>3
  <1> HIDE DEF rows
  <1>3. DOMAIN rows = DOMAIN clients
    BY DEF rows
  <1> QED BY <1>1, <1>2, <1>3 DEF ViewOK

LEMMA EncodeView ==
    ASSUME TableInv, NEW t \in Threads, ViewOK(t), OldKept, Encode(t)
    PROVE  ViewOK(t)'
  <1> USE DEF TableInv, RestOK
  <1>1. CASE UNCHANGED written
    <2>1. result' = result /\ seen' = seen /\ pc[t] = "encode"
      BY DEF Encode
    <2>2. pc'[t] \in {"encode", "send"}
      BY <2>1 DEF Encode, Answer, GoTo
    <2> QED BY <1>1, <2>1, <2>2, ViewFrame
  <1>2. ASSUME NEW c \in DOMAIN result[t] \ DOMAIN written[t], pc' = pc,
               written' = [written EXCEPT ![t] =
                            With(written[t], c, Elements(result[t][c], heap[c]))]
        PROVE  ViewOK(t)'
    <2>1. /\ result' = result /\ seen' = seen /\ clients' = clients /\ heap' = heap
          /\ pc'[t] = "encode"
      BY <1>2 DEF Encode, store
    <2>2. written'[t] = With(written[t], c, Elements(result[t][c], heap[c]))
      BY <1>2
    <2>3. /\ DOMAIN written'[t] = DOMAIN written[t] \union {c}
          /\ \A d \in DOMAIN written'[t] :
               written'[t][d] = IF d = c THEN Elements(result[t][c], heap[c]) ELSE written[t][d]
      BY <2>2 DEF With
    <2>4. \A d \in DOMAIN written'[t] : d \in DOMAIN result[t] /\ written'[t][d] = seen[t][d]
      BY <1>2, <2>3 DEF ViewOK
    <2> QED BY <2>1, <2>4 DEF ViewOK
  <1> QED BY <1>1, <1>2 DEF Encode

LEMMA NextViews == TableInv /\ ViewsOK /\ [Next]_vars => ViewsOK'
  <1> SUFFICES ASSUME TableInv, ViewsOK, [Next]_vars, NEW u \in Threads
               PROVE  ViewOK(u)'
    BY DEF ViewsOK
  <1>1. ViewOK(u) /\ OldKept
    BY NextMap DEF ViewsOK
  <1> USE DEF TableInv, RestOK, GoTo, Answer
  <1>2. CASE UNCHANGED vars \/ Tick
    BY <1>1, <1>2, ViewFrame DEF vars, Tick, locals
  <1>3. ASSUME NEW t \in Threads, t # u,
               (\E r \in Requests : Accept(t, r)) \/ Receive(t) \/ Lock(t) \/ Serve(t)
        PROVE  ViewOK(u)'
    <2>1. /\ result'[u] = result[u] /\ seen'[u] = seen[u] /\ written'[u] = written[u]
          /\ pc'[u] = pc[u]
      <3>1. CASE (\E r \in Requests : Accept(t, r)) \/ Receive(t) \/ Lock(t)
        BY <1>3, <3>1 DEF Accept, Receive, HandlePut, HandleView, HandleRoot, Lock, locals
      <3>2. CASE LockGranted(t) \/ Unlock(t) \/ Send(t)
        BY <1>3, <3>2 DEF LockGranted, Unlock, Send, locals
      <3>3. CASE PutStore(t) \/ PutPush(t)
        BY <1>3, <3>3 DEF PutStore, PutPush, locals
      <3>4. CASE RLock(t) \/ RLockGranted(t) \/ RUnlock(t)
        BY <1>3, <3>4 DEF RLock, RLockGranted, RUnlock, locals
      <3>5. CASE Collect(t)
        BY <1>3, <3>5 DEF Collect
      <3>6. CASE Encode(t)
        BY <1>3, <3>6 DEF Encode
      <3> QED BY <1>3, <3>1, <3>2, <3>3, <3>4, <3>5, <3>6 DEF Serve
    <2> QED BY <1>1, <2>1, ViewFrame
  <1>4. CASE \/ \E r \in Requests : Accept(u, r)
             \/ Receive(u) \/ Lock(u) \/ LockGranted(u) \/ Unlock(u)
    BY <1>1, <1>4, ViewFrame
    DEF Accept, Receive, HandlePut, HandleView, HandleRoot, Lock, LockGranted, Unlock, locals
  <1>5. CASE PutStore(u) \/ PutPush(u) \/ RLock(u) \/ RLockGranted(u) \/ RUnlock(u)
    <2>1. UNCHANGED <<result, seen, written>>
      BY <1>5 DEF PutStore, PutPush, RLock, RLockGranted, RUnlock, locals
    <2>2. pc[u] \notin {"encode", "send"}
      BY <1>5 DEF PutStore, PutPush, RLock, RLockGranted, RUnlock, Series
    <2> QED BY <1>1, <2>1, <2>2, ViewFrame
  <1>6. CASE Send(u)
    BY <1>6 DEF Send, ViewOK, EmptyMap
  <1> QED BY <1>1, <1>2, <1>3, <1>4, <1>5, <1>6, CollectView, EncodeView DEF Next, Serve

LEMMA ViewsCorrect == Spec => []ViewsOK
  <1>1. Init => ViewsOK
    BY DEF Init, ViewsOK, ViewOK, EmptyMap
  <1> QED BY <1>1, NextViews, TableCorrect, PTL DEF Spec

-----------------------------------------------------------------------------
(* What it gives.                                                          *)

(***************************************************************************)
(* handleData and handleIndex encode slices after mu was released, while   *)
(* handlePut trims and appends to the same backing arrays: what they write *)
(* into the response is what getClientInfo saw under the lock.             *)
(***************************************************************************)
THEOREM SnapshotCorrect == Spec => []EncodedIsSnapshot
  <1>1. ViewsOK => EncodedIsSnapshot
    BY DEF ViewsOK, ViewOK, EncodedIsSnapshot
  <1> QED BY <1>1, ViewsCorrect, PTL

(***************************************************************************)
(* ... and not only do the values agree: the two never touch the same      *)
(* element of an array, which is what the race detector would ask.         *)
(***************************************************************************)
THEOREM NoRaceCorrect == Spec => []WritesMissReaders
  <1>1. TableInv /\ ViewsOK => WritesMissReaders
    <2> SUFFICES ASSUME TableInv, ViewsOK, NEW w \in Threads, NEW r \in Threads,
                        pc[w] \in Series, req[w].body \in DOMAIN result[r]
                 PROVE  LET slice == Trimmed(clients[req[w].body].history[pc[w]]) IN
                          <<slice.array, slice.offset + slice.len + 1>>
                            \notin Cells(result[r][req[w].body].history[pc[w]])
      BY ZenonT(60) DEF WritesMissReaders
    <2> DEFINE c == req[w].body
               s == pc[w]
               slice == clients[c].history[s]
               short == Trimmed(slice)
               old == result[r][c].history[s]
    <2>1. Behind(old, slice) /\ SliceOn(slice, heap[c][s])
      BY DEF ViewsOK, ViewOK, TableInv, MapOK, Stored
    <2>2. /\ SliceOn(short, heap[c][s]) /\ short.array = slice.array
          /\ short.offset + short.len = slice.offset + slice.len
      BY <2>1, TrimmedOn
    <2> HIDE DEF c, s, slice, short, old
    <2>3. /\ old.array \in Nat /\ old.offset \in Nat /\ old.len \in Nat
          /\ slice.array \in Nat /\ slice.offset \in Nat /\ slice.len \in Nat
          /\ short.offset \in Nat /\ short.len \in Nat
      BY <2>1, <2>2 DEF Behind, SliceOn, Header
    <2>4. ASSUME NEW k \in 1..old.len
          PROVE  old.array # short.array
                   \/ old.offset + k # short.offset + short.len + 1
      BY <2>1, <2>2, <2>3 DEF Behind
    <2>5. <<short.array, short.offset + short.len + 1>> \notin Cells(old)
      BY <2>4 DEF Cells
    <2> QED BY <2>5, SMTT(30) DEF c, s, slice, short, old
  <1> QED BY <1>1, TableCorrect, ViewsCorrect, PTL

(***************************************************************************)
(* The three histories of a client are the newest historySize reports      *)
(* stored for it, aligned, whatever arrays append moves them to.           *)
(***************************************************************************)
THEOREM HistoriesCorrect == Spec => []HistoriesAreWindows
  <1>1. TableInv /\ ViewsOK => TypeOK
    <2> SUFFICES ASSUME TableInv, ViewsOK PROVE TypeOK
      OBVIOUS
    <2>1. ASSUME NEW c \in DOMAIN clients, NEW s \in Series
          PROVE  LET slice == clients[c].history[s] IN
                   /\ slice.len <= slice.cap
                   /\ slice.offset + slice.cap = Len(heap[c][s][slice.array])
      BY DEF TableInv, MapOK, Stored, SliceOn
    <2> QED BY <2>1 DEF TypeOK, TableInv, RestOK, MapOK, Stored, ViewsOK, ViewOK
  <1>2. TableInv /\ (\A t \in Threads : pc[t] \notin {"store"} \union Series) =>
          /\ DOMAIN clients = {c \in ClientIds : log[c] # << >>}
          /\ \A c \in DOMAIN clients, s \in Series :
               Contents(clients[c].history[s], heap[c][s])
                 = WindowOf(log[c], IF s = "time" THEN "time" ELSE "report")
    <2> SUFFICES ASSUME TableInv, \A t \in Threads : pc[t] \notin {"store"} \union Series
                 PROVE  /\ DOMAIN clients = {c \in ClientIds : log[c] # << >>}
                        /\ \A c \in DOMAIN clients, s \in Series :
                             Contents(clients[c].history[s], heap[c][s])
                               = WindowOf(log[c], IF s = "time" THEN "time" ELSE "report")
      OBVIOUS
    <2>1. \A t \in Threads, s \in Series : ~ Ahead(t, s)
      BY DEF Ahead, Series
    <2> QED BY <2>1 DEF TableInv, MapOK, WindowsOK, Field
  <1>3. TableInv /\ ViewsOK => HistoriesAreWindows
    BY <1>1, <1>2 DEF HistoriesAreWindows
  <1> QED BY <1>3, TableCorrect, ViewsCorrect, PTL

-----------------------------------------------------------------------------
(* What the handlers do with a request.                                    *)

(***************************************************************************)
(* handlePut serves one path, getClientInfo's callers two, and only "ok"   *)
(* and "data" answers end a session of the store.                          *)
(***************************************************************************)
RouteOK ==
    \A t \in Threads :
      /\ pc[t] = "idle" => req[t].path = "/"
      /\ pc[t] # "send" => reply[t] = "none"
      /\ pc[t] \in {"lock", "drain", "store", "unlock"} \union Series => req[t].path = "put"
      /\ pc[t] \in {"rlock", "rwait", "collect", "runlock", "encode"}
           => req[t].path \in {"index.html", "data"}
      /\ pc[t] = "send" => /\ reply[t] = "ok" => req[t].path = "put"
                           /\ req[t].path = "data" => reply[t] = "data"

LEMMA NextRoute == TableInv /\ RouteOK /\ [Next]_vars => RouteOK'
  <1> SUFFICES ASSUME RestOK, RouteOK, [Next]_vars PROVE RouteOK'
    BY DEF TableInv
  <1> USE DEF RouteOK, RestOK, GoTo, Answer, Series
  <1>1. CASE UNCHANGED vars \/ Tick
    BY <1>1 DEF vars, Tick, locals
  <1>2. ASSUME NEW t \in Threads, (\E r \in Requests : Accept(t, r)) \/ Send(t)
        PROVE  RouteOK'
    BY <1>2 DEF Accept, Send, locals, NoRequest
  <1>3. ASSUME NEW t \in Threads, Receive(t) PROVE RouteOK'
    BY <1>3 DEF Receive, HandlePut, HandleView, HandleRoot, locals
  <1>4. ASSUME NEW t \in Threads, Lock(t) \/ LockGranted(t) \/ Unlock(t) PROVE RouteOK'
    BY <1>4 DEF Lock, LockGranted, Unlock, locals
  <1>5. ASSUME NEW t \in Threads, RLock(t) \/ RLockGranted(t) \/ RUnlock(t) PROVE RouteOK'
    BY <1>5 DEF RLock, RLockGranted, RUnlock, locals
  <1>6. ASSUME NEW t \in Threads, PutStore(t) \/ PutPush(t) PROVE RouteOK'
    BY <1>6 DEF PutStore, PutPush, AfterPush, locals
  <1>7. ASSUME NEW t \in Threads, Collect(t) PROVE RouteOK'
    BY <1>7 DEF Collect
  <1>8. ASSUME NEW t \in Threads, Encode(t) PROVE RouteOK'
    BY <1>8 DEF Encode
  <1> QED BY <1>1, <1>2, <1>3, <1>4, <1>5, <1>6, <1>7, <1>8 DEF Next, Serve

-----------------------------------------------------------------------------
(* The newest report and its time.                                         *)

Last(l) == l[Len(l)]

Pending(c) == \E t \in Threads : pc[t] \in Series /\ req[t].body = c

NewestOK ==
    /\ \A t \in Threads : pc[t] \in Series => clients[req[t].body].latest = report[t]
    /\ \A c \in DOMAIN clients :
         Pending(c) \/ (log[c] # << >> /\ clients[c].latest = Last(log[c]).report)
    /\ \A c \in ClientIds : log[c] # << >> => Last(log[c]).time <= now

LEMMA StoreNewest ==
    ASSUME TableInv, NewestOK, NEW t \in Threads, PutStore(t)
    PROVE  NewestOK'
  <1> USE DEF TableInv, RestOK, GoTo
  <1> DEFINE c == req[t].body
  <1>1. /\ pc[t] = "store" /\ pc' = [pc EXCEPT ![t] = "load"] /\ req' = req
        /\ log' = log /\ now' = now /\ report' = report
        /\ DOMAIN clients' = DOMAIN clients \union {c}
        /\ clients'[c].latest = report[t]
        /\ \A d \in DOMAIN clients : d # c => clients'[d] = clients[d]
    BY DEF PutStore, With
  <1>2. \A u \in Threads : pc[u] \notin Series
    BY <1>1 DEF LockOK, Series
  <1>3. \A u \in Threads : pc'[u] \in Series <=> u = t
    BY <1>1, <1>2 DEF Series
  <1> QED BY <1>1, <1>2, <1>3 DEF NewestOK, Pending

LEMMA PushNewest ==
    ASSUME TableInv, NewestOK, NEW t \in Threads, PutPush(t)
    PROVE  NewestOK'
  <1> USE DEF TableInv, RestOK, GoTo
  <1> DEFINE c == req[t].body
             entry == [report |-> report[t], time |-> now]
  <1>1. /\ pc[t] \in Series /\ pc' = [pc EXCEPT ![t] = AfterPush[pc[t]]] /\ req' = req
        /\ now' = now /\ report' = report
        /\ log' = IF pc[t] = "time" THEN [log EXCEPT ![c] = Append(log[c], entry)]
                  ELSE log
    BY DEF PutPush
  <1>2. c \in ClientIds /\ c \in DOMAIN clients /\ clients[c] \in ClientHistory
    BY <1>1 DEF ControlOK, MapOK, Stored
  <1>3. /\ DOMAIN clients' = DOMAIN clients
        /\ clients'[c].latest = clients[c].latest
        /\ \A d \in DOMAIN clients : d # c => clients'[d] = clients[d]
    <2>1. PICK f : clients' = [clients EXCEPT ![c].history[pc[t]] = f]
      BY DEF PutPush
    <2> QED BY <1>2, <2>1 DEF ClientHistory
  <1>5. clients[c].latest = report[t] /\ \A u \in Threads : pc[u] \in Series => u = t
    BY <1>1 DEF NewestOK, LockOK
  <1>4. CASE pc[t] # "time"
    <2>1. log' = log /\ \A u \in Threads : pc'[u] \in Series <=> u = t
      BY <1>1, <1>4, <1>5 DEF AfterPush, Series
    <2>2. \A d \in DOMAIN clients : Pending(d) <=> d = c
      BY <1>1, <1>5 DEF Pending
    <2>3. \A d \in DOMAIN clients : Pending(d)' <=> d = c
      BY <1>1, <2>1 DEF Pending
    <2> QED BY <1>1, <1>3, <1>5, <2>1, <2>2, <2>3 DEF NewestOK
  <1>6. CASE pc[t] = "time"
    <2>1. log' = [log EXCEPT ![c] = Append(log[c], entry)]
      BY <1>1, <1>6
    <2>2. log'[c] # << >> /\ Last(log'[c]) = entry
      <3>1. log[c] \in Seq(Entry) /\ entry \in Entry
        BY <1>2 DEF Entry
      <3>2. log'[c] = Append(log[c], entry)
        BY <1>2, <2>1
      <3> HIDE DEF entry, c
      <3> QED BY <3>1, <3>2, AppendProperties, SMTT(30) DEF Last
    <2>3. \A u \in Threads : pc'[u] \notin Series
      BY <1>1, <1>5, <1>6 DEF AfterPush, Series
    <2>4. \A d \in ClientIds : d # c => log'[d] = log[d]
      BY <1>2, <2>1
    <2>5. ASSUME NEW d \in DOMAIN clients'
          PROVE  log'[d] # << >> /\ clients'[d].latest = Last(log'[d]).report
      <3>1. CASE d = c
        BY <1>3, <1>5, <2>2, <3>1
      <3>2. CASE d # c
        <4>1. d \in DOMAIN clients /\ d \in ClientIds /\ ~ Pending(d)
          BY <1>3, <1>5, <3>2 DEF Pending, MapOK
        <4> QED BY <1>3, <2>4, <3>2, <4>1 DEF NewestOK
      <3> QED BY <3>1, <3>2
    <2>6. ASSUME NEW d \in ClientIds, log'[d] # << >>
          PROVE  Last(log'[d]).time <= now'
      BY <1>1, <2>2, <2>4, <2>6, SizesAssumption DEF NewestOK, Times
    <2> QED BY <2>3, <2>5, <2>6 DEF NewestOK
  <1> QED BY <1>4, <1>6

LEMMA NextNewest == TableInv /\ NewestOK /\ [Next]_vars => NewestOK'
  <1> SUFFICES ASSUME TableInv, NewestOK, [Next]_vars PROVE NewestOK'
    OBVIOUS
  <1>1. now \in Int /\ now' \in Int /\ now <= now'
    <2>1. now \in Times /\ (now' = now \/ now' = now + 1)
      BY ZenonT(60) DEF TableInv, RestOK, Next, Receive, Serve, Tick, Accept, HandlePut, HandleView,
         HandleRoot, Send, Lock, LockGranted, Unlock, RLock, RLockGranted, RUnlock, Collect,
         Encode, PutStore, PutPush, vars
    <2> QED BY <2>1, SizesAssumption, SMTT(30) DEF Times
  <1>2. CASE UNCHANGED store /\ \A t \in Threads : Appending(t)
    <2>1. ASSUME NEW c \in ClientIds, log[c] # << >>
          PROVE  Last(log[c]).time <= now'
      <3>1. log[c] \in Seq(Entry) /\ Last(log[c]).time <= now
        BY <2>1 DEF TableInv, RestOK, NewestOK
      <3>2. Last(log[c]) \in Entry
        BY <2>1, <3>1 DEF Last
      <3> QED BY <1>1, <3>1, <3>2, SizesAssumption DEF Entry, Times
    <2> QED BY <1>2, <2>1 DEF NewestOK, Pending, Appending, store, Last
  <1> QED BY <1>2, MapWriters, StoreNewest, PushNewest DEF TableInv

-----------------------------------------------------------------------------
(* What a goroutine is to the store.                                       *)

SessionAs(place, r, n, status, view, text) ==
    CASE place \in {"lock", "drain", "store"} \union Series ->
           [op |-> "report", id |-> r.body, report |-> n]
      [] place = "unlock" \/ status = "ok" ->
           [op |-> "stored"]
      [] r.path = "data" /\ place \in {"rlock", "rwait", "collect"} ->
           [op |-> "query"]
      [] r.path = "data" /\ place \in {"runlock", "encode"} ->
           [op |-> "answered", view |-> ViewOf(view)]
      [] r.path = "data" /\ place = "send" ->
           [op |-> "answered", view |-> ViewOf(text)]
      [] OTHER -> [op |-> "idle"]

LEMMA SessionIs ==
    ASSUME NEW t \in Threads
    PROVE  /\ SessionOf(t) = SessionAs(pc[t], req[t], report[t], reply[t], seen[t], written[t])
           /\ SessionOf(t)' =
                SessionAs(pc'[t], req'[t], report'[t], reply'[t], seen'[t], written'[t])
  BY DEF SessionOf, SessionAs

(***************************************************************************)
(* The session of a goroutine at each place, given the paths and answers   *)
(* that are possible there.                                                *)
(***************************************************************************)
LEMMA SessionAt ==
    ASSUME NEW place, NEW r, NEW n, NEW status, NEW view, NEW text
    PROVE  LET session == SessionAs(place, r, n, status, view, text) IN
             /\ place \in {"lock", "drain", "store"} \union Series /\ status = "none"
                  => session = [op |-> "report", id |-> r.body, report |-> n]
             /\ (place = "unlock" \/ (place = "send" /\ status = "ok")) /\ r.path = "put"
                  => session = [op |-> "stored"]
             /\ place \in {"rlock", "rwait", "collect"} /\ status = "none"
                  => session = IF r.path = "data" THEN [op |-> "query"] ELSE [op |-> "idle"]
             /\ place \in {"runlock", "encode"} /\ status = "none"
                  => session = IF r.path = "data" THEN [op |-> "answered", view |-> ViewOf(view)]
                               ELSE [op |-> "idle"]
             /\ place = "send" /\ status # "ok"
                  => session = IF r.path = "data" THEN [op |-> "answered", view |-> ViewOf(text)]
                               ELSE [op |-> "idle"]
             /\ place \in {"idle", "recv"} /\ status = "none"
                  => session = [op |-> "idle"]
  <1> DEFINE session == SessionAs(place, r, n, status, view, text)
  <1>1. ASSUME place \in {"lock", "drain", "store"} \union Series, status = "none"
        PROVE  session = [op |-> "report", id |-> r.body, report |-> n]
    BY <1>1 DEF SessionAs, Series
  <1>2. ASSUME place = "unlock" \/ (place = "send" /\ status = "ok"), r.path = "put"
        PROVE  session = [op |-> "stored"]
    BY <1>2 DEF SessionAs, Series
  <1>3. ASSUME place \in {"rlock", "rwait", "collect"}, status = "none"
        PROVE  session = IF r.path = "data" THEN [op |-> "query"] ELSE [op |-> "idle"]
    BY <1>3 DEF SessionAs, Series
  <1>4. ASSUME place \in {"runlock", "encode"}, status = "none"
        PROVE  session = IF r.path = "data" THEN [op |-> "answered", view |-> ViewOf(view)]
                         ELSE [op |-> "idle"]
    BY <1>4 DEF SessionAs, Series
  <1>5. ASSUME place = "send", status # "ok"
        PROVE  session = IF r.path = "data" THEN [op |-> "answered", view |-> ViewOf(text)]
                         ELSE [op |-> "idle"]
    BY <1>5 DEF SessionAs, Series
  <1>6. place \in {"idle", "recv"} /\ status = "none" => session = [op |-> "idle"]
    BY DEF SessionAs, Series
  <1> HIDE DEF session
  <1> QED BY <1>1, <1>2, <1>3, <1>4, <1>5, <1>6 DEF session

-----------------------------------------------------------------------------
(* A view.                                                                 *)

(***************************************************************************)
(* While a reader is inside nothing is half stored: what getClientInfo     *)
(* collects is the view of the store.                                      *)
(***************************************************************************)
LEMMA CollectIsView ==
    ASSUME TableInv, NewestOK, NEW t \in Threads, Collect(t)
    PROVE  ViewOf(seen'[t]) = Store!View
  <1> USE DEF TableInv, RestOK
  <1>1. pc[t] = "collect" /\ t \in readers
    BY DEF Collect, LockOK
  <1>2. \A u \in Threads : pc[u] \notin Series /\ \A s \in Series : ~ Ahead(u, s)
    BY <1>1 DEF LockOK, Ahead, Series
  <1>3. DOMAIN clients = Store!Known
    BY <1>2 DEF WindowsOK, MapOK, Store!Known
  <1>4. seen'[t] = [c \in DOMAIN clients |->
                     [online  |-> now - clients[c].last_seen < OFFLINE_TIMEOUT,
                      latest  |-> clients[c].latest,
                      history |-> [s \in Series |->
                                     Contents(clients[c].history[s], heap[c][s])]]]
    BY DEF Collect, Elements
  <1>5. ASSUME NEW c \in DOMAIN clients
        PROVE  LET w == Store!Window(log[c]) IN
                 /\ clients[c].latest = w[Len(w)].report
                 /\ \A s \in Series : Contents(clients[c].history[s], heap[c][s])
                                    = [k \in DOMAIN w |-> w[k][Field(s)]]
    <2> DEFINE l == log[c]
               n == Len(l)
               h == IF n < HISTORY_SIZE THEN n ELSE HISTORY_SIZE
               w == Store!Window(l)
    <2>1. /\ c \in ClientIds /\ l \in Seq(Entry) /\ l # << >> /\ n \in Nat \ {0}
          /\ HISTORY_SIZE \in Nat \ {0}
          /\ clients[c].latest = Last(l).report
      BY <1>2, SizesAssumption DEF MapOK, NewestOK, Pending
    <2>2. w = [k \in 1..h |-> l[n - h + k]]
      BY DEF Store!Window
    <2>3. h \in Nat \ {0} /\ h <= n
      BY <2>1
    <2>4. DOMAIN w = 1..h /\ \A k \in 1..h : w[k] = l[n - h + k]
      BY <2>2
    <2>5. Len(w) = h
      <3> HIDE DEF h, w
      <3> QED BY <2>2, <2>3
    <2>6. w[Len(w)] = Last(l)
      <3>1. h \in 1..h /\ n - h + h = n
        BY <2>1, <2>3
      <3> HIDE DEF h, w
      <3> QED BY <2>4, <2>5, <3>1 DEF Last
    <2>7. ASSUME NEW s \in Series
          PROVE  Contents(clients[c].history[s], heap[c][s]) = [k \in DOMAIN w |-> w[k][Field(s)]]
      <3>1. Contents(clients[c].history[s], heap[c][s]) = WindowOf(l, Field(s))
        BY <1>2 DEF WindowsOK
      <3>2. WindowOf(l, Field(s)) = [k \in 1..h |-> l[n - h + k][Field(s)]]
        BY DEF WindowOf
      <3> HIDE DEF h, w
      <3> QED BY <2>4, <3>1, <3>2
    <2> QED BY <2>1, <2>6, <2>7
  <1>6. ASSUME NEW c \in DOMAIN clients
        PROVE  ViewOf(seen'[t])[c] = Store!View[c]
    <2> DEFINE w == Store!Window(log[c])
    <2>1. Store!View[c] = [latest |-> w[Len(w)].report,
                           load   |-> [k \in DOMAIN w |-> w[k].report],
                           mem    |-> [k \in DOMAIN w |-> w[k].report],
                           time   |-> [k \in DOMAIN w |-> w[k].time]]
      BY <1>3 DEF Store!View
    <2>2. ViewOf(seen'[t])[c] =
            [f \in {"latest"} \union Series |->
               IF f = "latest" THEN clients[c].latest
               ELSE Contents(clients[c].history[f], heap[c][f])]
      BY <1>4 DEF ViewOf, Series
    <2>3. /\ clients[c].latest = w[Len(w)].report
          /\ Contents(clients[c].history["load"], heap[c]["load"]) = [k \in DOMAIN w |-> w[k].report]
          /\ Contents(clients[c].history["mem"], heap[c]["mem"]) = [k \in DOMAIN w |-> w[k].report]
          /\ Contents(clients[c].history["time"], heap[c]["time"]) = [k \in DOMAIN w |-> w[k].time]
      BY <1>5 DEF Series, Field
    <2> HIDE DEF w
    <2> QED BY <2>1, <2>2, <2>3 DEF Series
  <1>7. /\ ViewOf(seen'[t]) = [c \in DOMAIN clients |-> ViewOf(seen'[t])[c]]
        /\ Store!View = [c \in DOMAIN clients |-> Store!View[c]]
    BY <1>3, <1>4 DEF ViewOf, Store!View
  <1> QED BY <1>6, <1>7

-----------------------------------------------------------------------------
(* Every step of the server is a step of the store, or none.               *)

RefInv == TableInv /\ ViewsOK /\ RouteOK /\ NewestOK

Quiet(u) ==
    /\ pc'[u] = pc[u] /\ req'[u] = req[u] /\ report'[u] = report[u]
    /\ reply'[u] = reply[u] /\ seen'[u] = seen[u] /\ written'[u] = written[u]

LEMMA QuietSession ==
    ASSUME NEW u \in Threads, Quiet(u)
    PROVE  SessionOf(u)' = SessionOf(u)
  BY SessionIs DEF Quiet

LEMMA Stutter ==
    ASSUME log' = log, \A u \in Threads : SessionOf(u)' = SessionOf(u)
    PROVE  UNCHANGED Store!storeVars
  BY DEF Store!storeVars

LEMMA OnlyOneMoves ==
    ASSUME RefInv, NEW t \in Threads,
           (\E r \in Requests : Accept(t, r)) \/ Receive(t) \/ Lock(t) \/ Serve(t),
           NEW u \in Threads, u # t
    PROVE  SessionOf(u)' = SessionOf(u)
  <1> USE DEF RefInv, TableInv, RestOK, Quiet, GoTo, Answer
  <1>1. CASE (\E r \in Requests : Accept(t, r)) \/ Lock(t)
    BY <1>1, QuietSession DEF Accept, Lock, locals
  <1>2. CASE Receive(t)
    BY <1>2, QuietSession DEF Receive, HandlePut, HandleView, HandleRoot, locals
  <1>3. CASE LockGranted(t) \/ Unlock(t) \/ Send(t)
    BY <1>3, QuietSession DEF LockGranted, Unlock, Send, locals
  <1>4. CASE RLock(t) \/ RLockGranted(t) \/ RUnlock(t)
    BY <1>4, QuietSession DEF RLock, RLockGranted, RUnlock, locals
  <1>5. CASE PutStore(t) \/ PutPush(t)
    BY <1>5, QuietSession DEF PutStore, PutPush, locals
  <1>6. CASE Collect(t)
    BY <1>6, QuietSession DEF Collect
  <1>7. CASE Encode(t)
    BY <1>7, QuietSession DEF Encode
  <1> QED BY <1>1, <1>2, <1>3, <1>4, <1>5, <1>6, <1>7 DEF Serve

(***************************************************************************)
(* The steps on the way that the store does not see.                       *)
(***************************************************************************)
LEMMA HiddenSteps ==
    ASSUME RefInv, RefInv', NEW t \in Threads,
           \/ \E r \in Requests : Accept(t, r)
           \/ HandleRoot(t) \/ Lock(t) \/ LockGranted(t) \/ PutStore(t)
           \/ PutPush(t) /\ pc[t] # "time"
           \/ Unlock(t) \/ RLock(t) \/ RLockGranted(t) \/ RUnlock(t)
    PROVE  SessionOf(t)' = SessionOf(t) /\ log' = log
  <1> USE DEF RefInv, TableInv, RestOK, GoTo, Answer
  <1> DEFINE Was == SessionAs(pc[t], req[t], report[t], reply[t], seen[t], written[t])
             Is == SessionAs(pc'[t], req'[t], report'[t], reply'[t], seen'[t], written'[t])
  <1>0. SessionOf(t) = Was /\ SessionOf(t)' = Is
    BY SessionIs
  <1> HIDE DEF Was, Is
  <1>1. CASE \E r \in Requests : Accept(t, r)
    <2>1. pc[t] = "idle" /\ pc'[t] = "recv" /\ reply'[t] = reply[t] /\ log' = log
      BY <1>1 DEF Accept, locals, store
    <2>2. reply[t] = "none"
      BY <2>1 DEF RouteOK
    <2> QED BY <1>0, <2>1, <2>2, SessionAt DEF Was, Is
  <1>2. CASE HandleRoot(t)
    <2>1. /\ pc[t] = "recv" /\ pc'[t] = "send" /\ log' = log /\ req'[t] = req[t]
          /\ req[t].path # "data" /\ reply'[t] \in {"redirect", "empty"}
      BY <1>2 DEF HandleRoot, store
    <2>2. reply[t] = "none"
      BY <2>1 DEF RouteOK
    <2> QED BY <1>0, <2>1, <2>2, SessionAt DEF Was, Is
  <1>3. CASE Lock(t) \/ LockGranted(t) \/ PutStore(t)
    <2>1. /\ pc[t] \in {"lock", "drain", "store"} /\ pc'[t] \in {"drain", "store", "load"}
          /\ req' = req /\ report' = report /\ reply' = reply /\ log' = log
      BY <1>3 DEF Lock, LockGranted, PutStore, locals, store
    <2>2. reply[t] = "none"
      BY <2>1 DEF RouteOK
    <2>3. pc'[t] \in {"lock", "drain", "store"} \union Series
      BY <2>1 DEF Series
    <2> QED BY <1>0, <2>1, <2>2, <2>3, SessionAt, SMTT(30) DEF Was, Is
  <1>7. CASE PutPush(t) /\ pc[t] # "time"
    <2>1. /\ pc[t] \in Series /\ pc'[t] \in Series
          /\ req' = req /\ report' = report /\ reply' = reply /\ log' = log
      <3>1. pc[t] \in {"load", "mem"}
        BY <1>7 DEF PutPush, Series
      <3>2. pc[t] \in Series /\ AfterPush[pc[t]] \in Series
        BY <3>1 DEF AfterPush, Series
      <3>3. pc'[t] = AfterPush[pc[t]]
        BY <1>7 DEF PutPush
      <3>4. req' = req /\ report' = report /\ reply' = reply /\ log' = log
        BY <1>7, Zenon DEF PutPush, locals
      <3> QED BY <3>2, <3>3, <3>4
    <2>2. reply[t] = "none"
      BY <2>1 DEF RouteOK, Series
    <2> QED BY <1>0, <2>1, <2>2, SessionAt, SMTT(30) DEF Was, Is
  <1>4. CASE Unlock(t)
    <2>1. /\ pc[t] = "unlock" /\ pc'[t] = "send" /\ reply'[t] = "ok"
          /\ req' = req /\ log' = log
      BY <1>4 DEF Unlock, store
    <2>2. req[t].path = "put"
      BY <2>1 DEF RouteOK
    <2> QED BY <1>0, <2>1, <2>2, SessionAt DEF Was, Is
  <1>5. CASE RLock(t) \/ RLockGranted(t)
    <2>1. /\ pc[t] \in {"rlock", "rwait"} /\ pc'[t] \in {"rwait", "collect"}
          /\ req' = req /\ reply' = reply /\ log' = log
      BY <1>5 DEF RLock, RLockGranted, locals, store
    <2>2. reply[t] = "none"
      BY <2>1 DEF RouteOK
    <2> QED BY <1>0, <2>1, <2>2, SessionAt DEF Was, Is
  <1>6. CASE RUnlock(t)
    <2> DEFINE Given == IF req[t].path = "data"
                          THEN [op |-> "answered", view |-> ViewOf(seen[t])]
                          ELSE [op |-> "idle"]
    <2>1. /\ pc[t] = "runlock" /\ pc'[t] = "encode" /\ seen' = seen
          /\ req' = req /\ reply' = reply /\ log' = log
      BY <1>6 DEF RUnlock, locals, store
    <2>2. reply[t] = "none"
      BY <2>1 DEF RouteOK
    <2>3. Was = Given
      BY <2>1, <2>2, SessionAt DEF Was
    <2>4. Is = Given
      BY <2>1, <2>2, SessionAt DEF Is
    <2> QED BY <1>0, <2>1, <2>3, <2>4
  <1> QED BY <1>1, <1>2, <1>3, <1>4, <1>5, <1>6, <1>7

(***************************************************************************)
(* A request that parsed, or asks for /data, opens a session; the response *)
(* that leaves closes it.                                                  *)
(***************************************************************************)
LEMMA BeginSteps ==
    ASSUME RefInv, RefInv', NEW t \in Threads, HandlePut(t) \/ HandleView(t)
    PROVE  /\ SessionOf(t) = Store!Idle /\ log' = log
           /\ SessionOf(t)' \in [op : {"report"}, id : ClientIds, report : Serials]
                               \union {[op |-> "query"], Store!Idle}
  <1> USE DEF RefInv, TableInv, RestOK, GoTo, Answer
  <1>1. pc[t] = "recv" /\ reply[t] = "none" /\ log' = log
    BY DEF HandlePut, HandleView, RouteOK, store
  <1>2. SessionOf(t) = [op |-> "idle"]
    BY <1>1, SessionIs, SessionAt
  <1>3. CASE HandlePut(t)
    <2>1. /\ req' = req /\ report' = report /\ req[t].path = "put"
          /\ \/ pc'[t] = "lock" /\ reply'[t] = "none" /\ req[t].body \in ClientIds
             \/ pc'[t] = "send" /\ reply'[t] \in {"bad", "method"}
      BY <1>1, <1>3 DEF HandlePut
    <2>2. CASE pc'[t] = "lock"
      <3>1. SessionOf(t)' = [op |-> "report", id |-> req[t].body, report |-> report[t]]
        BY <2>1, <2>2, SessionIs, SessionAt
      <3> QED BY <1>1, <1>2, <2>1, <2>2, <3>1 DEF Store!Idle
    <2>3. CASE pc'[t] = "send"
      <3>1. /\ pc'[t] = "send" /\ reply'[t] # "ok" /\ req'[t].path # "data"
            /\ SessionOf(t)' = SessionAs(pc'[t], req'[t], report'[t], reply'[t],
                                         seen'[t], written'[t])
        BY <2>1, <2>3, SessionIs
      <3>2. SessionOf(t)' = [op |-> "idle"]
        BY <3>1, SessionAt
      <3> QED BY <1>1, <1>2, <3>2 DEF Store!Idle
    <2> QED BY <2>1, <2>2, <2>3
  <1>4. CASE HandleView(t)
    <2>1. req' = req /\ pc'[t] = "rlock" /\ reply'[t] = "none"
      BY <1>1, <1>4 DEF HandleView, locals
    <2>2. SessionOf(t)' = IF req[t].path = "data" THEN [op |-> "query"] ELSE [op |-> "idle"]
      BY <2>1, SessionIs, SessionAt
    <2> QED BY <1>1, <1>2, <2>2 DEF Store!Idle
  <1> QED BY <1>3, <1>4

LEMMA SendStep ==
    ASSUME RefInv, RefInv', NEW t \in Threads, Send(t)
    PROVE  /\ SessionOf(t)' = Store!Idle /\ log' = log
           /\ \/ SessionOf(t) = Store!Idle
              \/ SessionOf(t).op \in {"stored", "answered"}
  <1> USE DEF RefInv, TableInv, RestOK, GoTo, Answer
  <1>1. pc[t] = "send" /\ pc'[t] = "idle" /\ reply'[t] = "none" /\ log' = log
    BY DEF Send, store
  <1>2. SessionOf(t)' = [op |-> "idle"]
    BY <1>1, SessionIs, SessionAt
  <1>3. CASE reply[t] = "ok"
    <2>1. SessionOf(t) = [op |-> "stored"]
      BY <1>1, <1>3, SessionIs, SessionAt DEF RouteOK
    <2> QED BY <1>1, <1>2, <2>1 DEF Store!Idle
  <1>4. CASE reply[t] # "ok"
    <2>1. SessionOf(t) = IF req[t].path = "data"
                           THEN [op |-> "answered", view |-> ViewOf(written[t])]
                           ELSE [op |-> "idle"]
      BY <1>1, <1>4, SessionIs, SessionAt
    <2> QED BY <1>1, <1>2, <2>1 DEF Store!Idle
  <1> QED BY <1>3, <1>4

(***************************************************************************)
(* Encoding outside the lock does not change what will be answered.        *)
(***************************************************************************)
LEMMA EncodeStep ==
    ASSUME RefInv, RefInv', NEW t \in Threads, Encode(t)
    PROVE  SessionOf(t)' = SessionOf(t) /\ log' = log
  <1> USE DEF RefInv, TableInv, RestOK, GoTo, Answer
  <1>1. /\ pc[t] = "encode" /\ reply[t] = "none" /\ log' = log
        /\ req' = req /\ seen' = seen
    BY DEF Encode, RouteOK, store
  <1>2. SessionOf(t) = IF req[t].path = "data"
                         THEN [op |-> "answered", view |-> ViewOf(seen[t])]
                         ELSE [op |-> "idle"]
    BY <1>1, SessionIs, SessionAt
  <1>3. CASE pc' = pc
    <2>1. reply'[t] = "none"
      BY <1>1, <1>3 DEF RouteOK
    <2> QED BY <1>1, <1>2, <1>3, <2>1, SessionIs, SessionAt
  <1>4. CASE pc' # pc
    <2>1. /\ pc'[t] = "send" /\ reply'[t] \in {"data", "page"} /\ written' = written
          /\ DOMAIN written[t] = DOMAIN result[t]
      BY <1>4 DEF Encode
    <2>2. SessionOf(t)' = IF req[t].path = "data"
                            THEN [op |-> "answered", view |-> ViewOf(written[t])]
                            ELSE [op |-> "idle"]
      BY <1>1, <2>1, SessionIs, SessionAt
    <2>3. ViewOf(written[t]) = ViewOf(seen[t])
      BY <2>1 DEF ViewsOK, ViewOK, ViewOf
    <2> QED BY <1>1, <1>2, <2>2, <2>3
  <1> QED BY <1>3, <1>4

(***************************************************************************)
(* getClientInfo's loop is where a view is taken.                          *)
(***************************************************************************)
LEMMA CollectStep ==
    ASSUME RefInv, RefInv', NEW t \in Threads, Collect(t)
    PROVE  /\ log' = log
           /\ \/ SessionOf(t)' = SessionOf(t)
              \/ /\ SessionOf(t) = [op |-> "query"]
                 /\ SessionOf(t)' = [op |-> "answered", view |-> Store!View]
  <1> USE DEF RefInv, TableInv, RestOK, GoTo, Answer
  <1>1. /\ pc[t] = "collect" /\ pc'[t] = "runlock" /\ reply[t] = "none" /\ reply'[t] = "none"
        /\ req' = req /\ log' = log
    BY DEF Collect, RouteOK, store
  <1>2. SessionOf(t) = IF req[t].path = "data" THEN [op |-> "query"] ELSE [op |-> "idle"]
    BY <1>1, SessionIs, SessionAt
  <1>3. SessionOf(t)' = IF req[t].path = "data"
                          THEN [op |-> "answered", view |-> ViewOf(seen'[t])]
                          ELSE [op |-> "idle"]
    BY <1>1, SessionIs, SessionAt
  <1>4. ViewOf(seen'[t]) = Store!View
    BY CollectIsView
  <1> QED BY <1>1, <1>2, <1>3, <1>4

(***************************************************************************)
(* The last append is where a report takes effect.                         *)
(***************************************************************************)
LEMMA PushStep ==
    ASSUME RefInv, RefInv', NEW t \in Threads, PutPush(t), pc[t] = "time"
    PROVE  LET c == req[t].body IN
             /\ c \in ClientIds /\ now \in Times
             /\ SessionOf(t) = [op |-> "report", id |-> c, report |-> report[t]]
             /\ SessionOf(t)' = [op |-> "stored"]
             /\ log[c] # << >> => now >= log[c][Len(log[c])].time
             /\ log' = [log EXCEPT ![c] = Append(log[c], [report |-> report[t], time |-> now])]
  <1> USE DEF RefInv, TableInv, RestOK, GoTo, Answer
  <1>1. /\ pc[t] = "time" /\ pc'[t] = "unlock" /\ reply[t] = "none"
        /\ req' = req /\ req[t].path = "put" /\ req[t].body \in ClientIds
        /\ log' = [log EXCEPT ![req[t].body] =
                     Append(log[req[t].body], [report |-> report[t], time |-> now])]
    BY DEF PutPush, AfterPush, RouteOK, ControlOK, Series
  <1>2. SessionOf(t) = [op |-> "report", id |-> req[t].body, report |-> report[t]]
    BY <1>1, SessionIs, SessionAt DEF Series
  <1>3. SessionOf(t)' = [op |-> "stored"]
    BY <1>1, SessionIs, SessionAt
  <1>4. log[req[t].body] # << >> => now >= log[req[t].body][Len(log[req[t].body])].time
    <2> SUFFICES ASSUME log[req[t].body] # << >>
                 PROVE  now >= Last(log[req[t].body]).time
      BY DEF Last
    <2>1. Last(log[req[t].body]) \in Entry /\ Last(log[req[t].body]).time <= now
      <3>1. log[req[t].body] \in Seq(Entry)
        BY <1>1
      <3> QED BY <1>1, <3>1 DEF NewestOK, Last
    <2> QED BY <2>1, SizesAssumption DEF Entry, Times
  <1> QED BY <1>1, <1>2, <1>3, <1>4

-----------------------------------------------------------------------------
(* The refinement.                                                         *)

LEMMA RefInvCorrect == Spec => []RefInv
  <1>1. Init => RouteOK /\ NewestOK
    BY NamesAssumption DEF Init, RouteOK, NewestOK, NoRequest, EmptyMap, Series
  <1>2. RouteOK /\ NewestOK /\ TableInv /\ [Next]_vars => (RouteOK /\ NewestOK)'
    BY NextRoute, NextNewest
  <1> QED BY <1>1, <1>2, TableCorrect, ViewsCorrect, PTL DEF Spec, RefInv

LEMMA InitMaps == Init => Store!Init
  <1> SUFFICES ASSUME Init PROVE Store!Init
    OBVIOUS
  <1>1. ASSUME NEW t \in Threads PROVE SessionOf(t) = Store!Idle
    <2>1. pc[t] = "idle" /\ reply[t] = "none"
      BY DEF Init
    <2> QED BY <2>1, SessionIs, SessionAt DEF Store!Idle
  <1> QED BY <1>1 DEF Init, Store!Init

LEMMA SameCardinality == \A S : Store!Cardinality(S) = Cardinality(S)
  BY DEF Store!Cardinality, Cardinality

(***************************************************************************)
(* The map of the Go server has no limit: there is always room for one of  *)
(* the identifiers that is not stored yet.                                 *)
(***************************************************************************)
LEMMA AlwaysRoom ==
    ASSUME IsFiniteSet(ClientIds), NEW c \in ClientIds
    PROVE  c \in Store!Known \/ Cardinality(Store!Known) < Cardinality(ClientIds)
  <1>1. Store!Known \subseteq ClientIds
    BY DEF Store!Known
  <1>2. /\ Cardinality(Store!Known) <= Cardinality(ClientIds)
        /\ Cardinality(ClientIds) = Cardinality(Store!Known) => ClientIds = Store!Known
        /\ IsFiniteSet(Store!Known)
    BY <1>1, FS_Subset
  <1>3. Cardinality(Store!Known) \in Nat /\ Cardinality(ClientIds) \in Nat
    BY <1>2, FS_CardinalityType
  <1> QED BY <1>2, <1>3

LEMMA StepMaps ==
    ASSUME IsFiniteSet(ClientIds), RefInv, RefInv', [Next]_vars
    PROVE  [Store!Next]_(Store!storeVars)
  <1> DEFINE sessions == [u \in Threads |-> SessionOf(u)]
  <1>1. CASE UNCHANGED vars
    <2>1. \A u \in Threads : SessionOf(u)' = SessionOf(u)
      BY <1>1, QuietSession DEF vars, locals, Quiet
    <2> QED BY <1>1, <2>1, Stutter DEF vars, store
  <1>2. CASE Tick
    <2>1. \A u \in Threads : SessionOf(u)' = SessionOf(u)
      BY <1>2, QuietSession DEF Tick, locals, Quiet
    <2> QED BY <1>2, <2>1, Stutter DEF Tick, store
  <1>3. ASSUME NEW t \in Threads,
               (\E r \in Requests : Accept(t, r)) \/ Receive(t) \/ Lock(t) \/ Serve(t)
        PROVE  [Store!Next]_(Store!storeVars)
    <2>1. sessions' = [sessions EXCEPT ![t] = SessionOf(t)'] /\ sessions[t] = SessionOf(t)
      BY <1>3, OnlyOneMoves
    <2>2. CASE SessionOf(t)' = SessionOf(t) /\ log' = log
      BY <1>3, <2>2, OnlyOneMoves, Stutter
    <2>3. CASE HandlePut(t) \/ HandleView(t)
      <3>1. CASE SessionOf(t)' = Store!Idle
        BY <2>2, <2>3, <3>1, BeginSteps
      <3>2. CASE SessionOf(t)' # Store!Idle
        <4>1. Store!Begin(t)
          BY <2>1, <2>3, <3>2, BeginSteps DEF Store!Begin
        <4> QED BY <4>1 DEF Store!Next
      <3> QED BY <3>1, <3>2
    <2>4. CASE Send(t)
      <3>1. CASE SessionOf(t) = Store!Idle
        BY <2>2, <2>4, <3>1, SendStep
      <3>2. CASE SessionOf(t).op \in {"stored", "answered"}
        <4>1. Store!Finish(t)
          BY <2>1, <2>4, <3>2, SendStep DEF Store!Finish
        <4> QED BY <4>1 DEF Store!Next
      <3> QED BY <2>4, <3>1, <3>2, SendStep
    <2>5. CASE Collect(t)
      <3>1. CASE SessionOf(t) = [op |-> "query"]
                 /\ SessionOf(t)' = [op |-> "answered", view |-> Store!View]
        <4>1. Store!Answer(t)
          BY <2>1, <2>5, <3>1, CollectStep DEF Store!Answer
        <4> QED BY <4>1 DEF Store!Next
      <3> QED BY <2>2, <2>5, <3>1, CollectStep
    <2>6. CASE PutPush(t) /\ pc[t] = "time"
      <3>1. Store!Store(t)
        <4> DEFINE c == req[t].body
                   entry == [report |-> report[t], time |-> now]
        <4>1. /\ c \in ClientIds /\ now \in Times
              /\ SessionOf(t) = [op |-> "report", id |-> c, report |-> report[t]]
              /\ SessionOf(t)' = [op |-> "stored"]
              /\ log[c] # << >> => now >= log[c][Len(log[c])].time
              /\ log' = [log EXCEPT ![c] = Append(log[c], entry)]
          BY <2>6, PushStep
        <4>2. c \in Store!Known \/ Cardinality(Store!Known) < Cardinality(ClientIds)
          BY <4>1, AlwaysRoom
        <4>3. /\ sessions[t].op = "report" /\ sessions[t].id = c
              /\ sessions[t].report = report[t]
              /\ sessions' = [sessions EXCEPT ![t] = [op |-> "stored"]]
          <5> HIDE DEF c
          <5> QED BY <2>1, <4>1
        <4>4. \E instant \in Times :
                /\ log[c] # << >> => instant >= log[c][Len(log[c])].time
                /\ log' = [log EXCEPT ![c] =
                             Append(log[c], [report |-> sessions[t].report, time |-> instant])]
          <5> HIDE DEF c, sessions
          <5> QED BY <4>1, <4>3
        <4>5. LET d == sessions[t].id IN
                /\ d \in Store!Known \/ Cardinality(Store!Known) < Cardinality(ClientIds)
                /\ \E instant \in Times :
                     /\ log[d] # << >> => instant >= log[d][Len(log[d])].time
                     /\ log' = [log EXCEPT ![d] =
                                  Append(log[d], [report |-> sessions[t].report, time |-> instant])]
          <5> HIDE DEF c, sessions
          <5> QED BY <4>2, <4>3, <4>4
        <4> QED BY <4>3, <4>5, SameCardinality, Zenon DEF Store!Store
      <3> QED BY <3>1 DEF Store!Next
    <2>7. CASE Encode(t)
      BY <2>2, <2>7, EncodeStep
    <2> QED BY <1>3, <2>2, <2>3, <2>4, <2>5, <2>6, <2>7, HiddenSteps DEF Receive, Serve
  <1> QED BY <1>1, <1>2, <1>3 DEF Next

(***************************************************************************)
(* Whatever goroutines serve it and however their steps interleave, the Go *)
(* server behaves as the store: every report stored takes effect at one    *)
(* instant, and every /data answer, though encoded after the lock was      *)
(* released, is the view of one instant between request and response.      *)
(***************************************************************************)
THEOREM StoreImplemented ==
    ASSUME IsFiniteSet(ClientIds)
    PROVE  Spec => ImplementsStore
  <1>1. RefInv /\ RefInv' /\ [Next]_vars => [Store!Next]_(Store!storeVars)
    BY StepMaps
  <1> QED BY <1>1, InitMaps, RefInvCorrect, PTL DEF Spec, ImplementsStore, Store!Spec

-----------------------------------------------------------------------------
(* The lock as the handlers use it.                                        *)

At == [u \in Threads |-> PlaceOf(u)]

(***************************************************************************)
(* The step of one goroutine moves that one in RWMutex as well.            *)
(***************************************************************************)
LEMMA OnePlaceMoves ==
    ASSUME RestOK, NEW t \in Threads, NEW place, pc' = [pc EXCEPT ![t] = place]
    PROVE  At' = [At EXCEPT ![t] = PlaceOf(t)'] /\ pc'[t] = place
  <1>1. \A u \in Threads : u # t => pc'[u] = pc[u]
    BY DEF RestOK
  <1>2. \A u \in Threads : u # t => PlaceOf(u)' = PlaceOf(u)
    BY <1>1 DEF PlaceOf
  <1>3. pc'[t] = place
    BY DEF RestOK
  <1> QED BY <1>2, <1>3 DEF At

(***************************************************************************)
(* A goroutine that goes on between two places that are one in RWMutex.    *)
(***************************************************************************)
LEMMA SamePlace ==
    ASSUME RestOK, NEW t \in Threads, NEW place, pc' = [pc EXCEPT ![t] = place],
           PlaceOf(t)' = PlaceOf(t), UNCHANGED rwmutex
    PROVE  UNCHANGED Mutex!mutexVars
  <1>1. At' = [At EXCEPT ![t] = PlaceOf(t)]
    BY OnePlaceMoves
  <1>2. At' = At
    BY <1>1 DEF At
  <1> QED BY <1>2 DEF Mutex!mutexVars, At, rwmutex

LEMMA MutexSteps ==
    ASSUME RestOK, [Next]_vars
    PROVE  [Mutex!Next]_(Mutex!mutexVars)
  <1> USE DEF GoTo, Answer, rwmutex
  <1>1. CASE UNCHANGED vars \/ Tick
    BY <1>1 DEF vars, Tick, Mutex!mutexVars, PlaceOf
  <1>2. ASSUME NEW t \in Threads, (\E r \in Requests : Accept(t, r)) \/ Send(t)
        PROVE  UNCHANGED Mutex!mutexVars
    <2>1. UNCHANGED rwmutex /\ \E place \in {"recv", "idle"} : pc' = [pc EXCEPT ![t] = place]
      BY <1>2 DEF Accept, Send
    <2>2. pc[t] \in {"idle", "send"} /\ pc'[t] \in {"recv", "idle"}
      BY <1>2, <2>1 DEF Accept, Send, RestOK
    <2> QED BY <2>1, <2>2, SamePlace DEF PlaceOf, Series
  <1>3. ASSUME NEW t \in Threads, Receive(t)
        PROVE  Mutex!CallLock(t) \/ Mutex!CallRLock(t) \/ UNCHANGED Mutex!mutexVars
    <2>1. UNCHANGED rwmutex /\ pc[t] = "recv"
          /\ \E place \in {"lock", "rlock", "send"} : pc' = [pc EXCEPT ![t] = place]
      BY <1>3 DEF Receive, HandlePut, HandleView, HandleRoot
    <2>2. At[t] = "out"
      BY <2>1 DEF At, PlaceOf, Series
    <2>3. CASE pc' = [pc EXCEPT ![t] = "lock"]
      <3>1. At' = [At EXCEPT ![t] = "lock"]
        <4>1. At' = [At EXCEPT ![t] = PlaceOf(t)'] /\ pc'[t] = "lock"
          BY <2>3, OnePlaceMoves
        <4> QED BY <4>1 DEF PlaceOf, Series
      <3> QED BY <2>1, <2>2, <3>1 DEF At, Mutex!CallLock, Mutex!Move
    <2>4. CASE pc' = [pc EXCEPT ![t] = "rlock"]
      <3>1. At' = [At EXCEPT ![t] = "rlock"]
        <4>1. At' = [At EXCEPT ![t] = PlaceOf(t)'] /\ pc'[t] = "rlock"
          BY <2>4, OnePlaceMoves
        <4> QED BY <4>1 DEF PlaceOf, Series
      <3> QED BY <2>1, <2>2, <3>1 DEF At, Mutex!CallRLock, Mutex!Move
    <2>5. CASE pc' = [pc EXCEPT ![t] = "send"]
      <3>1. pc'[t] = "send"
        BY <2>5 DEF RestOK
      <3> QED BY <2>1, <2>5, <3>1, SamePlace DEF PlaceOf, Series
    <2> QED BY <2>1, <2>3, <2>4, <2>5
  <1>4. ASSUME NEW t \in Threads, Lock(t) PROVE Mutex!Lock(t)
    <2>1. At' = [At EXCEPT ![t] = PlaceOf(t)'] /\ pc'[t] = "drain"
      BY <1>4, OnePlaceMoves DEF Lock
    <2>2. At' = [At EXCEPT ![t] = "drain"] /\ At[t] = "lock"
      BY <1>4, <2>1 DEF Lock, At, PlaceOf, Series
    <2> QED BY <1>4, <2>2 DEF Lock, At, Mutex!Lock, Mutex!Move
  <1>5. ASSUME NEW t \in Threads, LockGranted(t) PROVE Mutex!LockGranted(t)
    <2>1. At' = [At EXCEPT ![t] = PlaceOf(t)'] /\ pc'[t] = "store"
      BY <1>5, OnePlaceMoves DEF LockGranted
    <2>2. At' = [At EXCEPT ![t] = "write"] /\ At[t] = "drain"
      BY <1>5, <2>1 DEF LockGranted, At, PlaceOf, Series
    <2> QED BY <1>5, <2>2 DEF LockGranted, Drained, At, Mutex!LockGranted, Mutex!Move
  <1>6. ASSUME NEW t \in Threads, Unlock(t) PROVE Mutex!Unlock(t)
    <2>1. At' = [At EXCEPT ![t] = PlaceOf(t)'] /\ pc'[t] = "send"
      BY <1>6, OnePlaceMoves DEF Unlock
    <2>2. At' = [At EXCEPT ![t] = "out"] /\ At[t] = "write"
      BY <1>6, <2>1 DEF Unlock, At, PlaceOf, Series
    <2> QED BY <1>6, <2>2 DEF Unlock, At, Mutex!Unlock, Mutex!Move
  <1>7. ASSUME NEW t \in Threads, RLock(t) PROVE Mutex!RLock(t)
    <2>1. At[t] = "rlock" /\ writer' = writer
      BY <1>7 DEF RLock, At, PlaceOf, Series
    <2>2. CASE writer = NoThread
      <3>1. pc' = [pc EXCEPT ![t] = "collect"] /\ readers' = readers \union {t}
            /\ rwait' = rwait
        BY <1>7, <2>2 DEF RLock
      <3>2. At' = [At EXCEPT ![t] = PlaceOf(t)'] /\ pc'[t] = "collect"
        BY <3>1, OnePlaceMoves
      <3>3. At' = [At EXCEPT ![t] = "read"]
        BY <3>2 DEF PlaceOf, Series
      <3> QED BY <2>1, <2>2, <3>1, <3>3 DEF At, Mutex!RLock, Mutex!Move
    <2>3. CASE writer # NoThread
      <3>1. pc' = [pc EXCEPT ![t] = "rwait"] /\ rwait' = rwait \union {t}
            /\ readers' = readers
        BY <1>7, <2>3 DEF RLock
      <3>2. At' = [At EXCEPT ![t] = PlaceOf(t)'] /\ pc'[t] = "rwait"
        BY <3>1, OnePlaceMoves
      <3>3. At' = [At EXCEPT ![t] = "rwait"]
        BY <3>2 DEF PlaceOf, Series
      <3> QED BY <2>1, <2>3, <3>1, <3>3 DEF At, Mutex!RLock, Mutex!Move
    <2> QED BY <2>2, <2>3
  <1>8. ASSUME NEW t \in Threads, RLockGranted(t) PROVE Mutex!RLockGranted(t)
    <2>1. At' = [At EXCEPT ![t] = PlaceOf(t)'] /\ pc'[t] = "collect"
      BY <1>8, OnePlaceMoves DEF RLockGranted
    <2>2. At' = [At EXCEPT ![t] = "read"] /\ At[t] = "rwait"
      BY <1>8, <2>1 DEF RLockGranted, At, PlaceOf, Series
    <2> QED BY <1>8, <2>2 DEF RLockGranted, At, Mutex!RLockGranted, Mutex!Move
  <1>9. ASSUME NEW t \in Threads, RUnlock(t) PROVE Mutex!RUnlock(t)
    <2>1. At' = [At EXCEPT ![t] = PlaceOf(t)'] /\ pc'[t] = "encode"
      BY <1>9, OnePlaceMoves DEF RUnlock
    <2>2. At' = [At EXCEPT ![t] = "out"] /\ At[t] = "read"
      BY <1>9, <2>1 DEF RUnlock, At, PlaceOf, Series
    <2> QED BY <1>9, <2>2 DEF RUnlock, At, Mutex!RUnlock, Mutex!Move
  <1>10. ASSUME NEW t \in Threads, PutStore(t) \/ PutPush(t) PROVE UNCHANGED Mutex!mutexVars
    <2>1. PICK place \in {"load", "mem", "time", "unlock"} : pc' = [pc EXCEPT ![t] = place]
      <3>1. CASE PutStore(t)
        BY <3>1 DEF PutStore
      <3>2. CASE PutPush(t)
        <4>1. pc' = [pc EXCEPT ![t] = AfterPush[pc[t]]] /\ pc[t] \in Series
          BY <3>2 DEF PutPush
        <4>2. AfterPush[pc[t]] \in {"load", "mem", "time", "unlock"}
          BY <4>1 DEF AfterPush, Series
        <4> QED BY <4>1, <4>2
      <3> QED BY <1>10, <3>1, <3>2
    <2>2. UNCHANGED rwmutex /\ pc[t] \in {"store", "load", "mem", "time"} /\ pc'[t] = place
      BY <1>10, <2>1 DEF PutStore, PutPush, Series, RestOK
    <2> QED BY <2>1, <2>2, SamePlace DEF PlaceOf, Series
  <1>11. ASSUME NEW t \in Threads, Collect(t) PROVE UNCHANGED Mutex!mutexVars
    <2>1. pc' = [pc EXCEPT ![t] = "runlock"] /\ UNCHANGED rwmutex
          /\ pc[t] = "collect" /\ pc'[t] = "runlock"
      BY <1>11 DEF Collect, RestOK
    <2> QED BY <2>1, SamePlace DEF PlaceOf, Series
  <1>12. ASSUME NEW t \in Threads, Encode(t) PROVE UNCHANGED Mutex!mutexVars
    <2>1. UNCHANGED rwmutex /\ pc[t] = "encode"
          /\ (UNCHANGED pc \/ pc' = [pc EXCEPT ![t] = "send"])
      BY <1>12 DEF Encode
    <2>2. CASE UNCHANGED pc
      BY <2>1, <2>2 DEF Mutex!mutexVars, PlaceOf
    <2>3. CASE pc' = [pc EXCEPT ![t] = "send"]
      <3>1. pc'[t] = "send"
        BY <2>3 DEF RestOK
      <3> QED BY <2>1, <2>3, <3>1, SamePlace DEF PlaceOf, Series
    <2> QED BY <2>1, <2>2, <2>3
  <1>13. ASSUME NEW t \in Threads, Lock(t) \/ Serve(t) \/ Receive(t)
                                    \/ \E r \in Requests : Accept(t, r)
         PROVE  [Mutex!Next]_(Mutex!mutexVars)
    BY <1>2, <1>3, <1>4, <1>5, <1>6, <1>7, <1>8, <1>9, <1>10, <1>11, <1>12, <1>13
    DEF Serve, Mutex!Next, Mutex!Call, Mutex!Pass
  <1> QED BY <1>1, <1>13 DEF Next

(***************************************************************************)
(* handlePut and getClientInfo use the lock as RWMutex has it, so what is  *)
(* shown of RWMutex, for reports and views that never cease, holds of the  *)
(* server.                                                                 *)
(***************************************************************************)
THEOREM MutexImplemented == Spec => ImplementsMutex
  <1>1. Init => Mutex!Init
    BY DEF Init, Mutex!Init, PlaceOf, Series
  <1>2. TableInv /\ [Next]_vars => [Mutex!Next]_(Mutex!mutexVars)
    BY MutexSteps DEF TableInv
  <1> QED BY <1>1, <1>2, TableCorrect, PTL DEF Spec, ImplementsMutex, Mutex!Spec

(***************************************************************************)
(* handlePut changes the map alone, for every number of goroutines: its    *)
(* place in RWMutex is taken by one, and then no getClientInfo reads.      *)
(***************************************************************************)
THEOREM WritersCorrect == Spec => []Mutex!WritersAreAlone
  <1>1. TableInv => Mutex!WritersAreAlone
    <2> SUFFICES ASSUME RestOK, LockOK PROVE Mutex!WritersAreAlone
      BY DEF TableInv
    <2>1. \A t \in Threads : At[t] \in Mutex!Places
      BY DEF At, PlaceOf, Mutex!Places
    <2>2. Mutex!TypeOK
      BY <2>1 DEF RestOK, At, Mutex!TypeOK
    <2>3. ASSUME NEW t \in Threads, At[t] = "write", NEW u \in Threads \ {t}
          PROVE  At[u] \notin {"write", "read"}
      <3>1. pc[t] \in {"store", "unlock"} \union Series
        BY <2>3 DEF At, PlaceOf
      <3>2. writer = t /\ readers = {}
        BY <3>1 DEF LockOK
      <3>3. pc[u] \notin {"store", "unlock"} \union Series
        BY <2>3, <3>2 DEF LockOK
      <3>4. pc[u] \notin {"collect", "runlock"}
        BY <3>2 DEF LockOK
      <3> QED BY <3>3, <3>4 DEF At, PlaceOf
    <2> QED BY <2>2, <2>3 DEF Mutex!WritersAreAlone, At
  <1> QED BY <1>1, TableCorrect, PTL

=============================================================================
