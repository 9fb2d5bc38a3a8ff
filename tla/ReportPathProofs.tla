-------------------------- MODULE ReportPathProofs --------------------------
(***************************************************************************)
(* Proofs about the way of a report: what the folds over texts, links and  *)
(* addresses compute, for sequences of any length; from that, what arrives *)
(* in the table (Inv), on the page, and of two clients on one machine; and *)
(* the arithmetic of ages, uptimes and sizes.                              *)
(***************************************************************************)
EXTENDS ReportPath, SequenceTheorems, FiniteSetTheorems, WellFoundedInduction, TLAPS

-----------------------------------------------------------------------------
(* Induction.  The library's rules take a predicate; here it is a set.     *)

LEMMA LeastOf ==
    ASSUME NEW S, S \subseteq Nat, S # {}
    PROVE  \E i \in S : \A j \in S : i <= j
  <1>1. PICK i \in S : \A j \in S : <<j, i>> \notin OpToRel(<, Nat)
    BY NatLessThanWellFounded, WFMin, Zenon
  <1>2. \A j \in S : ~ (j < i)
    BY <1>1, Zenon DEF OpToRel
  <1> QED
    BY <1>2

LEMMA Induction ==
    ASSUME NEW m \in Nat, NEW P, 0 \in P, \A n \in 1 .. m : n - 1 \in P => n \in P
    PROVE  \A n \in 0 .. m : n \in P
  <1> DEFINE fails == {n \in 0 .. m : n \notin P}
  <1>1. fails = {}
    <2>1. SUFFICES ASSUME fails # {} PROVE FALSE
      OBVIOUS
    <2>2. fails \subseteq Nat
      OBVIOUS
    <2>3. PICK n \in fails : \A j \in fails : n <= j
      BY <2>1, <2>2, LeastOf
    <2>4. n # 0 /\ n \in 1 .. m /\ n - 1 \in 0 .. m /\ n - 1 \notin fails
      BY <2>3
    <2> QED
      BY <2>3, <2>4
  <1> QED
    BY <1>1

-----------------------------------------------------------------------------
(* Folds.  FoldLeft is a recursion over sets of positions; the lemmas say  *)
(* that it goes through a sequence from left to right.                     *)

IterOn(it, S, s, start, step) ==
    \A t \in SUBSET S :
       it[t] = IF t = {} THEN start ELSE step[it[t \ {Max(t)}]][s[Max(t)]]

LEMMA MaxOf ==
    ASSUME NEW n \in Nat, NEW t \in SUBSET (1 .. n + 1), n + 1 \in t
    PROVE  Max(t) = n + 1
  <1>1. \A y \in t : n + 1 >= y
    OBVIOUS
  <1>2. Max(t) \in t /\ \A y \in t : Max(t) >= y
    BY <1>1, Zenon DEF Max
  <1>3. Max(t) \in 1 .. n + 1 /\ Max(t) >= n + 1
    BY <1>2
  <1> QED
    BY <1>3

LEMMA IterExists ==
    ASSUME NEW D, NEW E, NEW start \in D, NEW step \in [D -> [E -> D]], NEW s \in Seq(E)
    PROVE  \E it \in [SUBSET (1 .. Len(s)) -> D] : IterOn(it, 1 .. Len(s), s, start, step)
  <1> DEFINE Exists(n) == \E it \in [SUBSET (1 .. n) -> D] : IterOn(it, 1 .. n, s, start, step)
             P == {n \in 0 .. Len(s) : Exists(n)}
  <1>1. 0 \in P
    <2> DEFINE jt == [t \in SUBSET (1 .. 0) |-> start]
    <2>1. jt \in [SUBSET (1 .. 0) -> D]
      OBVIOUS
    <2>2. \A t \in SUBSET (1 .. 0) : t = {} /\ jt[t] = start
      OBVIOUS
    <2> HIDE DEF jt
    <2>3. IterOn(jt, 1 .. 0, s, start, step)
      BY <2>2 DEF IterOn
    <2>4. Exists(0)
      BY <2>1, <2>3
    <2>5. 0 \in 0 .. Len(s)
      OBVIOUS
    <2> HIDE DEF Exists
    <2> QED
      BY <2>4, <2>5
  <1>2. ASSUME NEW n \in 1 .. Len(s), n - 1 \in P PROVE n \in P
    <2> DEFINE m == n - 1
    <2>1. PICK it \in [SUBSET (1 .. m) -> D] : IterOn(it, 1 .. m, s, start, step)
      BY <1>2
    <2>2. m \in Nat /\ m + 1 = n /\ s[n] \in E
      OBVIOUS
    <2> HIDE DEF m
    <2> DEFINE jt == [t \in SUBSET (1 .. n) |->
                        IF n \in t THEN step[it[t \ {n}]][s[n]] ELSE it[t]]
    <2>3. \A t \in SUBSET (1 .. n) : /\ t \ {n} \in SUBSET (1 .. m)
                                     /\ n \notin t => t \in SUBSET (1 .. m)
      BY <2>2
    <2>4. jt \in [SUBSET (1 .. n) -> D]
      <3>1. ASSUME NEW t \in SUBSET (1 .. n)
            PROVE  (IF n \in t THEN step[it[t \ {n}]][s[n]] ELSE it[t]) \in D
        <4>1. CASE n \in t
          <5>1. it[t \ {n}] \in D
            BY <2>3
          <5>2. step[it[t \ {n}]] \in [E -> D]
            BY <5>1
          <5> QED
            BY <2>2, <4>1, <5>2
        <4>2. CASE n \notin t
          BY <2>3, <4>2
        <4> QED
          BY <4>1, <4>2
      <3> QED
        BY <3>1
    <2>5. IterOn(jt, 1 .. n, s, start, step)
      <3> SUFFICES ASSUME NEW t \in SUBSET (1 .. n)
                   PROVE  jt[t] = IF t = {} THEN start
                                  ELSE step[jt[t \ {Max(t)}]][s[Max(t)]]
        BY DEF IterOn
      <3>1. CASE n \in t
        <4>1. Max(t) = n
          BY <2>2, <3>1, MaxOf
        <4>2. jt[t \ {n}] = it[t \ {n}]
          BY <2>3
        <4> QED
          BY <3>1, <4>1, <4>2
      <3>2. CASE n \notin t
        <4>1. t \in SUBSET (1 .. m)
          BY <2>3, <3>2
        <4>2. jt[t] = it[t] /\ jt[t \ {Max(t)}] = it[t \ {Max(t)}]
          BY <3>2
        <4> QED
          BY <2>1, <4>1, <4>2 DEF IterOn
      <3> QED
        BY <3>1, <3>2
    <2>6. Exists(n)
      BY <2>4, <2>5
    <2> QED
      BY <2>6
  <1> HIDE DEF P
  <1>3. Len(s) \in P
    <2>1. Len(s) \in Nat /\ Len(s) \in 0 .. Len(s)
      OBVIOUS
    <2> QED
      BY <1>1, <1>2, <2>1, Induction
  <1> QED
    BY <1>3, Zenon DEF P

LEMMA MaxIn ==
    ASSUME NEW n \in Nat, NEW t \in SUBSET (1 .. n), t # {}
    PROVE  Max(t) \in t
  <1> DEFINE bounds == {k \in Nat : \A y \in t : k >= y}
  <1>1. n \in bounds
    OBVIOUS
  <1>2. PICK k \in bounds : \A j \in bounds : k <= j
    BY <1>1, LeastOf
  <1>3. k \in t
    <2>1. SUFFICES ASSUME k \notin t PROVE FALSE
      OBVIOUS
    <2>2. \A y \in t : k > y /\ k - 1 >= y
      BY <2>1
    <2>3. k - 1 \in Nat
      <3>1. PICK y \in t : y \in 1 .. n
        OBVIOUS
      <3> QED
        BY <2>2, <3>1
    <2>4. k - 1 \in bounds
      BY <2>2, <2>3
    <2> QED
      BY <1>2, <2>4
  <1> QED
    BY <1>2, <1>3, Zenon DEF Max

(***************************************************************************)
(* The values that a fold goes through.                                    *)
(***************************************************************************)
Goes(g, D, s, start, step) ==
    /\ g \in [0 .. Len(s) -> D]
    /\ g[0] = start
    /\ \A n \in 1 .. Len(s) : g[n] = step[g[n - 1]][s[n]]

Iterates(it, D, s, start, step) ==
    /\ it[{}] = start
    /\ \A t \in SUBSET (1 .. Len(s)) :
          t # {} /\ it[t \ {Max(t)}] \in D => it[t] = step[it[t \ {Max(t)}]][s[Max(t)]]

Positions(it, s) == [n \in 0 .. Len(s) |-> it[1 .. n]]

LEMMA IterSteps ==
    ASSUME NEW D, NEW E, NEW start \in D, NEW step \in [D -> [E -> D]], NEW s \in Seq(E),
           NEW it, Iterates(it, D, s, start, step)
    PROVE  Goes(Positions(it, s), D, s, start, step)
  <1> DEFINE g == [n \in 0 .. Len(s) |-> it[1 .. n]]
             P == {n \in 0 .. Len(s) : /\ g[n] \in D
                                       /\ n > 0 => g[n] = step[g[n - 1]][s[n]]}
  <1>1. g[0] = start
    <2>1. g[0] = it[1 .. 0] /\ 1 .. 0 = {}
      OBVIOUS
    <2> QED
      BY <2>1 DEF Iterates
  <1>2. ASSUME NEW n \in 1 .. Len(s), g[n - 1] \in D PROVE g[n] = step[g[n - 1]][s[n]]
    <2> DEFINE t == 1 .. n
    <2>1. t \in SUBSET (1 .. Len(s)) /\ n \in t
      OBVIOUS
    <2>2. Max(t) = n
      <3>1. n - 1 \in Nat /\ (n - 1) + 1 = n
        OBVIOUS
      <3> QED
        BY <2>1, <3>1, MaxOf
    <2>3. t \ {n} = 1 .. n - 1
      BY SMTT(30)
    <2>4. g[n] = it[t] /\ g[n - 1] = it[t \ {n}]
      <3>1. n \in 0 .. Len(s) /\ n - 1 \in 0 .. Len(s)
        OBVIOUS
      <3> QED
        BY <2>3, <3>1
    <2> HIDE DEF g
    <2>5. t # {} /\ t \ {Max(t)} = t \ {n}
      BY <2>1, <2>2
    <2> HIDE DEF t
    <2>6. it[t \ {Max(t)}] \in D => it[t] = step[it[t \ {Max(t)}]][s[Max(t)]]
      BY <2>1, <2>5, Zenon DEF Iterates
    <2>7. it[t \ {Max(t)}] = g[n - 1]
      BY <2>4, <2>5, Zenon
    <2> QED
      BY <1>2, <2>2, <2>4, <2>6, <2>7, Zenon
  <1> HIDE DEF g
  <1>3. 0 \in P
    BY <1>1
  <1>4. ASSUME NEW n \in 1 .. Len(s), n - 1 \in P PROVE n \in P
    <2>1. s[n] \in E /\ g[n - 1] \in D
      BY <1>4
    <2>2. step[g[n - 1]][s[n]] \in D
      BY <2>1
    <2>3. g[n] = step[g[n - 1]][s[n]]
      BY <1>2, <2>1, Zenon
    <2>4. n \in 0 .. Len(s)
      OBVIOUS
    <2> QED
      BY <2>2, <2>3, <2>4, Zenon
  <1> HIDE DEF P
  <1>5. \A n \in 0 .. Len(s) : n \in P
    <2>1. Len(s) \in Nat
      OBVIOUS
    <2> QED
      BY <1>3, <1>4, <2>1, Induction
  <1>6. g \in [0 .. Len(s) -> D]
    <2>1. g = [n \in 0 .. Len(s) |-> g[n]]
      BY DEF g
    <2> QED
      BY <1>5, <2>1 DEF P
  <1>7. \A n \in 1 .. Len(s) : g[n] = step[g[n - 1]][s[n]]
    BY <1>5 DEF P
  <1>8. Goes(g, D, s, start, step)
    BY <1>1, <1>6, <1>7 DEF Goes
  <1> QED
    BY <1>8 DEF g, Positions

-----------------------------------------------------------------------------
(* Escaping.                                                               *)

LEMMA EscapeType ==
    ASSUME NEW len, NEW dst \in Seq(Characters), NEW c \in Characters
    PROVE  EscapeInto(len, dst, c) \in Seq(Characters)
  <1>1. /\ "backslash" \in Characters
        /\ \A x \in DOMAIN Escapes : Escapes[x] \in Characters
    BY DEF Characters, Escapes
  <1> QED
    BY <1>1 DEF EscapeInto

LEMMA EscapeSteps ==
    ASSUME NEW len, NEW s \in Seq(Characters)
    PROVE  \E g \in [0 .. Len(s) -> Seq(Characters)] :
              /\ g[0] = <<>>
              /\ \A n \in 1 .. Len(s) : g[n] = EscapeInto(len, g[n - 1], s[n])
              /\ escape_json_string(s, len) = g[Len(s)]
  <1> DEFINE D == Seq(Characters)
             step == [d \in D |-> [c \in Characters |-> EscapeInto(len, d, c)]]
             Is(it) == it = [t \in SUBSET (DOMAIN s) |->
                               IF t = {} THEN <<>>
                               ELSE EscapeInto(len, it[t \ {Max(t)}], s[Max(t)])]
             jt == CHOOSE it : Is(it)
  <1>1. step \in [D -> [Characters -> D]] /\ <<>> \in D /\ DOMAIN s = 1 .. Len(s)
    BY EscapeType
  <1>2. \A t \in SUBSET (1 .. Len(s)) : t # {} => s[Max(t)] \in Characters
    <2>1. Len(s) \in Nat /\ \A n \in 1 .. Len(s) : s[n] \in Characters
      OBVIOUS
    <2> QED
      BY <2>1, MaxIn
  <1>3. \A d \in D, c \in Characters : step[d][c] = EscapeInto(len, d, c)
    OBVIOUS
  <1>4. escape_json_string(s, len) = jt[DOMAIN s]
    BY Zenon DEF escape_json_string, FoldLeft, MapThenFoldSet
  <1> HIDE DEF step, D
  <1>5. \E it : Is(it)
    <2>1. PICK it \in [SUBSET (1 .. Len(s)) -> D] : IterOn(it, 1 .. Len(s), s, <<>>, step)
      BY <1>1, IterExists
    <2>2. \A t \in SUBSET (1 .. Len(s)) :
             it[t] = IF t = {} THEN <<>>
                     ELSE EscapeInto(len, it[t \ {Max(t)}], s[Max(t)])
      BY <1>2, <1>3, <2>1 DEF IterOn
    <2> QED
      BY <1>1, <2>1, <2>2
  <1>6. Is(jt)
    BY <1>5, Zenon
  <1> HIDE DEF jt
  <1>7. Goes(Positions(jt, s), D, s, <<>>, step)
    <2>1. /\ jt[{}] = <<>>
          /\ \A t \in SUBSET (1 .. Len(s)) : t # {} =>
                jt[t] = EscapeInto(len, jt[t \ {Max(t)}], s[Max(t)])
      BY <1>1, <1>6
    <2>2. \A t \in SUBSET (1 .. Len(s)) : t # {} /\ jt[t \ {Max(t)}] \in D =>
             jt[t] = step[jt[t \ {Max(t)}]][s[Max(t)]]
      BY <1>2, <1>3, <2>1
    <2>3. Iterates(jt, D, s, <<>>, step)
      BY <2>1, <2>2 DEF Iterates
    <2> QED
      BY <1>1, <2>3, IterSteps
  <1> DEFINE g == Positions(jt, s)
  <1>8. g[Len(s)] = jt[DOMAIN s]
    BY <1>1 DEF Positions
  <1> HIDE DEF g
  <1>9. g \in [0 .. Len(s) -> D] /\ g[0] = <<>>
    BY <1>7 DEF Goes, g
  <1>10. ASSUME NEW n \in 1 .. Len(s) PROVE g[n] = EscapeInto(len, g[n - 1], s[n])
    <2>1. g[n] = step[g[n - 1]][s[n]]
      BY <1>7 DEF Goes, g
    <2>2. g[n - 1] \in D /\ s[n] \in Characters
      BY <1>9
    <2> QED
      BY <1>3, <2>1, <2>2
  <1> QED
    BY <1>4, <1>8, <1>9, <1>10 DEF D

-----------------------------------------------------------------------------
(* Flattening.                                                             *)

LEMMA FlattenSteps ==
    ASSUME NEW E, NEW ss \in Seq(Seq(E))
    PROVE  \E g \in [0 .. Len(ss) -> Seq(E)] :
              /\ g[0] = <<>>
              /\ \A n \in 1 .. Len(ss) : g[n] = g[n - 1] \o ss[n]
              /\ FlattenSeq(ss) = g[Len(ss)]
  <1> DEFINE Is(f, m) == f = [i \in 1 .. m |-> IF i = 1 THEN ss[i] ELSE f[i - 1] \o ss[i]]
             Exists(m) == \E f : Is(f, m)
             P == {m \in 0 .. Len(ss) : Exists(m)}
             F == CHOOSE f : Is(f, Len(ss))
             g == [n \in 0 .. Len(ss) |-> IF n = 0 THEN <<>> ELSE F[n]]
  <1>1. Len(ss) \in Nat /\ \A n \in 1 .. Len(ss) : ss[n] \in Seq(E)
    OBVIOUS
  <1>2. 0 \in P
    <2>1. Is([i \in 1 .. 0 |-> <<>>], 0)
      OBVIOUS
    <2>2. Exists(0)
      BY <2>1
    <2> HIDE DEF Exists
    <2> QED
      BY <1>1, <2>2
  <1>3. ASSUME NEW n \in 1 .. Len(ss), n - 1 \in P PROVE n \in P
    <2>1. PICK f : Is(f, n - 1)
      BY <1>3
    <2> DEFINE h == [i \in 1 .. n |-> IF i < n THEN f[i]
                                      ELSE IF n = 1 THEN ss[n] ELSE f[n - 1] \o ss[n]]
    <2>2. ASSUME NEW i \in 1 .. n
          PROVE  h[i] = IF i = 1 THEN ss[i] ELSE h[i - 1] \o ss[i]
      <3>1. CASE i = n
        BY <3>1
      <3>2. CASE i < n
        <4>1. i \in 1 .. n - 1 /\ h[i] = f[i] /\ (i > 1 => h[i - 1] = f[i - 1])
          BY <3>2
        <4>2. f[i] = IF i = 1 THEN ss[i] ELSE f[i - 1] \o ss[i]
          BY <2>1, <4>1
        <4> HIDE DEF h
        <4> QED
          BY <4>1, <4>2
      <3> QED
        BY <3>1, <3>2
    <2>3. h = [i \in 1 .. n |-> h[i]]
      OBVIOUS
    <2> HIDE DEF h
    <2>4. Is(h, n)
      BY <2>2, <2>3
    <2> HIDE DEF Is
    <2>5. Exists(n)
      BY <2>4, Zenon
    <2>6. n \in 0 .. Len(ss)
      OBVIOUS
    <2> HIDE DEF Exists
    <2> QED
      BY <2>5, <2>6, Zenon
  <1> HIDE DEF P
  <1>14. Len(ss) \in Nat /\ Len(ss) \in 0 .. Len(ss)
    BY <1>1
  <1>4. \E f : Is(f, Len(ss))
    <2>1. Len(ss) \in P
      BY <1>2, <1>3, <1>14, Induction
    <2> QED
      BY <2>1 DEF P
  <1>5. Is(F, Len(ss))
    BY <1>4, Zenon
  <1>6. ss # <<>> => FlattenSeq(ss) = F[Len(ss)]
    <2>1. ss # <<>> => Len(ss) # 0
      OBVIOUS
    <2> QED
      BY <2>1, Zenon DEF FlattenSeq
  <1> HIDE DEF F
  <1>7. ASSUME NEW n \in 1 .. Len(ss)
        PROVE  F[n] = IF n = 1 THEN ss[n] ELSE F[n - 1] \o ss[n]
    BY <1>5
  <1> DEFINE Q == {n \in 0 .. Len(ss) :
                      g[n] \in Seq(E) /\ (n > 0 => g[n] = g[n - 1] \o ss[n])}
  <1>8. 0 \in Q
    BY <1>1
  <1>9. ASSUME NEW n \in 1 .. Len(ss), n - 1 \in Q PROVE n \in Q
    <2>1. g[n] = g[n - 1] \o ss[n]
      <3>1. CASE n = 1
        <4>1. g[n] = ss[n] /\ g[n - 1] = <<>>
          BY <1>7, <3>1
        <4> HIDE DEF g
        <4> QED
          BY <1>1, <4>1
      <3>2. CASE n > 1
        <4>1. g[n] = F[n] /\ g[n - 1] = F[n - 1]
          BY <3>2
        <4>2. n # 1
          BY <3>2
        <4>3. F[n] = F[n - 1] \o ss[n]
          BY <1>7, <4>2, Zenon
        <4> HIDE DEF g
        <4> QED
          BY <4>1, <4>3
      <3>3. n = 1 \/ n > 1
        OBVIOUS
      <3> HIDE DEF g
      <3> QED
        BY <3>1, <3>2, <3>3, Zenon
    <2>2. g[n - 1] \in Seq(E) /\ n \in 0 .. Len(ss)
      BY <1>9
    <2> HIDE DEF g
    <2>3. g[n - 1] \o ss[n] \in Seq(E)
      BY <1>1, <2>2
    <2> QED
      BY <2>1, <2>2, <2>3
  <1>10. FlattenSeq(ss) = g[Len(ss)]
    <2>1. CASE ss = <<>>
      BY <2>1 DEF FlattenSeq
    <2>2. CASE ss # <<>>
      BY <1>1, <1>6, <2>2
    <2> QED
      BY <2>1, <2>2
  <1>11. g = [n \in 0 .. Len(ss) |-> g[n]] /\ g[0] = <<>>
    BY <1>1
  <1> HIDE DEF g, Q
  <1>12. \A n \in 0 .. Len(ss) : n \in Q
    <2>1. \A n \in 1 .. Len(ss) : n - 1 \in Q => n \in Q
      BY <1>9
    <2>2. Len(ss) \in Nat
      BY <1>1
    <2> QED
      BY <1>8, <2>1, <2>2, Induction
  <1>13. g \in [0 .. Len(ss) -> Seq(E)] /\ \A n \in 1 .. Len(ss) : g[n] = g[n - 1] \o ss[n]
    <2>1. \A n \in 0 .. Len(ss) : g[n] \in Seq(E)
      BY <1>12 DEF Q
    <2>2. ASSUME NEW n \in 1 .. Len(ss) PROVE g[n] = g[n - 1] \o ss[n]
      <3>1. n \in Q /\ n > 0
        BY <1>12
      <3> QED
        BY <3>1 DEF Q
    <2>3. g \in [0 .. Len(ss) -> Seq(E)]
      BY <1>11, <2>1, Zenon
    <2> QED
      BY <2>2, <2>3
  <1> QED
    BY <1>10, <1>11, <1>13

-----------------------------------------------------------------------------
(* Reading a string of JSON.                                               *)

Wired == Characters \union {"u"}

NothingRead == [text |-> <<>>, escape |-> FALSE, broken |-> FALSE]
ReadType == [text : Seq(Wired), escape : BOOLEAN, broken : BOOLEAN]

End(s) == FoldLeft(Decoded, NothingRead, s)

LEMMA DecodedType ==
    ASSUME NEW st \in ReadType, NEW c \in Wired
    PROVE  Decoded(st, c) \in ReadType
  <1> DEFINE d == CASE c = "n" -> "newline" [] c = "u" -> "control" [] OTHER -> c
  <1>1. d \in Wired
    BY DEF Wired, Characters
  <1>2. Append(st.text, d) \in Seq(Wired) /\ Append(st.text, c) \in Seq(Wired)
    BY <1>1 DEF ReadType
  <1> HIDE DEF d
  <1> QED
    BY <1>2 DEF Decoded, ReadType, d

LEMMA DecodeSteps ==
    ASSUME NEW s \in Seq(Wired)
    PROVE  \E g \in [0 .. Len(s) -> ReadType] :
              /\ g[0] = NothingRead
              /\ \A n \in 1 .. Len(s) : g[n] = Decoded(g[n - 1], s[n])
              /\ End(s) = g[Len(s)]
  <1> DEFINE D == ReadType
             step == [d \in D |-> [c \in Wired |-> Decoded(d, c)]]
             Is(it) == it = [t \in SUBSET (DOMAIN s) |->
                               IF t = {} THEN NothingRead
                               ELSE Decoded(it[t \ {Max(t)}], s[Max(t)])]
             jt == CHOOSE it : Is(it)
  <1>1. step \in [D -> [Wired -> D]] /\ NothingRead \in D /\ DOMAIN s = 1 .. Len(s)
    <2>1. NothingRead \in D
      BY DEF ReadType, NothingRead
    <2> QED
      BY <2>1, DecodedType
  <1>2. \A t \in SUBSET (1 .. Len(s)) : t # {} => s[Max(t)] \in Wired
    <2>1. Len(s) \in Nat /\ \A n \in 1 .. Len(s) : s[n] \in Wired
      OBVIOUS
    <2> QED
      BY <2>1, MaxIn
  <1>3. \A d \in D, c \in Wired : step[d][c] = Decoded(d, c)
    OBVIOUS
  <1>4. End(s) = jt[DOMAIN s]
    BY Zenon DEF End, FoldLeft, MapThenFoldSet
  <1> HIDE DEF step, D
  <1>5. \E it : Is(it)
    <2>1. PICK it \in [SUBSET (1 .. Len(s)) -> D] :
                  IterOn(it, 1 .. Len(s), s, NothingRead, step)
      BY <1>1, IterExists
    <2>2. \A t \in SUBSET (1 .. Len(s)) :
             it[t] = IF t = {} THEN NothingRead
                     ELSE Decoded(it[t \ {Max(t)}], s[Max(t)])
      BY <1>2, <1>3, <2>1 DEF IterOn
    <2> QED
      BY <1>1, <2>1, <2>2
  <1>6. Is(jt)
    BY <1>5, Zenon
  <1> HIDE DEF jt
  <1>7. Goes(Positions(jt, s), D, s, NothingRead, step)
    <2>1. /\ jt[{}] = NothingRead
          /\ \A t \in SUBSET (1 .. Len(s)) : t # {} =>
                jt[t] = Decoded(jt[t \ {Max(t)}], s[Max(t)])
      BY <1>1, <1>6
    <2>2. \A t \in SUBSET (1 .. Len(s)) : t # {} /\ jt[t \ {Max(t)}] \in D =>
             jt[t] = step[jt[t \ {Max(t)}]][s[Max(t)]]
      BY <1>2, <1>3, <2>1
    <2>3. Iterates(jt, D, s, NothingRead, step)
      BY <2>1, <2>2 DEF Iterates
    <2> QED
      BY <1>1, <2>3, IterSteps
  <1> DEFINE g == Positions(jt, s)
  <1>8. g[Len(s)] = jt[DOMAIN s]
    BY <1>1 DEF Positions
  <1> HIDE DEF g
  <1>9. g \in [0 .. Len(s) -> D] /\ g[0] = NothingRead
    BY <1>7 DEF Goes, g
  <1>10. ASSUME NEW n \in 1 .. Len(s) PROVE g[n] = Decoded(g[n - 1], s[n])
    <2>1. g[n] = step[g[n - 1]][s[n]]
      BY <1>7 DEF Goes, g
    <2>2. g[n - 1] \in D /\ s[n] \in Wired
      BY <1>9
    <2> QED
      BY <1>3, <2>1, <2>2
  <1> QED
    BY <1>4, <1>8, <1>9, <1>10 DEF D

LEMMA EndNothing == End(<<>>) = NothingRead
  <1>1. <<>> \in Seq(Wired) /\ Len(<<>>) = 0
    OBVIOUS
  <1> QED
    BY <1>1, DecodeSteps

LEMMA EndAppend ==
    ASSUME NEW s \in Seq(Wired), NEW c \in Wired
    PROVE  End(s) \in ReadType /\ End(Append(s, c)) = Decoded(End(s), c)
  <1> DEFINE z == Append(s, c)
  <1>1. /\ z \in Seq(Wired) /\ Len(s) \in Nat /\ Len(z) = Len(s) + 1
        /\ z[Len(z)] = c /\ \A i \in 1 .. Len(s) : z[i] = s[i]
    OBVIOUS
  <1>2. PICK g \in [0 .. Len(s) -> ReadType] :
               /\ g[0] = NothingRead
               /\ \A n \in 1 .. Len(s) : g[n] = Decoded(g[n - 1], s[n])
               /\ End(s) = g[Len(s)]
    BY DecodeSteps
  <1> HIDE DEF z
  <1>3. PICK h \in [0 .. Len(z) -> ReadType] :
               /\ h[0] = NothingRead
               /\ \A n \in 1 .. Len(z) : h[n] = Decoded(h[n - 1], z[n])
               /\ End(z) = h[Len(z)]
    BY <1>1, DecodeSteps
  <1> DEFINE P == {n \in 0 .. Len(s) : g[n] = h[n]}
  <1>4. 0 \in P
    BY <1>1, <1>2, <1>3
  <1>5. ASSUME NEW n \in 1 .. Len(s), n - 1 \in P PROVE n \in P
    <2>1. n \in 1 .. Len(z) /\ z[n] = s[n]
      BY <1>1, SMTT(30)
    <2> QED
      BY <1>2, <1>3, <1>5, <2>1
  <1> HIDE DEF P
  <1>6. Len(s) \in P
    <2>1. Len(s) \in Nat /\ Len(s) \in 0 .. Len(s)
      BY <1>1
    <2> QED
      BY <1>4, <1>5, <2>1, Induction
  <1>7. h[Len(s)] = End(s)
    BY <1>2, <1>6 DEF P
  <1>8. End(z) = Decoded(h[Len(z) - 1], z[Len(z)]) /\ Len(z) - 1 = Len(s)
    BY <1>1, <1>3
  <1> QED
    BY <1>1, <1>2, <1>7, <1>8 DEF z

(***************************************************************************)
(* What is written for a character, with or without an escape for other    *)
(* control characters, is read as that character.                          *)
(***************************************************************************)
Piece(c, all) ==
    IF c \in DOMAIN Escapes THEN <<"backslash", Escapes[c]>>
    ELSE IF all /\ c = "control" THEN <<"backslash", "u">> ELSE <<c>>

Reading(text) == [text |-> text, escape |-> FALSE, broken |-> FALSE]

LEMMA EscapesOf ==
    /\ DOMAIN Escapes = {"quote", "backslash", "newline"}
    /\ Escapes["quote"] = "quote" /\ Escapes["backslash"] = "backslash"
    /\ Escapes["newline"] = "n"
  BY DEF Escapes

LEMMA PieceType ==
    ASSUME NEW c \in Characters, NEW all \in BOOLEAN
    PROVE  Piece(c, all) \in Seq(Wired) /\ c \in Wired
  <1>1. CASE c \in DOMAIN Escapes
    <2>1. "backslash" \in Wired /\ Escapes[c] \in Wired
      BY <1>1, EscapesOf DEF Wired, Characters
    <2> QED
      BY <1>1, <2>1 DEF Piece, Wired
  <1>2. CASE c \notin DOMAIN Escapes
    <2>1. {"backslash", "u", c} \subseteq Wired
      BY DEF Wired, Characters
    <2>2. <<"backslash", "u">> \in Seq(Wired) /\ <<c>> \in Seq(Wired)
      BY <2>1
    <2> QED
      BY <1>2, <2>1, <2>2 DEF Piece
  <1> QED
    BY <1>1, <1>2

LEMMA DecodedPair ==
    ASSUME NEW text, NEW c \in {"quote", "backslash", "newline", "control"},
           NEW x, c = "control" => x = "u", c # "control" => x = Escapes[c]
    PROVE  Decoded(Decoded(Reading(text), "backslash"), x) = Reading(Append(text, c))
  <1> DEFINE st == [text |-> text, escape |-> TRUE, broken |-> FALSE]
  <1>1. Decoded(Reading(text), "backslash") = st
    BY DEF Decoded, Reading
  <1>2. Decoded(st, x) = Reading(Append(text, c))
    BY EscapesOf DEF Decoded, Reading
  <1> QED
    BY <1>1, <1>2

LEMMA DecodedPlain ==
    ASSUME NEW text, NEW c \in {"a", "n", "space"}
    PROVE  Decoded(Reading(text), c) = Reading(Append(text, c))
  BY DEF Decoded, Reading

LEMMA EndPiece ==
    ASSUME NEW s \in Seq(Wired), NEW c \in Characters, NEW all \in BOOLEAN
    PROVE  /\ s \o Piece(c, all) \in Seq(Wired)
           /\ End(s).broken => End(s \o Piece(c, all)).broken
           /\ ~all /\ c = "control" /\ ~End(s).escape => End(s \o Piece(c, all)).broken
           /\ all \/ c # "control" =>
                \A text : End(s) = Reading(text) =>
                   End(s \o Piece(c, all)) = Reading(Append(text, c))
  <1>1. End(s) \in ReadType
    BY EndAppend, PieceType
  <1>2. s \o Piece(c, all) \in Seq(Wired)
    BY PieceType
  <1>3. CASE Piece(c, all) = <<c>>
    <2>1. s \o Piece(c, all) = Append(s, c)
      BY <1>3
    <2>2. End(s \o Piece(c, all)) = Decoded(End(s), c)
      BY <2>1, EndAppend, PieceType
    <2>3. c \in {"a", "n", "space"} \/ (c = "control" /\ ~all)
      BY <1>3, EscapesOf DEF Piece, Characters
    <2>4. End(s).broken => Decoded(End(s), c).broken
      BY DEF Decoded
    <2>5. c = "control" /\ ~End(s).escape => Decoded(End(s), c).broken
      BY <1>1 DEF Decoded, ReadType
    <2>6. \A text : End(s) = Reading(text) /\ c \in {"a", "n", "space"} =>
             Decoded(End(s), c) = Reading(Append(text, c))
      BY DecodedPlain
    <2> QED
      BY <1>2, <2>2, <2>3, <2>4, <2>5, <2>6
  <1>4. CASE Piece(c, all) # <<c>>
    <2>1. PICK x \in Wired : /\ Piece(c, all) = <<"backslash", x>>
                             /\ c = "control" => x = "u" /\ all
                             /\ c # "control" => x = Escapes[c]
                             /\ c \in {"quote", "backslash", "newline", "control"}
      BY <1>4, EscapesOf DEF Piece, Characters, Wired
    <2> DEFINE z == Append(s, "backslash")
    <2>2. z \in Seq(Wired) /\ "backslash" \in Wired /\ s \o Piece(c, all) = Append(z, x)
      BY <2>1 DEF Wired, Characters
    <2>3. End(z) = Decoded(End(s), "backslash")
      BY <2>2, EndAppend
    <2> HIDE DEF z
    <2>4. End(s \o Piece(c, all)) = Decoded(Decoded(End(s), "backslash"), x)
      BY <2>2, <2>3, EndAppend
    <2>5. End(s).broken => Decoded(Decoded(End(s), "backslash"), x).broken
      BY DEF Decoded
    <2>6. \A text : End(s) = Reading(text) =>
             Decoded(Decoded(End(s), "backslash"), x) = Reading(Append(text, c))
      BY <2>1, DecodedPair
    <2> QED
      BY <1>2, <2>1, <2>4, <2>5, <2>6
  <1> QED
    BY <1>3, <1>4

(***************************************************************************)
(* A text that was written piece by piece is read as it was, unless it has *)
(* a control character that was not escaped.                               *)
(***************************************************************************)
LEMMA WrittenIsRead ==
    ASSUME NEW s \in Seq(Characters), NEW all \in BOOLEAN,
           NEW g, g[0] = <<>>,
           \A n \in 1 .. Len(s) : g[n] = g[n - 1] \o Piece(s[n], all)
    PROVE  /\ g[Len(s)] \in Seq(Wired)
           /\ get_quoted_string(g[Len(s)]) = IF ~all /\ HasControl(s) THEN Broken ELSE s
  <1> DEFINE Bad(n) == ~all /\ \E i \in 1 .. n : s[i] = "control"
             Holds(n) == /\ g[n] \in Seq(Wired)
                         /\ Bad(n) => End(g[n]).broken
                         /\ ~Bad(n) => End(g[n]) = Reading(SubSeq(s, 1, n))
             P == {n \in 0 .. Len(s) : Holds(n)}
  <1>1. Len(s) \in Nat /\ SubSeq(s, 1, Len(s)) = s /\ SubSeq(s, 1, 0) = <<>>
    OBVIOUS
  <1>2. Holds(0)
    <2>1. <<>> \in Seq(Wired) /\ NothingRead = Reading(<<>>)
      BY DEF NothingRead, Reading
    <2>2. End(g[0]) = Reading(SubSeq(s, 1, 0))
      BY <1>1, <2>1, EndNothing
    <2>3. ~Bad(0)
      OBVIOUS
    <2>4. g[0] \in Seq(Wired)
      BY <2>1
    <2> HIDE DEF Bad
    <2> QED
      BY <2>2, <2>3, <2>4, Zenon
  <1>3. ASSUME NEW n \in 1 .. Len(s), Holds(n - 1) PROVE Holds(n)
    <2> DEFINE c == s[n]
    <2>1. /\ c \in Characters
          /\ SubSeq(s, 1, n) = Append(SubSeq(s, 1, n - 1), c)
      OBVIOUS
    <2>2. Bad(n) <=> Bad(n - 1) \/ (~all /\ c = "control")
      OBVIOUS
    <2>3. g[n] = g[n - 1] \o Piece(c, all) /\ g[n - 1] \in Seq(Wired)
      BY <1>3
    <2> HIDE DEF c
    <2>4. /\ g[n] \in Seq(Wired)
          /\ End(g[n - 1]).broken => End(g[n]).broken
          /\ ~all /\ c = "control" /\ ~End(g[n - 1]).escape => End(g[n]).broken
          /\ all \/ c # "control" =>
               \A text : End(g[n - 1]) = Reading(text) => End(g[n]) = Reading(Append(text, c))
      BY <2>1, <2>3, EndPiece
    <2>5. CASE Bad(n - 1)
      BY <1>3, <2>2, <2>4, <2>5
    <2>6. CASE ~Bad(n - 1)
      <3>1. End(g[n - 1]) = Reading(SubSeq(s, 1, n - 1)) /\ ~End(g[n - 1]).escape
        BY <1>3, <2>6 DEF Reading
      <3> HIDE DEF Bad
      <3> QED
        BY <2>1, <2>2, <2>4, <2>6, <3>1
    <2> QED
      BY <2>5, <2>6
  <1> HIDE DEF Holds
  <1>4. Holds(Len(s))
    <2>1. 0 \in P /\ \A n \in 1 .. Len(s) : n - 1 \in P => n \in P
      BY <1>1, <1>2, <1>3
    <2>3. Len(s) \in Nat /\ Len(s) \in 0 .. Len(s)
      BY <1>1
    <2> HIDE DEF P
    <2>2. Len(s) \in P
      BY <2>1, <2>3, Induction
    <2> QED
      BY <2>2 DEF P
  <1>5. Bad(Len(s)) <=> ~all /\ HasControl(s)
    BY DEF HasControl
  <1>6. get_quoted_string(g[Len(s)]) =
          LET end == End(g[Len(s)])
          IN  IF end.broken \/ end.escape THEN Broken ELSE end.text
    BY DEF get_quoted_string, End, NothingRead
  <1> HIDE DEF Bad
  <1> QED
    BY <1>1, <1>4, <1>5, <1>6 DEF Holds, Reading

-----------------------------------------------------------------------------
(* Fields.                                                                 *)

LEMMA CutType ==
    ASSUME NEW s \in Seq(Characters), NEW size \in Nat \ {0}
    PROVE  /\ Cut(s, size) \in Seq(Characters)
           /\ Len(Cut(s, size)) <= size - 1
           /\ Len(s) < size => Cut(s, size) = s
           /\ Len(s) >= size => Len(Cut(s, size)) = size - 1
           /\ IsPrefix(Cut(s, size), s)
           /\ Cut(Cut(s, size), size) = Cut(s, size)
           /\ \A i \in 1 .. Len(Cut(s, size)) : Cut(s, size)[i] = s[i] /\ i \in 1 .. Len(s)
  <1>1. CASE Len(s) < size
    BY <1>1 DEF Cut, IsPrefix
  <1>2. CASE Len(s) >= size
    <2> DEFINE z == SubSeq(s, 1, size - 1)
    <2>1. Cut(s, size) = z
      BY <1>2 DEF Cut
    <2>2. /\ z \in Seq(Characters) /\ Len(z) = size - 1
          /\ \A i \in 1 .. Len(z) : z[i] = s[i] /\ i \in 1 .. Len(s)
      BY <1>2
    <2>3. SubSeq(z, 1, Len(z)) = z
      BY <2>2
    <2>4. IsPrefix(z, s)
      BY <1>2, <2>2 DEF IsPrefix
    <2> HIDE DEF z
    <2>5. Cut(z, size) = z
      BY <2>2, <2>3 DEF Cut
    <2> QED
      BY <1>2, <2>1, <2>2, <2>4, <2>5
  <1>3. Len(s) \in Nat
    OBVIOUS
  <1> QED
    BY <1>1, <1>2, <1>3

(***************************************************************************)
(* The buffer for an escaped text is large enough for all of it.           *)
(***************************************************************************)
LEMMA EscapedByC ==
    ASSUME NEW size \in Nat, NEW s \in Seq(Characters), Len(s) <= size - 1
    PROVE  get_quoted_string(escape_json_string(s, 2 * size)) =
             IF HasControl(s) THEN Broken ELSE s
  <1>1. PICK g \in [0 .. Len(s) -> Seq(Characters)] :
              /\ g[0] = <<>>
              /\ \A n \in 1 .. Len(s) : g[n] = EscapeInto(2 * size, g[n - 1], s[n])
              /\ escape_json_string(s, 2 * size) = g[Len(s)]
    BY EscapeSteps
  <1> DEFINE P == {n \in 0 .. Len(s) :
                     /\ Len(g[n]) <= 2 * n
                     /\ n > 0 => g[n] = g[n - 1] \o Piece(s[n], FALSE)}
  <1>2. 0 \in P
    BY <1>1
  <1>3. ASSUME NEW n \in 1 .. Len(s), n - 1 \in P PROVE n \in P
    <2> DEFINE d == g[n - 1]
               c == s[n]
    <2>1. d \in Seq(Characters) /\ c \in Characters
      BY <1>1
    <2>2. Len(d) \in Nat /\ Len(d) <= 2 * n - 2
      BY <1>3, <2>1
    <2>3. g[n] = EscapeInto(2 * size, d, c)
      BY <1>1
    <2> HIDE DEF d, c
    <2>4. n <= size - 1
      OBVIOUS
    <2>5. g[n] = d \o Piece(c, FALSE) /\ Len(g[n]) <= 2 * n
      <3>1. CASE c \in DOMAIN Escapes
        <4>1. g[n] = d \o <<"backslash", Escapes[c]>>
          BY <2>2, <2>3, <2>4, <3>1 DEF EscapeInto
        <4>2. Len(d \o <<"backslash", Escapes[c]>>) = Len(d) + 2
          BY <2>1
        <4> QED
          BY <2>2, <3>1, <4>1, <4>2 DEF Piece
      <3>2. CASE c \notin DOMAIN Escapes
        <4>1. g[n] = Append(d, c)
          BY <2>2, <2>3, <2>4, <3>2 DEF EscapeInto
        <4>2. Append(d, c) = d \o <<c>> /\ Len(Append(d, c)) = Len(d) + 1
          BY <2>1
        <4> QED
          BY <2>2, <3>2, <4>1, <4>2 DEF Piece
      <3> QED
        BY <3>1, <3>2
    <2>6. g[n] = g[n - 1] \o Piece(s[n], FALSE) /\ n \in 0 .. Len(s)
      BY <2>5 DEF d, c
    <2> QED
      BY <2>5, <2>6
  <1> HIDE DEF P
  <1>4. \A n \in 0 .. Len(s) : n \in P
    <2>1. Len(s) \in Nat
      OBVIOUS
    <2> QED
      BY <1>2, <1>3, <2>1, Induction
  <1>5. \A n \in 1 .. Len(s) : g[n] = g[n - 1] \o Piece(s[n], FALSE)
    BY <1>4 DEF P
  <1> QED
    BY <1>1, <1>5, WrittenIsRead

LEMMA MarshalledIsRead ==
    ASSUME NEW s \in Seq(Characters)
    PROVE  get_quoted_string(Marshalled(s)) = s
  <1> DEFINE ss == [i \in 1 .. Len(s) |-> Piece(s[i], TRUE)]
  <1>1. Marshalled(s) = FlattenSeq(ss)
    BY DEF Marshalled, Piece
  <1>2. ss \in Seq(Seq(Wired)) /\ Len(ss) = Len(s)
    <2>1. Len(s) \in Nat /\ TRUE \in BOOLEAN /\ \A i \in 1 .. Len(s) : s[i] \in Characters
      OBVIOUS
    <2>2. \A i \in 1 .. Len(s) : Piece(s[i], TRUE) \in Seq(Wired)
      BY <2>1, PieceType
    <2>3. ss \in [1 .. Len(s) -> Seq(Wired)]
      BY <2>2
    <2> HIDE DEF ss
    <2> QED
      BY <2>1, <2>3
  <1>3. \A n \in 1 .. Len(s) : ss[n] = Piece(s[n], TRUE)
    OBVIOUS
  <1> HIDE DEF ss
  <1>4. PICK g \in [0 .. Len(ss) -> Seq(Wired)] :
              /\ g[0] = <<>>
              /\ \A n \in 1 .. Len(ss) : g[n] = g[n - 1] \o ss[n]
              /\ FlattenSeq(ss) = g[Len(ss)]
    BY <1>2, FlattenSteps
  <1>5. \A n \in 1 .. Len(s) : g[n] = g[n - 1] \o Piece(s[n], TRUE)
    BY <1>2, <1>3, <1>4
  <1> QED
    BY <1>1, <1>2, <1>4, <1>5, WrittenIsRead

LEMMA PlainIsRead ==
    ASSUME NEW s \in Seq(Characters), Plain(s)
    PROVE  get_quoted_string(s) = s
  <1> DEFINE g == [n \in 0 .. Len(s) |-> SubSeq(s, 1, n)]
  <1>1. Len(s) \in Nat /\ SubSeq(s, 1, Len(s)) = s /\ SubSeq(s, 1, 0) = <<>>
    OBVIOUS
  <1>2. ASSUME NEW n \in 1 .. Len(s) PROVE g[n] = g[n - 1] \o Piece(s[n], FALSE)
    <2>1. Piece(s[n], FALSE) = <<s[n]>>
      BY EscapesOf DEF Piece, Plain
    <2>2. SubSeq(s, 1, n) = SubSeq(s, 1, n - 1) \o <<s[n]>>
      <3>1. SubSeq(s, 1, n) = Append(SubSeq(s, 1, n - 1), s[n])
        OBVIOUS
      <3>2. SubSeq(s, 1, n - 1) \in Seq(Characters) /\ s[n] \in Characters
        OBVIOUS
      <3>3. \A t \in Seq(Characters), c \in Characters : Append(t, c) = t \o <<c>>
        OBVIOUS
      <3> QED
        BY <3>1, <3>2, <3>3
    <2>3. g[n] = SubSeq(s, 1, n) /\ g[n - 1] = SubSeq(s, 1, n - 1)
      OBVIOUS
    <2> HIDE DEF g
    <2> QED
      BY <2>1, <2>2, <2>3
  <1>3. g[0] = <<>> /\ g[Len(s)] = s
    BY <1>1
  <1>4. ~HasControl(s)
    BY DEF Plain, HasControl
  <1> HIDE DEF g
  <1> QED
    BY <1>2, <1>3, <1>4, WrittenIsRead

(***************************************************************************)
(* What a client writes of a text, and what is read of it.                 *)
(***************************************************************************)
Kept(m, s, size) == IF m.client = "C" THEN Cut(s, size) ELSE s

LEMMA FieldIsRead ==
    ASSUME NEW m, NEW s \in Seq(Characters), NEW size \in Nat \ {0}
    PROVE  /\ Kept(m, s, size) \in Seq(Characters) /\ Kept(m, s, size) # Broken
           /\ \/ get_quoted_string(Field(m, s, size)) = Kept(m, s, size)
              \/ /\ get_quoted_string(Field(m, s, size)) = Broken
                 /\ m.client = "C" /\ HasControl(s)
  <1>1. Kept(m, s, size) \in Seq(Characters)
    BY CutType DEF Kept
  <1>2. \A t \in Seq(Characters) : t # Broken
    <2>1. SUFFICES ASSUME Broken \in Seq(Characters) PROVE FALSE
      OBVIOUS
    <2>2. Len(Broken) = 1 /\ Broken[1] = "broken"
      BY DEF Broken
    <2>3. "broken" \in Characters
      <3>1. \A i \in 1 .. Len(Broken) : Broken[i] \in Characters
        BY <2>1
      <3> QED
        BY <2>2, <3>1
    <2> QED
      BY <2>3 DEF Characters
  <1>3. CASE m.client = "C"
    <2>1. HasControl(Cut(s, size)) => HasControl(s)
      BY CutType DEF HasControl
    <2>2. get_quoted_string(escape_json_string(Cut(s, size), 2 * size)) =
             IF HasControl(Cut(s, size)) THEN Broken ELSE Cut(s, size)
      BY CutType, EscapedByC
    <2> QED
      BY <1>1, <1>2, <1>3, <2>1, <2>2 DEF Field, Kept
  <1>4. CASE m.client # "C"
    BY <1>1, <1>2, <1>4, MarshalledIsRead DEF Field, Kept
  <1> QED
    BY <1>3, <1>4

LEMMA BlankField ==
    ASSUME NEW m, m.client = "C", NEW size \in Nat \ {0}
    PROVE  Field(m, Blank, size) = Blank
  <1>1. Blank \in Seq(Characters) /\ Len(Blank) = 0
    BY DEF Blank
  <1>2. Cut(Blank, size) = Blank
    <2>1. \A s \in Seq(Characters) : Len(s) = 0 => s = <<>>
      OBVIOUS
    <2>2. Cut(Blank, size) \in Seq(Characters)
      BY <1>1, CutType
    <2>3. Len(Cut(Blank, size)) = 0
      BY <1>1 DEF Cut, Blank
    <2> QED
      BY <2>1, <2>2, <2>3 DEF Blank
  <1>3. escape_json_string(Blank, 2 * size) = Blank
    <2>1. PICK g \in [0 .. Len(Blank) -> Seq(Characters)] :
                 g[0] = <<>> /\ escape_json_string(Blank, 2 * size) = g[Len(Blank)]
      BY <1>1, EscapeSteps
    <2> QED
      BY <1>1, <2>1 DEF Blank
  <1> QED
    BY <1>2, <1>3 DEF Field

(***************************************************************************)
(* The first word of a text is a text, and a text of one word is its own.  *)
(***************************************************************************)
LEMMA MinOf ==
    ASSUME NEW S, S \subseteq Nat, S # {}
    PROVE  Min(S) \in S /\ \A i \in S : Min(S) <= i
  BY LeastOf, Zenon DEF Min

LEMMA FirstWordIs ==
    ASSUME NEW text \in Seq(Characters), Ink(text) # {}
    PROVE  /\ FirstWord(text) \in Seq(Characters)
           /\ OneWord(text) => FirstWord(text) = text
  <1> DEFINE from == Min(Ink(text))
             ends == {i \in from .. Len(text) + 1 : i \notin Ink(text)}
  <1>1. Len(text) \in Nat /\ Ink(text) \subseteq 1 .. Len(text)
    BY DEF Ink
  <1>2. from \in 1 .. Len(text) /\ \A i \in Ink(text) : from <= i
    BY <1>1, MinOf
  <1> HIDE DEF from
  <1>3. Len(text) + 1 \in ends /\ ends \subseteq 1 .. Len(text) + 1
    BY <1>1, <1>2
  <1>4. Min(ends) \in ends
    <2>1. ends \subseteq Nat /\ ends # {}
      BY <1>1, <1>3
    <2> HIDE DEF ends
    <2> QED
      BY <2>1, MinOf
  <1>5. FirstWord(text) = SubSeq(text, from, Min(ends) - 1)
    BY DEF FirstWord, from
  <1>6. FirstWord(text) \in Seq(Characters)
    <2> DEFINE last == Min(ends) - 1
    <2>1. last \in 0 .. Len(text)
      BY <1>1, <1>3, <1>4
    <2> HIDE DEF last
    <2>2. SubSeq(text, from, last) \in Seq(Characters)
      BY <1>1, <1>2, <2>1
    <2> QED
      BY <1>5, <2>2 DEF last
  <1>7. ASSUME OneWord(text) PROVE FirstWord(text) = text
    <2>1. Ink(text) = 1 .. Len(text)
      BY <1>7 DEF OneWord
    <2>2. from = 1
      BY <1>1, <1>2, <2>1
    <2>3. \A i \in ends : i = Len(text) + 1
      BY <1>1, <2>1, <2>2
    <2> HIDE DEF ends
    <2>4. Min(ends) - 1 = Len(text)
      BY <1>1, <1>4, <2>3
    <2>5. SubSeq(text, 1, Len(text)) = text
      OBVIOUS
    <2> QED
      BY <1>5, <2>2, <2>4, <2>5
  <1> QED
    BY <1>6, <1>7

LEMMA HostnameIs ==
    ASSUME NEW m \in Machines
    PROVE  /\ Hostname(m) \in Seq(Characters)
           /\ m.client = "C" \/ ("uname" \in m.commands /\ OneWord(m.hostname)) =>
                 Hostname(m) = m.hostname
  <1>1. /\ m.hostname \in Seq(Characters) /\ m.kernel \in Seq(Characters)
        /\ Blank \in Seq(Characters)
    BY MachinesAssumption DEF Blank
  <1>2. Ink(m.hostname) # {} =>
           /\ FirstWord(m.hostname) \in Seq(Characters)
           /\ OneWord(m.hostname) => FirstWord(m.hostname) = m.hostname
    BY <1>1, FirstWordIs
  <1>3. OneWord(m.hostname) => Ink(m.hostname) # {}
    <2>1. m.hostname # Blank => 1 \in 1 .. Len(m.hostname)
      BY <1>1 DEF Blank
    <2> QED
      BY <2>1 DEF OneWord
  <1> QED
    BY <1>1, <1>2, <1>3 DEF Hostname, parseUname

(***************************************************************************)
(* What is copied of it.                                                   *)
(***************************************************************************)
LEMMA CopyKeeps ==
    ASSUME NEW s \in Seq(Characters), NEW size \in Nat \ {0, 1}, NEW kept,
           kept = s \/ kept = Cut(s, size), NEW copy \in Copies(kept, size)
    PROVE  Keeps(copy, s, size) /\ Len(copy) <= size
  <1>1. kept \in Seq(Characters) /\ Cut(kept, size) = Cut(s, size)
    BY CutType
  <1>2. /\ Cut(s, size) \in Seq(Characters) /\ Len(Cut(s, size)) <= size - 1
        /\ Len(s) < size => Cut(s, size) = s
    BY CutType
  <1> DEFINE z == Cut(s, size)
  <1>3. copy = z \/ (copy = Append(z, "junk") /\ Len(kept) >= size - 1)
    BY <1>1 DEF Copies
  <1>4. /\ IsPrefix(z, z) /\ IsPrefix(z, Append(z, "junk"))
        /\ Len(Append(z, "junk")) = Len(z) + 1
    <2>1. z \in Seq(Characters \union {"junk"})
      BY <1>2 DEF Characters
    <2> HIDE DEF z
    <2> QED
      BY <2>1 DEF IsPrefix
  <1>5. Len(s) < size - 1 => kept = s /\ copy = s
    BY <1>2, <1>3
  <1>6. Len(copy) <= size
    BY <1>2, <1>3, <1>4
  <1>7. IsPrefix(Cut(s, size), copy)
    BY <1>3, <1>4
  <1> QED
    BY <1>5, <1>6, <1>7 DEF Keeps

-----------------------------------------------------------------------------
(* Networks.                                                               *)

Fields == {"mac", "ipv4", "ipv6"}
EntryType == [name : STRING, field : Fields, addr : Addresses \union NotSix]
NetworkType == [name : STRING, mac : Seq(Characters) \union NotSix,
                ipv4 : Seq(Characters), ipv6 : Seq(Characters)]

LEMMA BlankType == Blank \in Seq(Characters) /\ \A x \in Addresses : x \in Seq(Characters)
  BY DEF Blank, Addresses

(***************************************************************************)
(* An address is put into a network's record.                              *)
(***************************************************************************)
LEMMA RecordType ==
    ASSUME NEW n \in NetworkType, NEW f \in Fields, NEW x \in Addresses
    PROVE  LET r == [n EXCEPT ![f] = x]
           IN  /\ r \in NetworkType /\ r.name = n.name
               /\ f = "mac" => r = [n EXCEPT !.mac = x]
               /\ f = "ipv4" => r = [n EXCEPT !.ipv4 = x]
               /\ f = "ipv6" => r = [n EXCEPT !.ipv6 = x]
  <1>1. x \in Seq(Characters)
    BY BlankType
  <1>2. CASE f = "mac"
    BY <1>1, <1>2 DEF NetworkType
  <1>3. CASE f = "ipv4"
    BY <1>1, <1>3 DEF NetworkType
  <1>4. CASE f = "ipv6"
    BY <1>1, <1>4 DEF NetworkType
  <1> QED
    BY <1>2, <1>3, <1>4 DEF Fields

LEMMA NewType ==
    ASSUME NEW name \in STRING
    PROVE  /\ NewNetwork(name) \in NetworkType
           /\ NewNetwork(name).name = name
           /\ NewNetwork(name).ipv4 = Blank
  BY BlankType DEF NewNetwork, NetworkType

LEMMA ListedType ==
    ASSUME NEW nets \in Seq(NetworkType), NEW e \in EntryType
    PROVE  Listed(nets, e) \in Seq(NetworkType)
  <1>1. CASE e.addr \in NotSix
    BY <1>1 DEF Listed
  <1>2. CASE e.addr \notin NotSix
    <2>1. e.addr \in Addresses /\ e.field \in Fields /\ e.name \in STRING
      BY <1>2 DEF EntryType
    <2>2. [NewNetwork(e.name) EXCEPT ![e.field] = e.addr] \in NetworkType
      BY <2>1, NewType, RecordType
    <2>3. \A i \in 1 .. Len(nets) : [nets[i] EXCEPT ![e.field] = e.addr] \in NetworkType
      <3>1. \A i \in 1 .. Len(nets) : nets[i] \in NetworkType
        OBVIOUS
      <3> QED
        BY <2>1, <3>1, RecordType
    <2>4. Append(nets, [NewNetwork(e.name) EXCEPT ![e.field] = e.addr]) \in Seq(NetworkType)
      BY <2>2
    <2> DEFINE z == [i \in 1 .. Len(nets) |-> IF nets[i].name = e.name
                       THEN [nets[i] EXCEPT ![e.field] = e.addr] ELSE nets[i]]
    <2>5. z \in Seq(NetworkType)
      <3>1. Len(nets) \in Nat /\ \A i \in 1 .. Len(nets) : nets[i] \in NetworkType
        OBVIOUS
      <3>2. z \in [1 .. Len(nets) -> NetworkType]
        BY <2>3, <3>1
      <3> HIDE DEF z
      <3> QED
        BY <3>1, <3>2
    <2> QED
      BY <2>4, <2>5 DEF Listed
  <1> QED
    BY <1>1, <1>2

LEMMA FirstType ==
    ASSUME NEW l \in LinkType
    PROVE  /\ FirstOf(l.mac) \in Seq(Characters) \union NotSix
           /\ FirstOf(l.ipv4) \in Seq(Characters)
           /\ FirstOf(l.ipv6) \in Seq(Characters)
  <1>1. \A s \in Seq(Addresses) : FirstOf(s) \in Seq(Characters)
    <2>1. \A s \in Seq(Addresses) : s # <<>> => s[1] \in Addresses
      OBVIOUS
    <2> QED
      BY <2>1, BlankType DEF FirstOf
  <1>2. l.mac[1] \in Addresses \union NotSix
    BY DEF LinkType
  <1> QED
    BY <1>1, <1>2, BlankType DEF LinkType, FirstOf

LEMMA NotedType ==
    ASSUME NEW nets \in Seq(NetworkType), NEW l \in LinkType
    PROVE  Noted(nets, l) \in Seq(NetworkType)
  <1> DEFINE n == [name |-> l.label, mac |-> FirstOf(l.mac),
                   ipv4 |-> FirstOf(l.ipv4), ipv6 |-> FirstOf(l.ipv6)]
  <1>1. l.label \in STRING
    BY DEF LinkType
  <1>2. n \in NetworkType
    BY <1>1, FirstType DEF NetworkType
  <1> HIDE DEF n
  <1>3. Append(nets, n) \in Seq(NetworkType)
    BY <1>2
  <1> QED
    BY <1>3 DEF Noted, n

LEMMA ListSteps ==
    ASSUME NEW s \in Seq(EntryType)
    PROVE  \E g \in [0 .. Len(s) -> Seq(NetworkType)] :
              /\ g[0] = <<>>
              /\ \A n \in 1 .. Len(s) : g[n] = Listed(g[n - 1], s[n])
              /\ FoldLeft(Listed, <<>>, s) = g[Len(s)]
  <1> DEFINE D == Seq(NetworkType)
             step == [d \in D |-> [c \in EntryType |-> Listed(d, c)]]
             Is(it) == it = [t \in SUBSET (DOMAIN s) |->
                               IF t = {} THEN <<>>
                               ELSE Listed(it[t \ {Max(t)}], s[Max(t)])]
             jt == CHOOSE it : Is(it)
  <1>1. step \in [D -> [EntryType -> D]] /\ <<>> \in D /\ DOMAIN s = 1 .. Len(s)
    BY ListedType
  <1>2. \A t \in SUBSET (1 .. Len(s)) : t # {} => s[Max(t)] \in EntryType
    <2>1. Len(s) \in Nat /\ \A n \in 1 .. Len(s) : s[n] \in EntryType
      OBVIOUS
    <2> QED
      BY <2>1, MaxIn
  <1>3. \A d \in D, c \in EntryType : step[d][c] = Listed(d, c)
    OBVIOUS
  <1>4. FoldLeft(Listed, <<>>, s) = jt[DOMAIN s]
    BY Zenon DEF MapThenFoldSet, FoldLeft, MapThenFoldSet
  <1> HIDE DEF step, D
  <1>5. \E it : Is(it)
    <2>1. PICK it \in [SUBSET (1 .. Len(s)) -> D] : IterOn(it, 1 .. Len(s), s, <<>>, step)
      BY <1>1, IterExists
    <2>2. \A t \in SUBSET (1 .. Len(s)) :
             it[t] = IF t = {} THEN <<>>
                     ELSE Listed(it[t \ {Max(t)}], s[Max(t)])
      BY <1>2, <1>3, <2>1 DEF IterOn
    <2> QED
      BY <1>1, <2>1, <2>2
  <1>6. Is(jt)
    BY <1>5, Zenon
  <1> HIDE DEF jt
  <1>7. Goes(Positions(jt, s), D, s, <<>>, step)
    <2>1. /\ jt[{}] = <<>>
          /\ \A t \in SUBSET (1 .. Len(s)) : t # {} =>
                jt[t] = Listed(jt[t \ {Max(t)}], s[Max(t)])
      BY <1>1, <1>6
    <2>2. \A t \in SUBSET (1 .. Len(s)) : t # {} /\ jt[t \ {Max(t)}] \in D =>
             jt[t] = step[jt[t \ {Max(t)}]][s[Max(t)]]
      BY <1>2, <1>3, <2>1
    <2>3. Iterates(jt, D, s, <<>>, step)
      BY <2>1, <2>2 DEF Iterates
    <2> QED
      BY <1>1, <2>3, IterSteps
  <1> DEFINE g == Positions(jt, s)
  <1>8. g[Len(s)] = jt[DOMAIN s]
    BY <1>1 DEF Positions
  <1> HIDE DEF g
  <1>9. g \in [0 .. Len(s) -> D] /\ g[0] = <<>>
    BY <1>7 DEF Goes, g
  <1>10. ASSUME NEW n \in 1 .. Len(s) PROVE g[n] = Listed(g[n - 1], s[n])
    <2>1. g[n] = step[g[n - 1]][s[n]]
      BY <1>7 DEF Goes, g
    <2>2. g[n - 1] \in D /\ s[n] \in EntryType
      BY <1>9
    <2> QED
      BY <1>3, <2>1, <2>2
  <1> QED
    BY <1>4, <1>8, <1>9, <1>10 DEF D

LEMMA NoteSteps ==
    ASSUME NEW s \in Seq(LinkType)
    PROVE  \E g \in [0 .. Len(s) -> Seq(NetworkType)] :
              /\ g[0] = <<>>
              /\ \A n \in 1 .. Len(s) : g[n] = Noted(g[n - 1], s[n])
              /\ FoldLeft(Noted, <<>>, s) = g[Len(s)]
  <1> DEFINE D == Seq(NetworkType)
             step == [d \in D |-> [c \in LinkType |-> Noted(d, c)]]
             Is(it) == it = [t \in SUBSET (DOMAIN s) |->
                               IF t = {} THEN <<>>
                               ELSE Noted(it[t \ {Max(t)}], s[Max(t)])]
             jt == CHOOSE it : Is(it)
  <1>1. step \in [D -> [LinkType -> D]] /\ <<>> \in D /\ DOMAIN s = 1 .. Len(s)
    BY NotedType
  <1>2. \A t \in SUBSET (1 .. Len(s)) : t # {} => s[Max(t)] \in LinkType
    <2>1. Len(s) \in Nat /\ \A n \in 1 .. Len(s) : s[n] \in LinkType
      OBVIOUS
    <2> QED
      BY <2>1, MaxIn
  <1>3. \A d \in D, c \in LinkType : step[d][c] = Noted(d, c)
    OBVIOUS
  <1>4. FoldLeft(Noted, <<>>, s) = jt[DOMAIN s]
    BY Zenon DEF MapThenFoldSet, FoldLeft, MapThenFoldSet
  <1> HIDE DEF step, D
  <1>5. \E it : Is(it)
    <2>1. PICK it \in [SUBSET (1 .. Len(s)) -> D] : IterOn(it, 1 .. Len(s), s, <<>>, step)
      BY <1>1, IterExists
    <2>2. \A t \in SUBSET (1 .. Len(s)) :
             it[t] = IF t = {} THEN <<>>
                     ELSE Noted(it[t \ {Max(t)}], s[Max(t)])
      BY <1>2, <1>3, <2>1 DEF IterOn
    <2> QED
      BY <1>1, <2>1, <2>2
  <1>6. Is(jt)
    BY <1>5, Zenon
  <1> HIDE DEF jt
  <1>7. Goes(Positions(jt, s), D, s, <<>>, step)
    <2>1. /\ jt[{}] = <<>>
          /\ \A t \in SUBSET (1 .. Len(s)) : t # {} =>
                jt[t] = Noted(jt[t \ {Max(t)}], s[Max(t)])
      BY <1>1, <1>6
    <2>2. \A t \in SUBSET (1 .. Len(s)) : t # {} /\ jt[t \ {Max(t)}] \in D =>
             jt[t] = step[jt[t \ {Max(t)}]][s[Max(t)]]
      BY <1>2, <1>3, <2>1
    <2>3. Iterates(jt, D, s, <<>>, step)
      BY <2>1, <2>2 DEF Iterates
    <2> QED
      BY <1>1, <2>3, IterSteps
  <1> DEFINE g == Positions(jt, s)
  <1>8. g[Len(s)] = jt[DOMAIN s]
    BY <1>1 DEF Positions
  <1> HIDE DEF g
  <1>9. g \in [0 .. Len(s) -> D] /\ g[0] = <<>>
    BY <1>7 DEF Goes, g
  <1>10. ASSUME NEW n \in 1 .. Len(s) PROVE g[n] = Noted(g[n - 1], s[n])
    <2>1. g[n] = step[g[n - 1]][s[n]]
      BY <1>7 DEF Goes, g
    <2>2. g[n - 1] \in D /\ s[n] \in LinkType
      BY <1>9
    <2> QED
      BY <1>3, <2>1, <2>2
  <1> QED
    BY <1>4, <1>8, <1>9, <1>10 DEF D

Flattens(f, ss, E) ==
    /\ f \in Seq(E)
    /\ \A q \in 1 .. Len(f) :
         \E k \in 1 .. Len(ss) : \E j \in 1 .. Len(ss[k]) : f[q] = ss[k][j]
    /\ \A k \in 1 .. Len(ss) : \A j \in 1 .. Len(ss[k]) :
         \E q \in 1 .. Len(f) : f[q] = ss[k][j]
    /\ (\A k \in 1 .. Len(ss) : Len(ss[k]) = 1) =>
         /\ Len(f) = Len(ss)
         /\ \A k \in 1 .. Len(ss) : f[k] = ss[k][1]

LEMMA FlattenElements ==
    ASSUME NEW E, NEW ss \in Seq(Seq(E))
    PROVE  Flattens(FlattenSeq(ss), ss, E)
  <1>1. PICK g \in [0 .. Len(ss) -> Seq(E)] :
              /\ g[0] = <<>>
              /\ \A n \in 1 .. Len(ss) : g[n] = g[n - 1] \o ss[n]
              /\ FlattenSeq(ss) = g[Len(ss)]
    BY FlattenSteps
  <1> DEFINE From(n) == \A q \in 1 .. Len(g[n]) :
                           \E k \in 1 .. n : \E j \in 1 .. Len(ss[k]) : g[n][q] = ss[k][j]
             To(n) == \A k \in 1 .. n : \A j \in 1 .. Len(ss[k]) :
                         \E q \in 1 .. Len(g[n]) : g[n][q] = ss[k][j]
             Single(n) == (\A k \in 1 .. Len(ss) : Len(ss[k]) = 1) =>
                            /\ Len(g[n]) = n
                            /\ \A k \in 1 .. n : g[n][k] = ss[k][1]
             P == {n \in 0 .. Len(ss) : From(n) /\ To(n) /\ Single(n)}
  <1>2. 0 \in P
    <2>1. From(0) /\ To(0) /\ Single(0)
      BY <1>1
    <2>2. 0 \in 0 .. Len(ss)
      OBVIOUS
    <2> HIDE DEF From, To, Single
    <2> QED
      BY <2>1, <2>2
  <1>3. ASSUME NEW n \in 1 .. Len(ss), n - 1 \in P PROVE n \in P
    <2> DEFINE d == g[n - 1]
               c == ss[n]
    <2>1. d \in Seq(E) /\ c \in Seq(E)
      <3>1. Len(ss) \in Nat /\ n - 1 \in 0 .. Len(ss)
        OBVIOUS
      <3>3. ss[n] \in Seq(E)
        OBVIOUS
      <3>2. g[n - 1] \in Seq(E) /\ ss[n] \in Seq(E)
        BY <3>1, <3>3
      <3> QED
        BY <3>2
    <2>2. g[n] = d \o c
      BY <1>1
    <2>3. From(n - 1) /\ To(n - 1) /\ Single(n - 1)
      BY <1>3
    <2>4. /\ Len(g[n]) = Len(d) + Len(c) /\ Len(d) \in Nat /\ Len(c) \in Nat
          /\ \A q \in 1 .. Len(d) : g[n][q] = d[q]
          /\ \A j \in 1 .. Len(c) : g[n][Len(d) + j] = c[j]
      <3> HIDE DEF d, c
      <3> QED
        BY <2>1, <2>2
    <2>9. /\ \A q \in 1 .. Len(d) :
               \E k \in 1 .. n - 1 : \E j \in 1 .. Len(ss[k]) : d[q] = ss[k][j]
          /\ \A k \in 1 .. n - 1 : \A j \in 1 .. Len(ss[k]) :
               \E q \in 1 .. Len(d) : d[q] = ss[k][j]
          /\ (\A k \in 1 .. Len(ss) : Len(ss[k]) = 1) =>
               Len(d) = n - 1 /\ \A k \in 1 .. n - 1 : d[k] = ss[k][1]
      BY <2>3
    <2>10. c = ss[n]
      OBVIOUS
    <2> HIDE DEF d, c
    <2>5. From(n)
      <3>1. SUFFICES ASSUME NEW q \in 1 .. Len(g[n])
            PROVE  \E k \in 1 .. n : \E j \in 1 .. Len(ss[k]) : g[n][q] = ss[k][j]
        OBVIOUS
      <3>2. CASE q \in 1 .. Len(d)
        <4>1. PICK k \in 1 .. n - 1 : \E j \in 1 .. Len(ss[k]) : d[q] = ss[k][j]
          BY <2>9, <3>2
        <4>2. g[n][q] = d[q] /\ k \in 1 .. n
          BY <2>4, <3>2
        <4> QED
          BY <4>1, <4>2
      <3>3. CASE q \notin 1 .. Len(d)
        <4>1. q - Len(d) \in 1 .. Len(c) /\ q = Len(d) + (q - Len(d))
          BY <2>4, <3>3
        <4>2. g[n][q] = c[q - Len(d)]
          BY <2>4, <4>1
        <4>4. g[n][q] = ss[n][q - Len(d)] /\ q - Len(d) \in 1 .. Len(ss[n])
          BY <2>10, <4>1, <4>2
        <4>3. n \in 1 .. n
          OBVIOUS
        <4> QED
          BY <4>3, <4>4
      <3> QED
        BY <3>2, <3>3
    <2>6. To(n)
      <3>1. SUFFICES ASSUME NEW k \in 1 .. n, NEW j \in 1 .. Len(ss[k])
            PROVE  \E q \in 1 .. Len(g[n]) : g[n][q] = ss[k][j]
        OBVIOUS
      <3>2. CASE k = n
        <4>1. c = ss[k] /\ j \in 1 .. Len(c)
          BY <2>10, <3>2
        <4>2. Len(d) + j \in 1 .. Len(g[n])
          BY <2>4, <4>1
        <4>3. g[n][Len(d) + j] = c[j]
          BY <2>4, <4>1
        <4> QED
          BY <4>1, <4>2, <4>3
      <3>3. CASE k # n
        <4>1. k \in 1 .. n - 1
          BY <3>3
        <4>2. PICK q \in 1 .. Len(d) : d[q] = ss[k][j]
          BY <2>9, <4>1
        <4>3. q \in 1 .. Len(g[n]) /\ g[n][q] = ss[k][j]
          BY <2>4, <4>2
        <4> QED
          BY <4>3
      <3> QED
        BY <3>2, <3>3
    <2>7. Single(n)
      <3>1. SUFFICES ASSUME \A k \in 1 .. Len(ss) : Len(ss[k]) = 1
            PROVE  Len(g[n]) = n /\ \A k \in 1 .. n : g[n][k] = ss[k][1]
        OBVIOUS
      <3>2. Len(d) = n - 1 /\ \A k \in 1 .. n - 1 : d[k] = ss[k][1]
        BY <2>9, <3>1
      <3>3. Len(c) = 1
        BY <2>10, <3>1
      <3>4. Len(g[n]) = n /\ g[n][n] = ss[n][1]
        BY <2>4, <2>10, <3>2, <3>3
      <3>5. ASSUME NEW k \in 1 .. n PROVE g[n][k] = ss[k][1]
        <4>1. CASE k = n
          BY <3>4, <4>1
        <4>2. CASE k # n
          <5>1. k \in 1 .. n - 1 /\ k \in 1 .. Len(d)
            BY <3>2, <4>2
          <5> QED
            BY <2>4, <3>2, <5>1
        <4> QED
          BY <4>1, <4>2
      <3> QED
        BY <3>4, <3>5
    <2>8. n \in 0 .. Len(ss)
      OBVIOUS
    <2> HIDE DEF From, To, Single
    <2> QED
      BY <2>5, <2>6, <2>7, <2>8
  <1> HIDE DEF P
  <1>4. Len(ss) \in P
    <2>1. Len(ss) \in Nat /\ Len(ss) \in 0 .. Len(ss)
      OBVIOUS
    <2> QED
      BY <1>2, <1>3, <2>1, Induction
  <1>5. From(Len(ss)) /\ To(Len(ss)) /\ Single(Len(ss))
    BY <1>4 DEF P
  <1> DEFINE f == FlattenSeq(ss)
  <1>6. f \in Seq(E) /\ g[Len(ss)] = f
    <2>1. Len(ss) \in Nat
      OBVIOUS
    <2> QED
      BY <1>1, <2>1
  <1> HIDE DEF f
  <1>7. ASSUME NEW q \in 1 .. Len(f)
        PROVE  \E k \in 1 .. Len(ss) : \E j \in 1 .. Len(ss[k]) : f[q] = ss[k][j]
    <2>1. q \in 1 .. Len(g[Len(ss)])
      BY <1>6
    <2>2. \E k \in 1 .. Len(ss) : \E j \in 1 .. Len(ss[k]) : g[Len(ss)][q] = ss[k][j]
      BY <1>5, <2>1
    <2> QED
      BY <1>6, <2>2
  <1>8. \A k \in 1 .. Len(ss) : \A j \in 1 .. Len(ss[k]) :
           \E q \in 1 .. Len(f) : f[q] = ss[k][j]
    BY <1>5, <1>6
  <1>9. (\A k \in 1 .. Len(ss) : Len(ss[k]) = 1) =>
           /\ Len(f) = Len(ss)
           /\ \A k \in 1 .. Len(ss) : f[k] = ss[k][1]
    BY <1>5, <1>6
  <1>10. Flattens(f, ss, E)
    BY <1>6, <1>7, <1>8, <1>9 DEF Flattens
  <1> QED
    BY <1>10 DEF f

(***************************************************************************)
(* Two sequences, one after the other.                                     *)
(***************************************************************************)
Joins(z, s, t, E) ==
    /\ z \in Seq(E) /\ Len(z) = Len(s) + Len(t)
    /\ Len(s) \in Nat /\ Len(t) \in Nat
    /\ \A q \in 1 .. Len(s) : z[q] = s[q]
    /\ \A q \in 1 .. Len(t) : z[Len(s) + q] = t[q]

LEMMA Joined ==
    ASSUME NEW E, NEW s \in Seq(E), NEW t \in Seq(E)
    PROVE  Joins(s \o t, s, t, E)
  BY DEF Joins

(***************************************************************************)
(* What getifaddrs lists.                                                  *)
(***************************************************************************)
Entry(l, field, j) == [name |-> l.name, field |-> field, addr |-> l[field][j]]

LEMMA LinkFields ==
    ASSUME NEW l \in LinkType, NEW field \in Fields
    PROVE  /\ Len(l[field]) \in Nat
           /\ \A j \in 1 .. Len(l[field]) : Entry(l, field, j) \in EntryType
           /\ Len(l.mac) = 1
           /\ field # "mac" => l[field] \in Seq(Addresses)
  <1>1. l.name \in STRING /\ l.ipv4 \in Seq(Addresses) /\ l.ipv6 \in Seq(Addresses)
    BY DEF LinkType
  <1>2. Len(l.mac) = 1 /\ l.mac[1] \in Addresses \union NotSix
    BY DEF LinkType
  <1>3. CASE field = "mac"
    BY <1>1, <1>2, <1>3 DEF Entry, EntryType, Fields
  <1>4. CASE field = "ipv4"
    BY <1>1, <1>2, <1>4 DEF Entry, EntryType, Fields
  <1>5. CASE field = "ipv6"
    BY <1>1, <1>2, <1>5 DEF Entry, EntryType, Fields
  <1> QED
    BY <1>3, <1>4, <1>5 DEF Fields

LEMMA EntriesOf ==
    ASSUME NEW links \in Seq(LinkType), NEW field \in Fields
    PROVE  LET es == Entries(links, field)
           IN  /\ es \in Seq(EntryType)
               /\ \A q \in 1 .. Len(es) :
                    \E k \in 1 .. Len(links) : \E j \in 1 .. Len(links[k][field]) :
                       es[q] = Entry(links[k], field, j)
               /\ \A k \in 1 .. Len(links) : \A j \in 1 .. Len(links[k][field]) :
                    \E q \in 1 .. Len(es) : es[q] = Entry(links[k], field, j)
               /\ field = "mac" =>
                    /\ Len(es) = Len(links)
                    /\ \A k \in 1 .. Len(links) : es[k] = Entry(links[k], field, 1)
  <1> DEFINE part(i) == [j \in 1 .. Len(links[i][field]) |-> Entry(links[i], field, j)]
             ss == [i \in 1 .. Len(links) |-> part(i)]
             es == Entries(links, field)
  <1>11. es = Entries(links, field)
    OBVIOUS
  <1>1. Len(links) \in Nat /\ \A i \in 1 .. Len(links) : links[i] \in LinkType
    OBVIOUS
  <1>2. es = FlattenSeq(ss)
    BY DEF Entries, Entry
  <1>3. ASSUME NEW i \in 1 .. Len(links)
        PROVE  /\ part(i) \in Seq(EntryType) /\ Len(part(i)) = Len(links[i][field])
               /\ \A j \in 1 .. Len(links[i][field]) : part(i)[j] = Entry(links[i], field, j)
    <2>1. /\ Len(links[i][field]) \in Nat
          /\ \A j \in 1 .. Len(links[i][field]) : Entry(links[i], field, j) \in EntryType
      BY <1>1, LinkFields
    <2> QED
      BY <2>1
  <1> HIDE DEF part
  <1>4. /\ ss \in Seq(Seq(EntryType)) /\ Len(ss) = Len(links)
        /\ \A i \in 1 .. Len(links) : ss[i] = part(i)
    <2>1. ss \in [1 .. Len(links) -> Seq(EntryType)]
      BY <1>3
    <2> QED
      BY <1>1, <2>1
  <1>5. field = "mac" => \A k \in 1 .. Len(ss) : Len(ss[k]) = 1
    BY <1>1, <1>3, <1>4, LinkFields
  <1> HIDE DEF ss, es
  <1>6. /\ es \in Seq(EntryType)
        /\ \A q \in 1 .. Len(es) :
             \E k \in 1 .. Len(ss) : \E j \in 1 .. Len(ss[k]) : es[q] = ss[k][j]
        /\ \A k \in 1 .. Len(ss) : \A j \in 1 .. Len(ss[k]) :
             \E q \in 1 .. Len(es) : es[q] = ss[k][j]
        /\ field = "mac" =>
             /\ Len(es) = Len(ss)
             /\ \A k \in 1 .. Len(ss) : es[k] = ss[k][1]
    <2>1. Flattens(es, ss, EntryType)
      BY <1>2, <1>4, FlattenElements
    <2> QED
      BY <1>5, <2>1 DEF Flattens
  <1>7. \A k \in 1 .. Len(links) :
           /\ Len(ss[k]) = Len(links[k][field])
           /\ \A j \in 1 .. Len(links[k][field]) : ss[k][j] = Entry(links[k], field, j)
    BY <1>3, <1>4
  <1>8. ASSUME NEW q \in 1 .. Len(es)
        PROVE  \E k \in 1 .. Len(links) : \E j \in 1 .. Len(links[k][field]) :
                  es[q] = Entry(links[k], field, j)
    <2>1. PICK k \in 1 .. Len(ss) : \E j \in 1 .. Len(ss[k]) : es[q] = ss[k][j]
      BY <1>6
    <2>2. PICK j \in 1 .. Len(ss[k]) : es[q] = ss[k][j]
      BY <2>1
    <2>3. k \in 1 .. Len(links) /\ j \in 1 .. Len(links[k][field])
      BY <1>4, <1>7
    <2> QED
      BY <1>7, <2>2, <2>3
  <1>9. ASSUME NEW k \in 1 .. Len(links), NEW j \in 1 .. Len(links[k][field])
        PROVE  \E q \in 1 .. Len(es) : es[q] = Entry(links[k], field, j)
    <2>1. k \in 1 .. Len(ss) /\ j \in 1 .. Len(ss[k])
      BY <1>4, <1>7
    <2>2. PICK q \in 1 .. Len(es) : es[q] = ss[k][j]
      BY <1>6, <2>1
    <2> QED
      BY <1>7, <2>2
  <1>10. ASSUME field = "mac"
         PROVE  /\ Len(es) = Len(links)
                /\ \A k \in 1 .. Len(links) : es[k] = Entry(links[k], field, 1)
    <2>1. Len(es) = Len(links) /\ Len(ss) = Len(links)
      BY <1>4, <1>6, <1>10
    <2>3. \A k \in 1 .. Len(links) : es[k] = ss[k][1]
      BY <1>6, <1>10, <2>1
    <2>2. \A k \in 1 .. Len(links) : 1 \in 1 .. Len(links[k][field])
      <3>1. \A k \in 1 .. Len(links) : Len(links[k][field]) = 1
        BY <1>4, <1>5, <1>7, <1>10
      <3> QED
        BY <3>1
    <2> QED
      BY <1>7, <2>1, <2>2, <2>3
  <1> QED
    BY <1>6, <1>8, <1>9, <1>10, <1>11

(***************************************************************************)
(* All hardware addresses come first, and the IPv6 addresses last.         *)
(***************************************************************************)
LEMMA AddressesOf ==
    ASSUME NEW links \in Seq(LinkType)
    PROVE  LET es == Getifaddrs(links)
           IN  /\ es \in Seq(EntryType) /\ Len(links) \in Nat /\ Len(links) <= Len(es)
               /\ \A q \in 1 .. Len(links) : es[q] = Entry(links[q], "mac", 1)
               /\ \A q \in Len(links) + 1 .. Len(es) :
                    \E k \in 1 .. Len(links) : \E field \in {"ipv4", "ipv6"} :
                       \E j \in 1 .. Len(links[k][field]) : es[q] = Entry(links[k], field, j)
               /\ \A k \in 1 .. Len(links) : \A field \in {"ipv4", "ipv6"} :
                    \A j \in 1 .. Len(links[k][field]) :
                       \E q \in 1 .. Len(es) : es[q] = Entry(links[k], field, j)
               /\ \A p, q \in 1 .. Len(es) :
                    es[p].field = "ipv6" /\ p < q => es[q].field = "ipv6"
  <1> DEFINE macs == Entries(links, "mac")
             ipv4s == Entries(links, "ipv4")
             ipv6s == Entries(links, "ipv6")
             es == (macs \o ipv4s) \o ipv6s
  <1>1. Getifaddrs(links) = es
    BY DEF Getifaddrs
  <1>2. /\ macs \in Seq(EntryType) /\ Len(macs) = Len(links)
        /\ \A q \in 1 .. Len(macs) : macs[q] = Entry(links[q], "mac", 1)
    BY EntriesOf DEF Fields
  <1>3. /\ ipv4s \in Seq(EntryType)
        /\ \A q \in 1 .. Len(ipv4s) :
             \E k \in 1 .. Len(links) : \E j \in 1 .. Len(links[k]["ipv4"]) :
                ipv4s[q] = Entry(links[k], "ipv4", j)
        /\ \A k \in 1 .. Len(links) : \A j \in 1 .. Len(links[k]["ipv4"]) :
             \E q \in 1 .. Len(ipv4s) : ipv4s[q] = Entry(links[k], "ipv4", j)
    <2>1. "ipv4" \in Fields
      BY DEF Fields
    <2> QED
      BY <2>1, EntriesOf
  <1>4. /\ ipv6s \in Seq(EntryType)
        /\ \A q \in 1 .. Len(ipv6s) :
             \E k \in 1 .. Len(links) : \E j \in 1 .. Len(links[k]["ipv6"]) :
                ipv6s[q] = Entry(links[k], "ipv6", j)
        /\ \A k \in 1 .. Len(links) : \A j \in 1 .. Len(links[k]["ipv6"]) :
             \E q \in 1 .. Len(ipv6s) : ipv6s[q] = Entry(links[k], "ipv6", j)
    <2>1. "ipv6" \in Fields
      BY DEF Fields
    <2> QED
      BY <2>1, EntriesOf
  <1> HIDE DEF macs, ipv4s, ipv6s
  <1> DEFINE a == Len(macs)
             b == Len(ipv4s)
             c == Len(ipv6s)
  <1>5. a \in Nat /\ b \in Nat /\ c \in Nat
    BY <1>2, <1>3, <1>4
  <1>6. /\ es \in Seq(EntryType) /\ Len(es) = a + b + c
        /\ \A q \in 1 .. a : es[q] = macs[q]
        /\ \A q \in 1 .. b : es[a + q] = ipv4s[q]
        /\ \A q \in 1 .. c : es[a + b + q] = ipv6s[q]
    <2> DEFINE z == macs \o ipv4s
    <2>1. /\ z \in Seq(EntryType) /\ Len(z) = a + b
          /\ \A q \in 1 .. a : z[q] = macs[q]
          /\ \A q \in 1 .. b : z[a + q] = ipv4s[q]
      <3>1. Joins(z, macs, ipv4s, EntryType)
        BY <1>2, <1>3, Joined
      <3> HIDE DEF z
      <3> QED
        BY <3>1 DEF Joins
    <2>2. es = z \o ipv6s
      OBVIOUS
    <2> HIDE DEF z, es
    <2>3. /\ es \in Seq(EntryType) /\ Len(es) = a + b + c
          /\ \A q \in 1 .. a + b : es[q] = z[q]
          /\ \A q \in 1 .. c : es[a + b + q] = ipv6s[q]
      <3>1. /\ es \in Seq(EntryType) /\ Len(es) = Len(z) + Len(ipv6s)
            /\ \A q \in 1 .. Len(z) : es[q] = z[q]
            /\ \A q \in 1 .. Len(ipv6s) : es[Len(z) + q] = ipv6s[q]
        <4>1. Joins(es, z, ipv6s, EntryType)
          BY <1>4, <2>1, <2>2, Joined
        <4> QED
          BY <4>1 DEF Joins
      <3> QED
        BY <2>1, <3>1
    <2>4. \A q \in 1 .. a : q \in 1 .. a + b
      BY <1>5
    <2>5. \A q \in 1 .. b : a + q \in 1 .. a + b
      BY <1>5
    <2> HIDE DEF a, b, c
    <2> QED
      BY <2>1, <2>3, <2>4, <2>5
  <1>7. \A q \in 1 .. Len(es) :
           \/ q \in 1 .. a
           \/ q - a \in 1 .. b /\ q = a + (q - a)
           \/ q - a - b \in 1 .. c /\ q = a + b + (q - a - b)
    <2> HIDE DEF a, b, c, es
    <2> QED
      BY <1>5, <1>6
  <1> HIDE DEF es
  <1>8. Len(links) = a /\ Len(links) <= Len(es) /\ Len(links) \in Nat
    BY <1>2, <1>5, <1>6
  <1>9. \A q \in 1 .. a : es[q] = Entry(links[q], "mac", 1)
    BY <1>2, <1>6
  <1> HIDE DEF a, b, c
  <1>10. ASSUME NEW q \in a + 1 .. Len(es)
         PROVE  \/ \E k \in 1 .. Len(links) : \E j \in 1 .. Len(links[k]["ipv4"]) :
                      es[q] = Entry(links[k], "ipv4", j)
                \/ \E k \in 1 .. Len(links) : \E j \in 1 .. Len(links[k]["ipv6"]) :
                      es[q] = Entry(links[k], "ipv6", j)
    <2>1. CASE q - a \in 1 .. b /\ q = a + (q - a)
      BY <1>3, <1>6, <2>1 DEF b
    <2>2. CASE q - a - b \in 1 .. c /\ q = a + b + (q - a - b)
      BY <1>4, <1>6, <2>2 DEF c
    <2>3. q \in 1 .. Len(es) /\ q \notin 1 .. a
      BY <1>5
    <2> QED
      BY <1>7, <2>1, <2>2, <2>3
  <1>11. ASSUME NEW k \in 1 .. Len(links), NEW field \in {"ipv4", "ipv6"},
                NEW j \in 1 .. Len(links[k][field])
         PROVE  \E q \in 1 .. Len(es) : es[q] = Entry(links[k], field, j)
    <2>1. CASE field = "ipv4"
      <3>1. PICK q \in 1 .. b : ipv4s[q] = Entry(links[k], "ipv4", j)
        BY <1>3, <2>1 DEF b
      <3>2. a + q \in 1 .. Len(es)
        BY <1>5, <1>6
      <3> QED
        BY <1>6, <2>1, <3>1, <3>2
    <2>2. CASE field = "ipv6"
      <3>1. PICK q \in 1 .. c : ipv6s[q] = Entry(links[k], "ipv6", j)
        BY <1>4, <2>2 DEF c
      <3>2. a + b + q \in 1 .. Len(es)
        BY <1>5, <1>6
      <3> QED
        BY <1>6, <2>2, <3>1, <3>2
    <2> QED
      BY <2>1, <2>2
  <1>12. ASSUME NEW p \in 1 .. Len(es), NEW q \in 1 .. Len(es),
                es[p].field = "ipv6", p < q
         PROVE  es[q].field = "ipv6"
    <2>1. p > a + b
      <3>1. CASE p \in 1 .. a
        <4>1. es[p] = Entry(links[p], "mac", 1)
          BY <1>9, <3>1
        <4> QED
          BY <1>12, <4>1 DEF Entry
      <3>2. CASE p - a \in 1 .. b /\ p = a + (p - a)
        <4>1. es[p] = ipv4s[p - a]
          BY <1>6, <3>2
        <4>2. ipv4s[p - a].field = "ipv4"
          <5>1. PICK k \in 1 .. Len(links) : \E j \in 1 .. Len(links[k]["ipv4"]) :
                       ipv4s[p - a] = Entry(links[k], "ipv4", j)
            BY <1>3, <3>2 DEF b
          <5>2. PICK j : ipv4s[p - a] = Entry(links[k], "ipv4", j)
            BY <5>1
          <5> QED
            BY <5>2 DEF Entry
        <4> QED
          BY <1>12, <4>1, <4>2
      <3>3. CASE p - a - b \in 1 .. c /\ p = a + b + (p - a - b)
        BY <1>5, <3>3
      <3> QED
        BY <1>7, <3>1, <3>2, <3>3
    <2>2. q - a - b \in 1 .. c /\ q = a + b + (q - a - b)
      BY <1>5, <1>6, <1>12, <2>1
    <2>3. es[q] = ipv6s[q - a - b]
      BY <1>6, <2>2
    <2>4. ipv6s[q - a - b].field = "ipv6"
      <3>1. PICK k \in 1 .. Len(links) : \E j \in 1 .. Len(links[k]["ipv6"]) :
                   ipv6s[q - a - b] = Entry(links[k], "ipv6", j)
        BY <1>4, <2>2 DEF c
      <3>2. PICK j : ipv6s[q - a - b] = Entry(links[k], "ipv6", j)
        BY <3>1
      <3> QED
        BY <3>2 DEF Entry
    <2> QED
      BY <2>3, <2>4
  <1>13. \A q \in a + 1 .. Len(es) :
            \E k \in 1 .. Len(links) : \E field \in {"ipv4", "ipv6"} :
               \E j \in 1 .. Len(links[k][field]) : es[q] = Entry(links[k], field, j)
    BY <1>10
  <1> QED
    BY <1>1, <1>6, <1>8, <1>9, <1>11, <1>12, <1>13

(***************************************************************************)
(* What one pass of the loop does.                                         *)
(***************************************************************************)
Unlisted(nets, e) ==
    Len(nets) = MAX_NETWORKS \/ e.name \in SkippedByC \/ e.addr \in NotSix \/ e.field = "ipv6"

Put(n, f, x) == [n EXCEPT ![f] = x]

Updates(z, nets, e) ==
    /\ e.addr \in Addresses /\ e.name \notin SkippedByC
    /\ \E i \in 1 .. Len(nets) : nets[i].name = e.name
    /\ Len(z) = Len(nets)
    /\ \A i \in 1 .. Len(nets) :
          z[i] = IF nets[i].name = e.name THEN Put(nets[i], e.field, e.addr)
                                          ELSE nets[i]

Adds(z, nets, e) ==
    /\ e.addr \in Addresses /\ e.name \notin SkippedByC /\ e.field # "ipv6"
    /\ Len(nets) < MAX_NETWORKS
    /\ \A i \in 1 .. Len(nets) : nets[i].name # e.name
    /\ z = Append(nets, Put(NewNetwork(e.name), e.field, e.addr))

LEMMA ListedCases ==
    ASSUME NEW nets \in Seq(NetworkType), Len(nets) <= MAX_NETWORKS, NEW e \in EntryType
    PROVE  \/ Listed(nets, e) = nets /\ Unlisted(nets, e)
                /\ (e.name \in SkippedByC \/ e.addr \in NotSix \/ Len(nets) = MAX_NETWORKS
                      \/ \A i \in 1 .. Len(nets) : nets[i].name # e.name)
           \/ Updates(Listed(nets, e), nets, e)
           \/ Adds(Listed(nets, e), nets, e)
  <1>1. Len(nets) \in Nat /\ MAX_NETWORKS \in Nat /\ e.addr \in Addresses \union NotSix
    BY NetworksAssumption DEF EntryType
  <1>2. Named(nets, e.name) = {} <=> \A i \in 1 .. Len(nets) : nets[i].name # e.name
    BY DEF Named
  <1>3. CASE Len(nets) = MAX_NETWORKS \/ e.name \in SkippedByC \/ e.addr \in NotSix
    BY <1>1, <1>3 DEF Listed, Unlisted
  <1>4. CASE /\ Len(nets) < MAX_NETWORKS /\ e.name \notin SkippedByC /\ e.addr \notin NotSix
             /\ Named(nets, e.name) = {} /\ e.field = "ipv6"
    BY <1>1, <1>2, <1>4 DEF Listed, Unlisted
  <1>5. CASE /\ Len(nets) < MAX_NETWORKS /\ e.name \notin SkippedByC /\ e.addr \notin NotSix
             /\ Named(nets, e.name) = {} /\ e.field # "ipv6"
    BY <1>1, <1>2, <1>5 DEF Listed, Adds, Put
  <1>6. CASE /\ Len(nets) < MAX_NETWORKS /\ e.name \notin SkippedByC /\ e.addr \notin NotSix
             /\ Named(nets, e.name) # {}
    <2> DEFINE z == [i \in 1 .. Len(nets) |-> IF nets[i].name = e.name
                       THEN [nets[i] EXCEPT ![e.field] = e.addr] ELSE nets[i]]
    <2>1. Listed(nets, e) = z
      BY <1>1, <1>6 DEF Listed
    <2>2. /\ Len(z) = Len(nets)
          /\ \A i \in 1 .. Len(nets) :
                z[i] = IF nets[i].name = e.name THEN Put(nets[i], e.field, e.addr)
                                                ELSE nets[i]
      BY <1>1 DEF Put
    <2> HIDE DEF z
    <2> QED
      BY <1>1, <1>2, <1>6, <2>1, <2>2 DEF Updates
  <1> QED
    BY <1>1, <1>3, <1>4, <1>5, <1>6

LEMMA AddressIsNot ==
    /\ Blank \notin Addresses
    /\ \A x \in Addresses : x \notin NotSix /\ x # NoMac /\ x # Blank
  <1>1. ASSUME NEW x \in NotSix PROVE x \notin Seq(Characters)
    <2>1. SUFFICES ASSUME x \in Seq(Characters) PROVE FALSE
      OBVIOUS
    <2>2. Len(x) = 1 /\ x[1] \in {"none", "odd"}
      BY DEF NotSix, NoMac, OddMac
    <2>3. \A i \in 1 .. Len(x) : x[i] \in Characters
      BY <2>1
    <2> QED
      BY <2>2, <2>3 DEF Characters
  <1>2. NoMac \in NotSix
    BY DEF NotSix
  <1> QED
    BY <1>1, <1>2 DEF Addresses

LEMMA RecordParts ==
    ASSUME NEW n \in NetworkType, NEW f \in Fields, NEW x \in Addresses
    PROVE  LET r == Put(n, f, x)
           IN  /\ r.name = n.name
               /\ r.mac = IF f = "mac" THEN x ELSE n.mac
               /\ r.ipv4 = IF f = "ipv4" THEN x ELSE n.ipv4
               /\ r.ipv6 = IF f = "ipv6" THEN x ELSE n.ipv6
  <1>1. CASE f = "mac"
    BY <1>1 DEF NetworkType, Put
  <1>2. CASE f = "ipv4"
    BY <1>2 DEF NetworkType, Put
  <1>3. CASE f = "ipv6"
    BY <1>3 DEF NetworkType, Put
  <1> QED
    BY <1>1, <1>2, <1>3 DEF Fields

(***************************************************************************)
(* The list of the C client: each interface once, with addresses of its    *)
(* own, and every IPv4 address that was listed so far has a place in it,   *)
(* unless its interface is skipped or the list is full.                    *)
(***************************************************************************)
OneEach(nets) ==
    \A i, j \in 1 .. Len(nets) : nets[i].name = nets[j].name => i = j

Has(links, name, addr) ==
    \E k \in 1 .. Len(links) : /\ links[k].name = name
                               /\ \E j \in 1 .. Len(links[k].ipv4) : addr = links[k].ipv4[j]

Owned(nets, links) ==
    \A i \in 1 .. Len(nets) :
       /\ nets[i].name \notin SkippedByC
       /\ nets[i].ipv4 = Blank \/ Has(links, nets[i].name, nets[i].ipv4)

Seen(nets, e) ==
    e.field = "ipv4" =>
       \/ Len(nets) = MAX_NETWORKS \/ e.name \in SkippedByC
       \/ \E i \in 1 .. Len(nets) : nets[i].name = e.name /\ nets[i].ipv4 # Blank

LEMMA ListedKeeps ==
    ASSUME NEW links, NEW nets \in Seq(NetworkType), NEW e \in EntryType,
           Len(nets) <= MAX_NETWORKS, OneEach(nets), Owned(nets, links),
           e.field = "ipv4" => e.addr \in Addresses /\ Has(links, e.name, e.addr)
    PROVE  LET z == Listed(nets, e)
           IN  /\ Len(z) <= MAX_NETWORKS /\ OneEach(z) /\ Owned(z, links)
               /\ Seen(z, e) /\ \A d \in EntryType : Seen(nets, d) => Seen(z, d)
  <1> DEFINE z == Listed(nets, e)
  <1>1. /\ Len(nets) \in Nat /\ MAX_NETWORKS \in Nat /\ Len(z) \in Nat
        /\ e.field \in Fields /\ e.name \in STRING
        /\ \A i \in 1 .. Len(nets) : nets[i] \in NetworkType
    BY NetworksAssumption, ListedType DEF EntryType
  <1> HIDE DEF z
  <1>2. CASE z = nets /\ Unlisted(nets, e)
    <2>1. Seen(z, e)
      BY <1>2, AddressIsNot DEF Unlisted, Seen
    <2> QED
      BY <1>2, <2>1 DEF z
  <1>3. CASE Updates(z, nets, e)
    <2>1. /\ Len(z) = Len(nets) /\ e.addr \in Addresses /\ e.name \notin SkippedByC
          /\ \A i \in 1 .. Len(nets) :
                z[i] = IF nets[i].name = e.name THEN Put(nets[i], e.field, e.addr)
                                                ELSE nets[i]
      BY <1>3 DEF Updates
    <2>2. PICK k \in 1 .. Len(nets) : nets[k].name = e.name
      BY <1>3 DEF Updates
    <2>3. ASSUME NEW i \in 1 .. Len(nets)
          PROVE  /\ z[i].name = nets[i].name
                 /\ z[i].ipv4 = IF nets[i].name = e.name /\ e.field = "ipv4" THEN e.addr
                                ELSE nets[i].ipv4
      <3>1. CASE nets[i].name = e.name
        BY <1>1, <2>1, <3>1, RecordParts
      <3>2. CASE nets[i].name # e.name
        BY <2>1, <3>2
      <3> QED
        BY <3>1, <3>2
    <2>4. OneEach(z)
      BY <2>1, <2>3 DEF OneEach
    <2>5. Owned(z, links)
      BY <2>1, <2>3 DEF Owned
    <2>6. Seen(z, e)
      BY <2>1, <2>2, <2>3, AddressIsNot DEF Seen
    <2>7. ASSUME NEW d \in EntryType, Seen(nets, d) PROVE Seen(z, d)
      <3>1. ASSUME NEW i \in 1 .. Len(nets), nets[i].ipv4 # Blank PROVE z[i].ipv4 # Blank
        BY <2>1, <2>3, <3>1, AddressIsNot
      <3> QED
        BY <2>1, <2>3, <2>7, <3>1 DEF Seen
    <2> QED
      BY <2>1, <2>4, <2>5, <2>6, <2>7 DEF z
  <1>4. CASE Adds(z, nets, e)
    <2> DEFINE new == Put(NewNetwork(e.name), e.field, e.addr)
    <2>1. /\ z = Append(nets, new) /\ e.addr \in Addresses /\ e.name \notin SkippedByC
          /\ Len(nets) < MAX_NETWORKS /\ \A i \in 1 .. Len(nets) : nets[i].name # e.name
      BY <1>4 DEF Adds
    <2>2. new.name = e.name /\ new.ipv4 = IF e.field = "ipv4" THEN e.addr ELSE Blank
      <3>1. /\ NewNetwork(e.name) \in NetworkType /\ NewNetwork(e.name).name = e.name
            /\ NewNetwork(e.name).ipv4 = Blank
        BY <1>1, NewType
      <3>2. \A n \in NetworkType :
               /\ Put(n, e.field, e.addr).name = n.name
               /\ Put(n, e.field, e.addr).ipv4 = IF e.field = "ipv4" THEN e.addr ELSE n.ipv4
        BY <1>1, <2>1, RecordParts
      <3> QED
        BY <3>1, <3>2
    <2> HIDE DEF new
    <2>3. /\ Len(z) = Len(nets) + 1 /\ z[Len(nets) + 1] = new
          /\ \A i \in 1 .. Len(nets) : z[i] = nets[i]
          /\ \A i \in 1 .. Len(z) : i \in 1 .. Len(nets) \/ i = Len(nets) + 1
      BY <1>1, <2>1
    <2>4. OneEach(z)
      BY <2>1, <2>2, <2>3 DEF OneEach
    <2>5. Owned(z, links)
      BY <2>1, <2>2, <2>3 DEF Owned
    <2>6. Seen(z, e)
      BY <1>1, <2>1, <2>2, <2>3, AddressIsNot DEF Seen
    <2>7. ASSUME NEW d \in EntryType, Seen(nets, d) PROVE Seen(z, d)
      <3>1. \A i \in 1 .. Len(nets) : i \in 1 .. Len(z)
        BY <1>1, <2>3
      <3> QED
        BY <2>1, <2>3, <2>7, <3>1 DEF Seen
    <2>8. Len(z) <= MAX_NETWORKS
      BY <1>1, <2>1, <2>3
    <2> QED
      BY <2>4, <2>5, <2>6, <2>7, <2>8 DEF z
  <1>5. (z = nets /\ Unlisted(nets, e)) \/ Updates(z, nets, e) \/ Adds(z, nets, e)
    BY ListedCases DEF z
  <1> QED
    BY <1>2, <1>3, <1>4, <1>5 DEF z

LEMMA EntryIsOfLink ==
    ASSUME NEW links \in Seq(LinkType), NEW q \in 1 .. Len(Getifaddrs(links)),
           Getifaddrs(links)[q].field = "ipv4"
    PROVE  /\ Getifaddrs(links)[q].addr \in Addresses
           /\ Has(links, Getifaddrs(links)[q].name, Getifaddrs(links)[q].addr)
  <1> DEFINE es == Getifaddrs(links)
  <1>1. /\ Len(links) \in Nat
        /\ \A p \in 1 .. Len(links) : es[p] = Entry(links[p], "mac", 1)
        /\ \A p \in Len(links) + 1 .. Len(es) :
             \E k \in 1 .. Len(links) : \E field \in {"ipv4", "ipv6"} :
                \E j \in 1 .. Len(links[k][field]) : es[p] = Entry(links[k], field, j)
    BY AddressesOf
  <1> HIDE DEF es
  <1>2. q \in 1 .. Len(es) /\ es[q].field = "ipv4"
    BY DEF es
  <1>3. q \notin 1 .. Len(links)
    <2>1. SUFFICES ASSUME q \in 1 .. Len(links) PROVE FALSE
      OBVIOUS
    <2>2. es[q] = Entry(links[q], "mac", 1)
      BY <1>1, <2>1
    <2> QED
      BY <1>2, <2>2 DEF Entry
  <1>4. PICK k \in 1 .. Len(links) : \E field \in {"ipv4", "ipv6"} :
                \E j \in 1 .. Len(links[k][field]) : es[q] = Entry(links[k], field, j)
    <2>1. q \in Len(links) + 1 .. Len(es)
      BY <1>1, <1>2, <1>3
    <2> QED
      BY <1>1, <2>1, Zenon
  <1>5. PICK field \in {"ipv4", "ipv6"} :
                \E j \in 1 .. Len(links[k][field]) : es[q] = Entry(links[k], field, j)
    BY <1>4
  <1>6. PICK j \in 1 .. Len(links[k][field]) : es[q] = Entry(links[k], field, j)
    BY <1>5
  <1>7. field = "ipv4"
    BY <1>2, <1>6 DEF Entry
  <1>8. /\ j \in 1 .. Len(links[k].ipv4) /\ es[q].name = links[k].name
        /\ es[q].addr = links[k].ipv4[j]
    BY <1>6, <1>7 DEF Entry
  <1>9. links[k].ipv4 \in Seq(Addresses)
    <2>1. links[k] \in LinkType
      OBVIOUS
    <2> QED
      BY <2>1 DEF LinkType
  <1>10. es[q].addr \in Addresses
    BY <1>8, <1>9
  <1> QED
    BY <1>8, <1>10 DEF es, Has

LEMMA ListIsMap ==
    ASSUME NEW links \in Seq(LinkType)
    PROVE  LET z == get_network_info(links)
           IN  /\ z \in Seq(NetworkType) /\ Len(z) <= MAX_NETWORKS
               /\ OneEach(z) /\ Owned(z, links)
               /\ \A k \in 1 .. Len(links) : links[k].ipv4 # <<>> =>
                     \/ Len(z) = MAX_NETWORKS \/ links[k].name \in SkippedByC
                     \/ \E i \in 1 .. Len(z) : z[i].name = links[k].name /\ z[i].ipv4 # Blank
  <1> DEFINE es == Getifaddrs(links)
             z == get_network_info(links)
  <1>1. es \in Seq(EntryType) /\ Len(es) \in Nat
    BY AddressesOf
  <1>2. \A q \in 1 .. Len(es) : es[q].field = "ipv4" =>
           es[q].addr \in Addresses /\ Has(links, es[q].name, es[q].addr)
    BY EntryIsOfLink
  <1>3. ASSUME NEW k \in 1 .. Len(links), links[k].ipv4 # <<>>
        PROVE  \E q \in 1 .. Len(es) : es[q].field = "ipv4" /\ es[q].name = links[k].name
    <2>1. 1 \in 1 .. Len(links[k]["ipv4"])
      <3>1. links[k] \in LinkType
        OBVIOUS
      <3>2. links[k].ipv4 \in Seq(Addresses)
        BY <3>1 DEF LinkType
      <3> QED
        BY <1>3, <3>2
    <2>2. PICK q \in 1 .. Len(es) : es[q] = Entry(links[k], "ipv4", 1)
      BY <2>1, AddressesOf
    <2> QED
      BY <2>2 DEF Entry
  <1>4. z = FoldLeft(Listed, <<>>, es)
    BY DEF get_network_info
  <1> HIDE DEF es, z
  <1>5. PICK g \in [0 .. Len(es) -> Seq(NetworkType)] :
              /\ g[0] = <<>>
              /\ \A n \in 1 .. Len(es) : g[n] = Listed(g[n - 1], es[n])
              /\ FoldLeft(Listed, <<>>, es) = g[Len(es)]
    BY <1>1, ListSteps
  <1> DEFINE Holds(n) == /\ Len(g[n]) <= MAX_NETWORKS /\ OneEach(g[n]) /\ Owned(g[n], links)
                         /\ \A q \in 1 .. n : Seen(g[n], es[q])
             P == {n \in 0 .. Len(es) : Holds(n)}
  <1>6. 0 \in P
    <2>1. Len(g[0]) = 0
      BY <1>5
    <2>2. OneEach(g[0]) /\ Owned(g[0], links) /\ Len(g[0]) <= MAX_NETWORKS
      BY <2>1, NetworksAssumption DEF OneEach, Owned
    <2> QED
      BY <1>1, <2>2
  <1>7. ASSUME NEW n \in 1 .. Len(es), n - 1 \in P PROVE n \in P
    <2> DEFINE d == g[n - 1]
               e == es[n]
    <2>1. n - 1 \in 0 .. Len(es) /\ n \in 0 .. Len(es)
      BY <1>1
    <2>2. d \in Seq(NetworkType) /\ e \in EntryType
      BY <1>1, <1>5, <2>1
    <2>3. Holds(n - 1)
      BY <1>7
    <2>4. g[n] = Listed(d, e)
      BY <1>5
    <2>5. e.field = "ipv4" => e.addr \in Addresses /\ Has(links, e.name, e.addr)
      BY <1>2
    <2>6. Len(d) <= MAX_NETWORKS /\ OneEach(d) /\ Owned(d, links)
      BY <2>3
    <2>7. \A q \in 1 .. n - 1 : es[q] \in EntryType /\ Seen(d, es[q])
      BY <1>1, <2>3
    <2>8. e = es[n]
      OBVIOUS
    <2> HIDE DEF d, e
    <2>9. /\ Len(g[n]) <= MAX_NETWORKS /\ OneEach(g[n]) /\ Owned(g[n], links)
          /\ Seen(g[n], e) /\ \A x \in EntryType : Seen(d, x) => Seen(g[n], x)
      BY <2>2, <2>4, <2>5, <2>6, ListedKeeps
    <2>10. \A q \in 1 .. n : Seen(g[n], es[q])
      <3>1. ASSUME NEW q \in 1 .. n PROVE Seen(g[n], es[q])
        <4>1. CASE q = n
          BY <2>8, <2>9, <4>1
        <4>2. CASE q # n
          <5>1. q \in 1 .. n - 1
            BY <4>2
          <5> QED
            BY <2>7, <2>9, <5>1
        <4> QED
          BY <4>1, <4>2
      <3> QED
        BY <3>1
    <2> QED
      BY <2>1, <2>9, <2>10
  <1> HIDE DEF P
  <1>8. Len(es) \in P
    <2>1. Len(es) \in 0 .. Len(es)
      BY <1>1
    <2> QED
      BY <1>1, <1>6, <1>7, <2>1, Induction
  <1>9. z = g[Len(es)] /\ Holds(Len(es)) /\ g[Len(es)] \in Seq(NetworkType)
    BY <1>1, <1>4, <1>5, <1>8 DEF P
  <1>10. /\ z \in Seq(NetworkType) /\ Len(z) <= MAX_NETWORKS /\ OneEach(z)
         /\ Owned(z, links) /\ \A q \in 1 .. Len(es) : Seen(z, es[q])
    BY <1>9
  <1>11. ASSUME NEW k \in 1 .. Len(links), links[k].ipv4 # <<>>
         PROVE  \/ Len(z) = MAX_NETWORKS \/ links[k].name \in SkippedByC
                \/ \E i \in 1 .. Len(z) : z[i].name = links[k].name /\ z[i].ipv4 # Blank
    <2>1. PICK q \in 1 .. Len(es) : es[q].field = "ipv4" /\ es[q].name = links[k].name
      BY <1>3, <1>11
    <2>2. Seen(z, es[q])
      BY <1>10
    <2> QED
      BY <2>1, <2>2 DEF Seen
  <1> QED
    BY <1>10, <1>11 DEF z

(***************************************************************************)
(* NetworksAreMap, of one machine.                                         *)
(***************************************************************************)
LEMMA NetworksAreMapOf ==
    ASSUME NEW links \in Seq(LinkType),
           \A i, j \in 1 .. Len(links) : links[i].name = links[j].name => i = j,
           NEW z, z = get_network_info(links)
    PROVE  /\ \A i, j \in 1 .. Len(z) : z[i].name = z[j].name => i = j
           /\ \A i \in 1 .. Len(z), k \in 1 .. Len(links) :
                z[i].name = links[k].name =>
                   /\ z[i].ipv4 \in Range(links[k].ipv4) \union {Blank}
                   /\ z[i].ipv4 = Blank /\ links[k].ipv4 # <<>> => Len(z) = MAX_NETWORKS
  <1>1. /\ OneEach(z) /\ Owned(z, links)
        /\ \A k \in 1 .. Len(links) : links[k].ipv4 # <<>> =>
              \/ Len(z) = MAX_NETWORKS \/ links[k].name \in SkippedByC
              \/ \E i \in 1 .. Len(z) : z[i].name = links[k].name /\ z[i].ipv4 # Blank
    BY ListIsMap
  <1>2. ASSUME NEW i \in 1 .. Len(z), NEW k \in 1 .. Len(links), z[i].name = links[k].name
        PROVE  z[i].ipv4 \in Range(links[k].ipv4) \union {Blank}
    <2>1. CASE Has(links, z[i].name, z[i].ipv4)
      <3>1. PICK h \in 1 .. Len(links) :
                   /\ links[h].name = z[i].name
                   /\ \E j \in 1 .. Len(links[h].ipv4) : z[i].ipv4 = links[h].ipv4[j]
        BY <2>1 DEF Has
      <3>2. h = k
        BY <1>2, <3>1
      <3>3. PICK j \in 1 .. Len(links[k].ipv4) : z[i].ipv4 = links[k].ipv4[j]
        BY <3>1, <3>2
      <3>4. j \in DOMAIN links[k].ipv4
        <4>1. links[k] \in LinkType
          OBVIOUS
        <4>2. links[k].ipv4 \in Seq(Addresses)
          BY <4>1 DEF LinkType
        <4> QED
          BY <4>2
      <3> QED
        BY <3>3, <3>4 DEF Range
    <2> QED
      BY <1>1, <2>1 DEF Owned
  <1>3. ASSUME NEW i \in 1 .. Len(z), NEW k \in 1 .. Len(links), z[i].name = links[k].name,
               z[i].ipv4 = Blank, links[k].ipv4 # <<>>
        PROVE  Len(z) = MAX_NETWORKS
    <2>1. z[i].name \notin SkippedByC
      BY <1>1 DEF Owned
    <2>2. \A j \in 1 .. Len(z) : z[j].name = links[k].name => j = i
      BY <1>1, <1>3 DEF OneEach
    <2> QED
      BY <1>1, <1>3, <2>1, <2>2
  <1> QED
    BY <1>1, <1>2, <1>3 DEF OneEach

-----------------------------------------------------------------------------
(* The way of a report.                                                    *)

LEMMA NetworksType ==
    ASSUME NEW m \in Machines
    PROVE  /\ Networks(m) \in Seq(NetworkType)
           /\ m.client = "C" => Len(Networks(m)) <= MAX_NETWORKS
           /\ Address(Networks(m)) \in Seq(Characters)
  <1>1. m.links \in Seq(LinkType)
    BY MachinesAssumption
  <1>2. get_network_info(m.links) \in Seq(NetworkType)
        /\ Len(get_network_info(m.links)) <= MAX_NETWORKS
    BY <1>1, ListIsMap
  <1>3. parseNetworkLinux(m.links, m.commands) \in Seq(NetworkType)
    <2>1. PICK g \in [0 .. Len(m.links) -> Seq(NetworkType)] :
                 FoldLeft(Noted, <<>>, m.links) = g[Len(m.links)]
      BY <1>1, NoteSteps
    <2>2. Len(m.links) \in 0 .. Len(m.links)
      BY <1>1
    <2> QED
      BY <2>1, <2>2 DEF parseNetworkLinux
  <1>4. Networks(m) \in Seq(NetworkType) /\ (m.client = "C" => Len(Networks(m)) <= MAX_NETWORKS)
    BY <1>2, <1>3 DEF Networks
  <1>5. \A nets \in Seq(NetworkType) : Address(nets) \in Seq(Characters)
    <2>1. SUFFICES ASSUME NEW nets \in Seq(NetworkType), nets # <<>>
                   PROVE  nets[1].ipv4 \in Seq(Characters)
      BY BlankType DEF Address
    <2>2. nets[1] \in NetworkType
      BY <2>1
    <2> QED
      BY <2>2 DEF NetworkType
  <1> QED
    BY <1>4, <1>5

(***************************************************************************)
(* A row holds copies of what was read of its machine's texts, if it was   *)
(* told any.                                                               *)
(***************************************************************************)
Stacked == Characters \union {"junk"}
RowType == [from : {1, 2}, whole : BOOLEAN, time : Nat, client_id : Seq(Stacked),
            hostname : Seq(Stacked), ip : Seq(Stacked), timestamp : Int]

RowOK(row) ==
    LET m == machines[row.from] IN
    /\ row.client_id \in Copies(Kept(m, Told(row).client_id, ID_SIZE), ID_SIZE)
    /\ row.hostname \in Copies(Kept(m, Told(row).hostname, HOSTNAME_SIZE), HOSTNAME_SIZE)
    /\ row.ip \in Copies(Told(row).ip, IPV4_SIZE)
    /\ IF row.whole THEN row.timestamp = row.time + m.offset - ServerOffset
                    ELSE m.client = "C" /\ row.timestamp = 0

WireOK ==
    wire # NoReport =>
       /\ wire.from \in {1, 2} /\ wire.time \in Nat /\ wire.whole \in BOOLEAN
       /\ LET m == machines[wire.from] IN
          /\ wire.client_id = Field(m, Told(wire).client_id, ID_SIZE)
          /\ wire.hostname = Field(m, Told(wire).hostname, HOSTNAME_SIZE)
          /\ Address(wire.networks) = Told(wire).ip
          /\ IF wire.whole
             THEN wire.networks = Networks(m) /\ wire.local = wire.time + m.offset
             ELSE m.client = "C" /\ wire.networks = <<>>

Inv ==
    /\ machines \in Machines \X Machines
    /\ reports \in 0 .. MaxReports
    /\ rows \in Seq(RowType)
    /\ WireOK
    /\ \A r \in 1 .. Len(rows) : RowOK(rows[r])
    /\ \A r, s \in 1 .. Len(rows) : rows[r].client_id = rows[s].client_id => r = s

LEMMA MachineType ==
    ASSUME machines \in Machines \X Machines, NEW i \in {1, 2}
    PROVE  /\ machines[i] \in Machines
           /\ machines[i].id \in Seq(Characters) /\ machines[i].hostname \in Seq(Characters)
           /\ machines[i].offset \in Int
           /\ Hostname(machines[i]) \in Seq(Characters)
           /\ Address(Networks(machines[i])) \in Seq(Characters)
  <1>1. machines[i] \in Machines
    OBVIOUS
  <1> QED
    BY <1>1, MachinesAssumption, NetworksType, HostnameIs

LEMMA ToldType ==
    ASSUME machines \in Machines \X Machines, NEW row, row.from \in {1, 2},
           row.whole \in BOOLEAN
    PROVE  /\ machines[row.from] \in Machines /\ machines[row.from].offset \in Int
           /\ Told(row).client_id \in Seq(Characters)
           /\ Told(row).hostname \in Seq(Characters)
           /\ Told(row).ip \in Seq(Characters)
  <1>1. Blank \in Seq(Characters)
    BY DEF Blank
  <1> QED
    BY <1>1, MachineType DEF Told

LEMMA CopyType ==
    ASSUME NEW s \in Seq(Characters), NEW size \in Nat \ {0}, NEW copy \in Copies(s, size)
    PROVE  copy \in Seq(Stacked)
  <1>1. Cut(s, size) \in Seq(Characters)
    BY CutType
  <1>2. Cut(s, size) \in Seq(Stacked) /\ Append(Cut(s, size), "junk") \in Seq(Stacked)
    BY <1>1 DEF Stacked
  <1> QED
    BY <1>2 DEF Copies

(***************************************************************************)
(* The row of a text is replaced, or a row is added, and no identifier is  *)
(* in two rows.                                                            *)
(***************************************************************************)
LEMMA StoredKeeps ==
    ASSUME Inv, NEW row \in RowType, RowOK(row), Stored(row)
    PROVE  /\ rows' \in Seq(RowType)
           /\ \A r \in 1 .. Len(rows') : RowOK(rows'[r])
           /\ \A r, s \in 1 .. Len(rows') : rows'[r].client_id = rows'[s].client_id => r = s
           /\ \A r \in 1 .. Len(rows) :
                 r \in 1 .. Len(rows') /\ rows'[r].client_id = rows[r].client_id
  <1>1. /\ rows \in Seq(RowType) /\ Len(rows) \in Nat
        /\ \A r \in 1 .. Len(rows) : RowOK(rows[r])
        /\ \A r, s \in 1 .. Len(rows) : rows[r].client_id = rows[s].client_id => r = s
    BY DEF Inv
  <1>2. CASE RowOf(row.client_id) = {}
    <2>1. rows' = Append(rows, row)
      BY <1>2 DEF Stored
    <2>2. \A r \in 1 .. Len(rows) : rows[r].client_id # row.client_id
      BY <1>2 DEF RowOf
    <2>3. /\ rows' \in Seq(RowType) /\ Len(rows') = Len(rows) + 1
          /\ \A r \in 1 .. Len(rows) : rows'[r] = rows[r]
          /\ rows'[Len(rows) + 1] = row
      BY <1>1, <2>1
    <2>4. \A r \in 1 .. Len(rows') : r \in 1 .. Len(rows) \/ r = Len(rows) + 1
      BY <1>1, <2>3
    <2> QED
      BY <1>1, <2>2, <2>3, <2>4
  <1>3. CASE RowOf(row.client_id) # {}
    <2>1. PICK k : k = CHOOSE r \in RowOf(row.client_id) : TRUE
      OBVIOUS
    <2>2. k \in 1 .. Len(rows) /\ rows[k].client_id = row.client_id
      BY <1>3, <2>1 DEF RowOf
    <2>3. rows' = [rows EXCEPT ![k] = row]
      BY <1>3, <2>1 DEF Stored
    <2>4. /\ rows' \in Seq(RowType) /\ Len(rows') = Len(rows) /\ rows'[k] = row
          /\ \A r \in 1 .. Len(rows) : r # k => rows'[r] = rows[r]
      BY <1>1, <2>2, <2>3
    <2>5. \A r \in 1 .. Len(rows) : rows'[r].client_id = rows[r].client_id
      BY <2>2, <2>4
    <2> QED
      BY <1>1, <2>4, <2>5
  <1> QED
    BY <1>2, <1>3

LEMMA InitInv == Init => Inv
  <1> SUFFICES ASSUME Init PROVE Inv
    OBVIOUS
  <1>1. reports \in 0 .. MaxReports
    BY SizesAssumption DEF Init
  <1>2. rows \in Seq(RowType) /\ Len(rows) = 0
    BY DEF Init
  <1>3. WireOK
    BY DEF Init, WireOK
  <1> QED
    BY <1>1, <1>2, <1>3 DEF Init, Inv

LEMMA CollectInv ==
    ASSUME Inv, NEW i \in {1, 2}, Collect(i)
    PROVE  Inv' /\ UNCHANGED rows
  <1>1. /\ reports' = reports + 1 /\ reports < MaxReports
        /\ UNCHANGED <<machines, rows>>
        /\ wire' = Whole(i) \/ (machines[i].client = "C" /\ wire' = Braces(i))
    BY DEF Collect
  <1>2. reports \in 0 .. MaxReports /\ machines \in Machines \X Machines
    BY DEF Inv
  <1>3. reports' \in 0 .. MaxReports
    BY <1>1, <1>2, SizesAssumption
  <1>4. ASSUME NEW w, w = wire' PROVE WireOK'
    <2> DEFINE m == machines[i]
               Is(x) == /\ x.from = i /\ x.time \in Nat /\ x.whole \in BOOLEAN
                        /\ x.client_id = Field(m, Told(x).client_id, ID_SIZE)
                        /\ x.hostname = Field(m, Told(x).hostname, HOSTNAME_SIZE)
                        /\ Address(x.networks) = Told(x).ip
                        /\ IF x.whole
                           THEN x.networks = Networks(m) /\ x.local = x.time + m.offset
                           ELSE m.client = "C" /\ x.networks = <<>>
    <2>1. /\ machines'[i] = m /\ (\A row : Told(row)' = Told(row))
          /\ reports \in Nat /\ i \in {1, 2}
      BY <1>1, <1>2 DEF Told
    <2>2. ASSUME w = Whole(i) PROVE Is(w)
      <3>1. /\ w.from = i /\ w.time = reports /\ w.whole = TRUE
            /\ w.client_id = Field(m, m.id, ID_SIZE)
            /\ w.hostname = Field(m, Hostname(m), HOSTNAME_SIZE)
            /\ w.networks = Networks(m) /\ w.local = reports + m.offset
        BY <2>2 DEF Whole
      <3>2. Told(w) = [client_id |-> m.id, hostname |-> Hostname(m),
                       ip |-> Address(Networks(m))]
        BY <3>1 DEF Told
      <3>3. /\ w.client_id = Field(m, Told(w).client_id, ID_SIZE)
            /\ w.hostname = Field(m, Told(w).hostname, HOSTNAME_SIZE)
            /\ Address(w.networks) = Told(w).ip
        BY <3>1, <3>2
      <3> HIDE DEF m
      <3> QED
        BY <2>1, <3>1, <3>3
    <2>3. ASSUME m.client = "C" /\ w = Braces(i) PROVE Is(w)
      <3>1. /\ w.from = i /\ w.time = reports /\ w.whole = FALSE
            /\ w.client_id = Blank /\ w.hostname = Blank /\ w.networks = <<>>
        BY <2>3 DEF Braces
      <3>2. Told(w) = [client_id |-> Blank, hostname |-> Blank, ip |-> Blank]
        BY <3>1 DEF Told
      <3>3. Field(m, Blank, ID_SIZE) = Blank /\ Field(m, Blank, HOSTNAME_SIZE) = Blank
        BY <2>3, BlankField, SizesAssumption
      <3>4. Address(w.networks) = Blank
        BY <3>1 DEF Address
      <3>5. /\ w.client_id = Field(m, Told(w).client_id, ID_SIZE)
            /\ w.hostname = Field(m, Told(w).hostname, HOSTNAME_SIZE)
            /\ Address(w.networks) = Told(w).ip
        BY <3>1, <3>2, <3>3, <3>4
      <3> HIDE DEF m
      <3> QED
        BY <2>1, <2>3, <3>1, <3>5
    <2>4. Is(w)
      BY <1>1, <1>4, <2>2, <2>3
    <2> HIDE DEF m
    <2> QED
      BY <1>4, <2>1, <2>4, Zenon DEF WireOK
  <1>5. (\A r \in 1 .. Len(rows) : RowOK(rows[r]))'
    BY <1>1 DEF Inv, RowOK, Told
  <1> QED
    BY <1>1, <1>2, <1>3, <1>4, <1>5 DEF Inv

LEMMA ReceivedRow ==
    ASSUME Inv, wire # NoReport, Parses(wire),
           NEW id \in Copies(get_quoted_string(wire.client_id), ID_SIZE),
           NEW hostname \in Copies(get_quoted_string(wire.hostname), HOSTNAME_SIZE),
           NEW ip \in Copies(Address(wire.networks), IPV4_SIZE)
    PROVE  Row(id, hostname, ip, wire) \in RowType /\ RowOK(Row(id, hostname, ip, wire))
  <1> DEFINE m == machines[wire.from]
             t == Told(wire)
             row == Row(id, hostname, ip, wire)
  <1>1. /\ wire.from \in {1, 2} /\ wire.time \in Nat /\ wire.whole \in BOOLEAN
        /\ wire.client_id = Field(m, t.client_id, ID_SIZE)
        /\ wire.hostname = Field(m, t.hostname, HOSTNAME_SIZE)
        /\ Address(wire.networks) = t.ip
        /\ IF wire.whole THEN wire.local = wire.time + m.offset ELSE m.client = "C"
    BY DEF Inv, WireOK
  <1>2. /\ t.client_id \in Seq(Characters) /\ t.hostname \in Seq(Characters)
        /\ t.ip \in Seq(Characters) /\ m.offset \in Int
    <2>1. machines \in Machines \X Machines
      BY DEF Inv
    <2> QED
      BY <1>1, <2>1, ToldType
  <1>3. \A size \in Nat \ {0}, s \in Seq(Characters) :
           get_quoted_string(Field(m, s, size)) # Broken =>
              /\ get_quoted_string(Field(m, s, size)) = Kept(m, s, size)
              /\ Kept(m, s, size) \in Seq(Characters)
    BY FieldIsRead
  <1>4. /\ row.from = wire.from /\ row.whole = wire.whole /\ row.time = wire.time
        /\ row.client_id = id /\ row.hostname = hostname /\ row.ip = ip
        /\ row.timestamp = IF wire.whole THEN wire.local - ServerOffset ELSE 0
        /\ row = [from |-> row.from, whole |-> row.whole, time |-> row.time,
                  client_id |-> id, hostname |-> hostname, ip |-> ip,
                  timestamp |-> row.timestamp]
    BY DEF Row
  <1>5. Told(row) = t
    BY <1>4 DEF Told
  <1>6. machines[row.from] = m
    BY <1>4
  <1> HIDE DEF m, t, row
  <1>7. /\ ID_SIZE \in Nat \ {0} /\ HOSTNAME_SIZE \in Nat \ {0} /\ IPV4_SIZE \in Nat \ {0}
        /\ ServerOffset \in Int
    BY SizesAssumption
  <1>8. id \in Copies(Kept(m, t.client_id, ID_SIZE), ID_SIZE) /\ id \in Seq(Stacked)
    <2>1. get_quoted_string(wire.client_id) # Broken
      BY DEF Parses
    <2>2. get_quoted_string(wire.client_id) = Kept(m, t.client_id, ID_SIZE)
          /\ Kept(m, t.client_id, ID_SIZE) \in Seq(Characters)
      BY <1>1, <1>2, <1>3, <1>7, <2>1
    <2> QED
      BY <1>7, <2>2, CopyType
  <1>9. hostname \in Copies(Kept(m, t.hostname, HOSTNAME_SIZE), HOSTNAME_SIZE)
        /\ hostname \in Seq(Stacked)
    <2>1. get_quoted_string(wire.hostname) # Broken
      BY DEF Parses
    <2>2. get_quoted_string(wire.hostname) = Kept(m, t.hostname, HOSTNAME_SIZE)
          /\ Kept(m, t.hostname, HOSTNAME_SIZE) \in Seq(Characters)
      BY <1>1, <1>2, <1>3, <1>7, <2>1
    <2> QED
      BY <1>7, <2>2, CopyType
  <1>10. ip \in Copies(t.ip, IPV4_SIZE) /\ ip \in Seq(Stacked)
    BY <1>1, <1>2, <1>7, CopyType
  <1>11. /\ row.timestamp \in Int
         /\ IF wire.whole THEN row.timestamp = wire.time + m.offset - ServerOffset
                          ELSE row.timestamp = 0
    <2>1. CASE wire.whole
      <3>1. row.timestamp = wire.local - ServerOffset /\ wire.local = wire.time + m.offset
        BY <1>1, <1>4, <2>1
      <3> QED
        BY <1>1, <1>2, <1>7, <2>1, <3>1
    <2>2. CASE ~wire.whole
      BY <1>4, <2>2
    <2> QED
      BY <2>1, <2>2
  <1>12. RowOK(row)
    BY <1>1, <1>4, <1>5, <1>6, <1>8, <1>9, <1>10, <1>11 DEF RowOK
  <1>13. row \in RowType
    BY <1>1, <1>4, <1>8, <1>9, <1>10, <1>11 DEF RowType
  <1> QED
    BY <1>12, <1>13 DEF row

LEMMA ReceiveInv ==
    ASSUME Inv, Receive
    PROVE  /\ Inv' /\ UNCHANGED machines
           /\ \A r \in 1 .. Len(rows) :
                 r \in 1 .. Len(rows') /\ rows'[r].client_id = rows[r].client_id
  <1>1. wire # NoReport /\ wire' = NoReport /\ UNCHANGED <<machines, reports>>
    BY DEF Receive
  <1>2. WireOK'
    BY <1>1 DEF WireOK
  <1>3. /\ rows' \in Seq(RowType)
        /\ \A r \in 1 .. Len(rows') : RowOK(rows'[r])
        /\ \A r, s \in 1 .. Len(rows') : rows'[r].client_id = rows'[s].client_id => r = s
        /\ \A r \in 1 .. Len(rows) :
              r \in 1 .. Len(rows') /\ rows'[r].client_id = rows[r].client_id
    <2>1. CASE Parses(wire)
      <3>1. PICK id \in Copies(get_quoted_string(wire.client_id), ID_SIZE),
                 hostname \in Copies(get_quoted_string(wire.hostname), HOSTNAME_SIZE),
                 ip \in Copies(Address(wire.networks), IPV4_SIZE) :
                    Stored(Row(id, hostname, ip, wire))
        BY <2>1 DEF Receive
      <3>2. Row(id, hostname, ip, wire) \in RowType /\ RowOK(Row(id, hostname, ip, wire))
        BY <1>1, <2>1, ReceivedRow
      <3> QED
        BY <3>1, <3>2, StoredKeeps
    <2>2. CASE ~Parses(wire)
      <3>1. UNCHANGED rows
        BY <2>2 DEF Receive
      <3> QED
        BY <3>1 DEF Inv
    <2> QED
      BY <2>1, <2>2
  <1>4. (\A r \in 1 .. Len(rows) : RowOK(rows[r]))'
    BY <1>1, <1>3 DEF RowOK, Told
  <1> QED
    BY <1>1, <1>2, <1>3, <1>4 DEF Inv

LEMMA NextInv ==
    ASSUME Inv, [Next]_vars
    PROVE  /\ Inv' /\ UNCHANGED machines
           /\ \A r \in 1 .. Len(rows) :
                 r \in 1 .. Len(rows') /\ rows'[r].client_id = rows[r].client_id
  <1>1. ASSUME NEW i \in {1, 2}, Collect(i)
        PROVE  /\ Inv' /\ UNCHANGED <<machines, rows>>
    BY <1>1, CollectInv DEF Collect
  <1>2. CASE Receive
    BY <1>2, ReceiveInv
  <1>3. CASE UNCHANGED vars
    BY <1>3 DEF vars, Inv, WireOK, RowOK, Told
  <1> QED
    BY <1>1, <1>2, <1>3 DEF Next

(***************************************************************************)
(* What is under way is a report that its machine's client collected, and  *)
(* each row of the table holds copies of the texts of the machine it is    *)
(* from, no two rows for one identifier (json_parse_string to the table,   *)
(* handle_client 695-758).                                                 *)
(***************************************************************************)
THEOREM InvCorrect == Spec => []Inv
  <1>1. Inv /\ [Next]_vars => Inv'
    BY NextInv
  <1> QED
    BY InitInv, <1>1, PTL DEF Spec

-----------------------------------------------------------------------------
(***************************************************************************)
(* What is stored of a text: the text itself, if it leaves room for its    *)
(* terminator, else its beginning.                                         *)
(***************************************************************************)
LEMMA RowTexts ==
    ASSUME Inv, NEW r \in 1 .. Len(rows)
    PROVE  LET t == Told(rows[r]) IN
           /\ t.client_id \in Seq(Characters) /\ t.hostname \in Seq(Characters)
           /\ t.ip \in Seq(Characters)
           /\ Keeps(rows[r].client_id, t.client_id, ID_SIZE)
           /\ Keeps(rows[r].hostname, t.hostname, HOSTNAME_SIZE)
           /\ Keeps(rows[r].ip, t.ip, IPV4_SIZE)
           /\ Len(rows[r].client_id) <= ID_SIZE
           /\ Len(rows[r].hostname) <= HOSTNAME_SIZE
           /\ Len(rows[r].ip) <= IPV4_SIZE
  <1> DEFINE row == rows[r]
             t == Told(row)
             m == machines[row.from]
  <1>1. row \in RowType /\ RowOK(row)
    BY DEF Inv
  <1>2. row.from \in {1, 2} /\ row.whole \in BOOLEAN /\ machines \in Machines \X Machines
    BY <1>1 DEF RowType, Inv
  <1>3. /\ t.client_id \in Seq(Characters) /\ t.hostname \in Seq(Characters)
        /\ t.ip \in Seq(Characters)
    BY <1>2, ToldType
  <1>4. \A s, size : Kept(m, s, size) = s \/ Kept(m, s, size) = Cut(s, size)
    BY DEF Kept
  <1>5. /\ row.client_id \in Copies(Kept(m, t.client_id, ID_SIZE), ID_SIZE)
        /\ row.hostname \in Copies(Kept(m, t.hostname, HOSTNAME_SIZE), HOSTNAME_SIZE)
        /\ row.ip \in Copies(t.ip, IPV4_SIZE)
    BY <1>1 DEF RowOK
  <1> HIDE DEF m, t, row
  <1>6. Keeps(row.client_id, t.client_id, ID_SIZE) /\ Len(row.client_id) <= ID_SIZE
    BY <1>3, <1>4, <1>5, SizesAssumption, CopyKeeps
  <1>7. Keeps(row.hostname, t.hostname, HOSTNAME_SIZE) /\ Len(row.hostname) <= HOSTNAME_SIZE
    BY <1>3, <1>4, <1>5, SizesAssumption, CopyKeeps
  <1>8. Keeps(row.ip, t.ip, IPV4_SIZE) /\ Len(row.ip) <= IPV4_SIZE
    BY <1>3, <1>5, SizesAssumption, CopyKeeps
  <1> QED
    BY <1>3, <1>6, <1>7, <1>8 DEF t, row

(***************************************************************************)
(* The machine's own host name, and the time.                              *)
(***************************************************************************)
LEMMA RowOrigin ==
    ASSUME Inv, NEW r \in 1 .. Len(rows)
    PROVE  LET m == machines[rows[r].from] IN
           IF rows[r].whole
           THEN /\ m.client = "C" \/ ("uname" \in m.commands /\ OneWord(m.hostname)) =>
                      Keeps(rows[r].hostname, m.hostname, HOSTNAME_SIZE)
                /\ m.offset = ServerOffset <=> rows[r].timestamp = rows[r].time
           ELSE m.client = "C" /\ rows[r].timestamp = 0
  <1> DEFINE row == rows[r]
             m == machines[row.from]
  <1>1. row \in RowType /\ RowOK(row)
    BY DEF Inv
  <1>2. row.from \in {1, 2} /\ machines \in Machines \X Machines /\ row.time \in Nat
    BY <1>1 DEF RowType, Inv
  <1>3. m \in Machines /\ m.offset \in Int /\ ServerOffset \in Int
    BY <1>2, MachineType, SizesAssumption
  <1>4. Keeps(row.hostname, Told(row).hostname, HOSTNAME_SIZE)
    BY RowTexts
  <1>5. row.whole => Told(row).hostname = Hostname(m)
    BY DEF Told
  <1>6. IF row.whole THEN row.timestamp = row.time + m.offset - ServerOffset
                     ELSE m.client = "C" /\ row.timestamp = 0
    BY <1>1 DEF RowOK
  <1> HIDE DEF row, m
  <1>7. row.whole => (m.offset = ServerOffset <=> row.timestamp = row.time)
    <2>1. m.offset = ServerOffset <=> row.time + m.offset - ServerOffset = row.time
      BY <1>2, <1>3
    <2> QED
      BY <1>6, <2>1
  <1>8. m.client = "C" \/ ("uname" \in m.commands /\ OneWord(m.hostname)) =>
           Hostname(m) = m.hostname
    BY <1>3, HostnameIs
  <1> QED
    BY <1>4, <1>5, <1>6, <1>7, <1>8 DEF row, m

LEMMA InvArrives == Inv => ArrivesAsCollected
  <1> SUFFICES ASSUME Inv PROVE ArrivesAsCollected
    OBVIOUS
  <1> DEFINE m == machines[wire.from]
             t == Told(wire)
  <1>1. wire # NoReport =>
           /\ m \in Machines /\ wire.whole \in BOOLEAN
           /\ t.client_id \in Seq(Characters) /\ t.hostname \in Seq(Characters)
           /\ wire.client_id = Field(m, t.client_id, ID_SIZE)
           /\ wire.hostname = Field(m, t.hostname, HOSTNAME_SIZE)
           /\ IF wire.whole THEN wire.networks = Networks(m) ELSE wire.networks = <<>>
    <2>1. machines \in Machines \X Machines
      BY DEF Inv
    <2> QED
      BY <2>1, ToldType DEF Inv, WireOK
  <1>2. TypeOK
    <2>1. ASSUME wire # NoReport, m.client = "C" PROVE Len(wire.networks) <= MAX_NETWORKS
      <3>1. CASE wire.whole
        BY <1>1, <2>1, <3>1, NetworksType
      <3>2. CASE ~wire.whole
        <4>1. Len(wire.networks) = 0
          BY <1>1, <2>1, <3>2
        <4> QED
          BY <4>1, NetworksAssumption
      <3> QED
        BY <3>1, <3>2
    <2> QED
      BY <2>1, RowTexts DEF TypeOK, Inv
  <1>3. ASSUME wire # NoReport, ~Parses(wire)
        PROVE  m.client = "C" /\ wire.whole /\ (HasControl(m.id) \/ HasControl(m.hostname))
    <2>1. ASSUME NEW s \in Seq(Characters), NEW size \in Nat \ {0},
                 get_quoted_string(Field(m, s, size)) = Broken
          PROVE  m.client = "C" /\ HasControl(s)
      BY <2>1, FieldIsRead
    <2>2. \/ get_quoted_string(Field(m, t.client_id, ID_SIZE)) = Broken
          \/ get_quoted_string(Field(m, t.hostname, HOSTNAME_SIZE)) = Broken
      BY <1>1, <1>3 DEF Parses
    <2>3. m.client = "C" /\ (HasControl(t.client_id) \/ HasControl(t.hostname))
      BY <1>1, <1>3, <2>1, <2>2, SizesAssumption
    <2>4. wire.whole
      <3>1. ~HasControl(Blank)
        BY DEF HasControl, Blank
      <3> QED
        BY <1>1, <1>3, <2>3, <3>1 DEF Told
    <2>5. t.client_id = m.id /\ t.hostname = m.hostname
      BY <2>3, <2>4 DEF Told, Hostname
    <2> QED
      BY <2>3, <2>4, <2>5
  <1> QED
    BY <1>2, <1>3, RowTexts, RowOrigin DEF ArrivesAsCollected

(***************************************************************************)
(* A report's texts arrive (ArrivesAsCollected).                           *)
(***************************************************************************)
THEOREM ArrivesCorrect == Spec => []ArrivesAsCollected
  BY InvCorrect, InvArrives, PTL

LEMMA FittingId ==
    ASSUME Inv, NEW r \in 1 .. Len(rows), Fits(Told(rows[r]).client_id)
    PROVE  rows[r].client_id = Told(rows[r]).client_id
  BY RowTexts DEF Fits, Keeps

LEMMA FittingIds ==
    Inv => \A r \in 1 .. Len(rows) :
             Fits(Told(rows[r]).client_id) => rows[r].client_id = Told(rows[r]).client_id
  BY FittingId

LEMMA InvRows == Inv => RowsAreClients
  <1> SUFFICES ASSUME Inv PROVE RowsAreClients
    OBVIOUS
  <1>1. SUFFICES ASSUME NEW r \in 1 .. Len(rows), NEW s \in 1 .. Len(rows),
                        Fits(Told(rows[r]).client_id), Fits(Told(rows[s]).client_id)
                 PROVE  r = s <=> Told(rows[r]).client_id = Told(rows[s]).client_id
    BY DEF RowsAreClients
  <1>2. /\ rows[r].client_id = Told(rows[r]).client_id
        /\ rows[s].client_id = Told(rows[s]).client_id
    BY <1>1, FittingId
  <1> QED
    BY <1>2 DEF Inv

(***************************************************************************)
(* A client has one row, and another client another one (RowsAreClients).  *)
(***************************************************************************)
THEOREM RowsCorrect == Spec => []RowsAreClients
  BY InvCorrect, InvRows, PTL

(***************************************************************************)
(* No report takes over the row of another client (RowsStay).              *)
(***************************************************************************)
THEOREM RowsStayCorrect == Spec => RowsStay
  <1> DEFINE A == \A r \in 1 .. Len(rows) :
                    LET id == Told(rows[r]).client_id
                        next == Told(rows'[r]).client_id
                    IN  Fits(id) /\ Fits(next) => id = next
  <1>1. ASSUME Inv, [Next]_vars PROVE A
    <2>1. /\ Inv' /\ machines' = machines
          /\ \A r \in 1 .. Len(rows) :
                r \in 1 .. Len(rows') /\ rows'[r].client_id = rows[r].client_id
      BY <1>1, NextInv
    <2>2. (\A r \in 1 .. Len(rows) :
             Fits(Told(rows[r]).client_id) =>
                rows[r].client_id = Told(rows[r]).client_id)'
      BY <2>1, FittingIds, PTL
    <2>3. \A r \in 1 .. Len(rows') :
             Fits(Told(rows'[r]).client_id) =>
                rows'[r].client_id = Told(rows'[r]).client_id
      BY <2>1, <2>2 DEF Told
    <2>4. \A r \in 1 .. Len(rows) :
             Fits(Told(rows[r]).client_id) =>
                rows[r].client_id = Told(rows[r]).client_id
      BY <1>1, FittingId
    <2> QED
      BY <2>1, <2>3, <2>4
  <1>2. Inv /\ [Next]_vars => [A]_vars
    BY <1>1
  <1> QED
    BY InvCorrect, <1>2, PTL DEF Spec, RowsStay

LEMMA InvReadable == Inv => DataIsReadable
  <1> SUFFICES ASSUME Inv,
                      \A r \in 1 .. Len(rows) :
                         /\ Ordinary(Told(rows[r]).client_id, ID_SIZE)
                         /\ Ordinary(Told(rows[r]).hostname, HOSTNAME_SIZE)
                         /\ Ordinary(Told(rows[r]).ip, IPV4_SIZE),
                      NEW r \in 1 .. Len(rows)
               PROVE  Shown(rows[r]) = Told(rows[r])
    BY DEF DataIsReadable
  <1> DEFINE t == Told(rows[r])
  <1>1. /\ Ordinary(t.client_id, ID_SIZE) /\ Ordinary(t.hostname, HOSTNAME_SIZE)
        /\ Ordinary(t.ip, IPV4_SIZE)
    OBVIOUS
  <1>2. /\ t.client_id \in Seq(Characters) /\ t.hostname \in Seq(Characters)
        /\ t.ip \in Seq(Characters)
        /\ Keeps(rows[r].client_id, t.client_id, ID_SIZE)
        /\ Keeps(rows[r].hostname, t.hostname, HOSTNAME_SIZE)
        /\ Keeps(rows[r].ip, t.ip, IPV4_SIZE)
    BY RowTexts
  <1>3. t = [client_id |-> t.client_id, hostname |-> t.hostname, ip |-> t.ip]
    BY DEF Told
  <1> HIDE DEF t
  <1>4. /\ rows[r].client_id = t.client_id /\ rows[r].hostname = t.hostname
        /\ rows[r].ip = t.ip
    BY <1>1, <1>2 DEF Ordinary, Keeps
  <1>5. /\ get_quoted_string(t.client_id) = t.client_id
        /\ get_quoted_string(t.hostname) = t.hostname /\ get_quoted_string(t.ip) = t.ip
    BY <1>1, <1>2, PlainIsRead DEF Ordinary
  <1> QED
    BY <1>3, <1>4, <1>5 DEF t, Shown

(***************************************************************************)
(* Ordinary texts can be read from /data (DataIsReadable).                 *)
(***************************************************************************)
THEOREM ReadableCorrect == Spec => []DataIsReadable
  BY InvCorrect, InvReadable, PTL

LEMMA InvNetworks == Inv => NetworksAreMap
  <1> SUFFICES ASSUME Inv, wire # NoReport, machines[wire.from].client = "C"
               PROVE  LET m == machines[wire.from]
                      IN  /\ \A i, j \in 1 .. Len(wire.networks) :
                               wire.networks[i].name = wire.networks[j].name => i = j
                          /\ \A i \in 1 .. Len(wire.networks), k \in 1 .. Len(m.links) :
                               LET n == wire.networks[i]
                                   l == m.links[k]
                               IN  n.name = l.name =>
                                     /\ n.ipv4 \in Range(l.ipv4) \union {Blank}
                                     /\ n.ipv4 = Blank /\ l.ipv4 # <<>> =>
                                           Len(wire.networks) = MAX_NETWORKS
    BY DEF NetworksAreMap
  <1>1. \/ wire.networks = get_network_info(machines[wire.from].links)
        \/ wire.networks = <<>>
    BY DEF Inv, WireOK, Networks
  <1>2. machines[wire.from] \in Machines
    <2>1. wire.from \in {1, 2} /\ machines \in Machines \X Machines
      BY DEF Inv, WireOK
    <2> QED
      BY <2>1
  <1> DEFINE links == machines[wire.from].links
             z == wire.networks
  <1>3. links \in Seq(LinkType)
        /\ \A i, j \in 1 .. Len(links) : links[i].name = links[j].name => i = j
    BY <1>2, MachinesAssumption
  <1>4. z = get_network_info(links) \/ z = <<>>
    BY <1>1
  <1> HIDE DEF links, z
  <1> DEFINE Is(nets) ==
               /\ \A i, j \in 1 .. Len(nets) : nets[i].name = nets[j].name => i = j
               /\ \A i \in 1 .. Len(nets), k \in 1 .. Len(links) :
                    nets[i].name = links[k].name =>
                      /\ nets[i].ipv4 \in Range(links[k].ipv4) \union {Blank}
                      /\ nets[i].ipv4 = Blank /\ links[k].ipv4 # <<>> =>
                            Len(nets) = MAX_NETWORKS
  <1>5. Is(get_network_info(links))
    BY <1>3, NetworksAreMapOf
  <1>6. Is(<<>>)
    OBVIOUS
  <1>7. Is(z)
    BY <1>4, <1>5, <1>6
  <1> QED
    BY <1>7 DEF links, z

(***************************************************************************)
(* The C client's list of interfaces is complete (NetworksAreMap).         *)
(***************************************************************************)
THEOREM NetworksCorrect == Spec => []NetworksAreMap
  BY InvCorrect, InvNetworks, PTL

-----------------------------------------------------------------------------
(***************************************************************************)
(* Both clients, on one machine.  While the hardware addresses are listed, *)
(* the C client's list is the Go client's without its other addresses.     *)
(***************************************************************************)
NetworkOf(l) == [name |-> l.name, mac |-> FirstOf(l.mac),
                 ipv4 |-> FirstOf(l.ipv4), ipv6 |-> FirstOf(l.ipv6)]
Bare(n) == [name |-> n.name, mac |-> n.mac, ipv4 |-> Blank, ipv6 |-> Blank]

UniqueNames(links) ==
    \A i, j \in 1 .. Len(links) : links[i].name = links[j].name => i = j

SameSkipped(links) ==
    \A k \in 1 .. Len(links) :
       /\ links[k].name \in SkippedByC <=> links[k].name \in SkippedByGo
       /\ links[k].mac[1] \in Addresses

Lists(h, links, n) ==
    /\ Len(h) <= n
    /\ \A i \in 1 .. Len(h) : \E k \in 1 .. n :
          links[k].name \notin SkippedByC /\ h[i] = NetworkOf(links[k])
    /\ \A k \in 1 .. n : links[k].name \notin SkippedByC =>
          \E i \in 1 .. Len(h) : h[i] = NetworkOf(links[k])
    /\ OneEach(h)

IsBare(d, h) ==
    Len(d) = Len(h) /\ \A i \in 1 .. Len(h) : d[i] = Bare(h[i])

LEMMA MacOf ==
    ASSUME NEW l \in LinkType, l.mac[1] \in Addresses
    PROVE  FirstOf(l.mac) = l.mac[1]
  <1>1. l.mac \in [1 .. 1 -> Addresses \union NotSix]
    BY DEF LinkType
  <1>2. l.mac = <<l.mac[1]>> /\ l.mac # <<>>
    BY <1>1
  <1> QED
    BY <1>2, AddressIsNot DEF FirstOf

LEMMA BareStep ==
    ASSUME NEW links \in Seq(LinkType), UniqueNames(links), SameSkipped(links),
           NEW n \in 1 .. Len(links), Len(links) < MAX_NETWORKS,
           links[n].label = links[n].name,
           NEW d \in Seq(NetworkType), NEW h \in Seq(NetworkType),
           Lists(h, links, n - 1), IsBare(d, h)
    PROVE  LET e == Entry(links[n], "mac", 1)
           IN  /\ Lists(Noted(h, links[n]), links, n)
               /\ IsBare(Listed(d, e), Noted(h, links[n]))
  <1> DEFINE l == links[n]
             e == Entry(l, "mac", 1)
  <1>1. l \in LinkType /\ l.name \in STRING
    <2>1. l \in LinkType
      OBVIOUS
    <2> QED
      BY <2>1 DEF LinkType
  <1>2. l.mac[1] \in Addresses /\ FirstOf(l.mac) = l.mac[1]
    BY <1>1, MacOf DEF SameSkipped
  <1>3. e \in EntryType /\ e.name = l.name /\ e.field = "mac" /\ e.addr = l.mac[1]
    BY <1>1, <1>2 DEF Entry, EntryType, Fields
  <1>4. /\ Len(d) \in Nat /\ Len(h) \in Nat /\ MAX_NETWORKS \in Nat /\ Len(links) \in Nat
        /\ Len(d) = Len(h) /\ Len(h) < MAX_NETWORKS /\ Len(h) <= n - 1
    BY NetworksAssumption DEF Lists, IsBare
  <1>5. l.name \in SkippedByC <=> l.name \in SkippedByGo
    BY DEF SameSkipped
  <1>6. l = links[n] /\ l.label = l.name
    OBVIOUS
  <1> HIDE DEF e, l
  <1>7. CASE l.name \in SkippedByC
    <2>1. Listed(d, e) = d /\ Noted(h, l) = h
      BY <1>3, <1>5, <1>7 DEF Listed, Noted
    <2>2. \A k \in 1 .. n : k \in 1 .. n - 1 \/ k = n
      OBVIOUS
    <2>3. \A k \in 1 .. n - 1 : k \in 1 .. n
      OBVIOUS
    <2>4. Lists(h, links, n)
      <3>1. Len(h) <= n
        BY <1>4
      <3>2. \A i \in 1 .. Len(h) : \E k \in 1 .. n :
               links[k].name \notin SkippedByC /\ h[i] = NetworkOf(links[k])
        BY <2>3, Zenon DEF Lists
      <3>3. \A k \in 1 .. n : links[k].name \notin SkippedByC =>
               \E i \in 1 .. Len(h) : h[i] = NetworkOf(links[k])
        BY <1>6, <1>7, <2>2, Zenon DEF Lists
      <3> QED
        BY <3>1, <3>2, <3>3 DEF Lists
    <2> QED
      BY <2>1, <2>4 DEF e, l
  <1>8. CASE l.name \notin SkippedByC
    <2> DEFINE z == Append(h, NetworkOf(l))
    <2>1. Noted(h, l) = z
      BY <1>5, <1>6, <1>8 DEF Noted, NetworkOf
    <2>2. \A i \in 1 .. Len(h) : h[i].name # l.name
      <3>1. ASSUME NEW i \in 1 .. Len(h) PROVE h[i].name # l.name
        <4>1. PICK k \in 1 .. n - 1 : h[i] = NetworkOf(links[k])
          BY DEF Lists
        <4>2. h[i].name = links[k].name /\ k \in 1 .. Len(links) /\ k # n
          BY <1>4, <4>1 DEF NetworkOf
        <4> QED
          BY <1>6, <4>2 DEF UniqueNames
      <3> QED
        BY <3>1
    <2>3. \A i \in 1 .. Len(d) : d[i].name # l.name
      <3>1. ASSUME NEW i \in 1 .. Len(d) PROVE d[i].name # l.name
        <4>1. i \in 1 .. Len(h) /\ d[i] = Bare(h[i])
          BY <1>4 DEF IsBare
        <4>2. d[i].name = h[i].name
          BY <4>1 DEF Bare
        <4> QED
          BY <2>2, <4>1, <4>2
      <3> QED
        BY <3>1
    <2>4. Listed(d, e) = Append(d, Put(NewNetwork(l.name), "mac", l.mac[1]))
      <3>1. Named(d, l.name) = {}
        BY <2>3 DEF Named
      <3> QED
        BY <1>2, <1>3, <1>4, <1>8, <3>1, AddressIsNot DEF Listed, Put
    <2>5. Put(NewNetwork(l.name), "mac", l.mac[1]) = Bare(NetworkOf(l))
      BY <1>2 DEF Put, NewNetwork, Bare, NetworkOf
    <2>6. /\ Len(z) = Len(h) + 1 /\ z[Len(h) + 1] = NetworkOf(l)
          /\ \A i \in 1 .. Len(h) : z[i] = h[i]
          /\ \A i \in 1 .. Len(z) : i \in 1 .. Len(h) \/ i = Len(h) + 1
      BY <1>4
    <2> DEFINE y == Append(d, Bare(NetworkOf(l)))
    <2>7. /\ Len(y) = Len(d) + 1 /\ y[Len(d) + 1] = Bare(NetworkOf(l))
          /\ \A i \in 1 .. Len(d) : y[i] = d[i]
      BY <1>4
    <2>8. Listed(d, e) = y
      BY <2>4, <2>5
    <2> HIDE DEF z, y
    <2>9. IsBare(y, z)
      BY <1>4, <2>6, <2>7 DEF IsBare
    <2>10. NetworkOf(l).name = l.name
      BY DEF NetworkOf
    <2>11. OneEach(z)
      <3>1. ASSUME NEW i \in 1 .. Len(z), NEW j \in 1 .. Len(z), z[i].name = z[j].name
            PROVE  i = j
        <4>1. (i \in 1 .. Len(h) \/ i = Len(h) + 1) /\ (j \in 1 .. Len(h) \/ j = Len(h) + 1)
          BY <2>6
        <4>2. CASE i \in 1 .. Len(h) /\ j \in 1 .. Len(h)
          <5>1. z[i] = h[i] /\ z[j] = h[j] /\ OneEach(h)
            BY <2>6, <4>2 DEF Lists
          <5> QED
            BY <3>1, <4>2, <5>1 DEF OneEach
        <4>3. CASE i \in 1 .. Len(h) /\ j = Len(h) + 1
          BY <2>2, <2>6, <2>10, <3>1, <4>3
        <4>4. CASE i = Len(h) + 1 /\ j \in 1 .. Len(h)
          BY <2>2, <2>6, <2>10, <3>1, <4>4
        <4>5. CASE i = Len(h) + 1 /\ j = Len(h) + 1
          BY <4>5
        <4> QED
          BY <4>1, <4>2, <4>3, <4>4, <4>5
      <3> QED
        BY <3>1 DEF OneEach
    <2>12. \A i \in 1 .. Len(z) : \E k \in 1 .. n :
              links[k].name \notin SkippedByC /\ z[i] = NetworkOf(links[k])
      <3>1. ASSUME NEW i \in 1 .. Len(z)
            PROVE  \E k \in 1 .. n : /\ links[k].name \notin SkippedByC
                                     /\ z[i] = NetworkOf(links[k])
        <4>1. CASE i \in 1 .. Len(h)
          <5>1. PICK k \in 1 .. n - 1 : /\ links[k].name \notin SkippedByC
                                        /\ h[i] = NetworkOf(links[k])
            BY <4>1 DEF Lists
          <5>2. k \in 1 .. n
            OBVIOUS
          <5> QED
            BY <2>6, <4>1, <5>1, <5>2
        <4>2. CASE i = Len(h) + 1
          <5>1. n \in 1 .. n
            OBVIOUS
          <5> QED
            BY <1>6, <1>8, <2>6, <4>2, <5>1
        <4> QED
          BY <2>6, <4>1, <4>2
      <3> QED
        BY <3>1
    <2>13. \A k \in 1 .. n : links[k].name \notin SkippedByC =>
              \E i \in 1 .. Len(z) : z[i] = NetworkOf(links[k])
      <3>1. ASSUME NEW k \in 1 .. n, links[k].name \notin SkippedByC
            PROVE  \E i \in 1 .. Len(z) : z[i] = NetworkOf(links[k])
        <4>1. CASE k = n
          <5>1. Len(h) + 1 \in 1 .. Len(z)
            BY <1>4, <2>6
          <5> QED
            BY <1>6, <2>6, <4>1, <5>1
        <4>2. CASE k # n
          <5>1. k \in 1 .. n - 1
            BY <4>2
          <5>2. PICK i \in 1 .. Len(h) : h[i] = NetworkOf(links[k])
            BY <3>1, <5>1 DEF Lists
          <5>3. i \in 1 .. Len(z) /\ z[i] = NetworkOf(links[k])
            BY <1>4, <2>6, <5>2
          <5> QED
            BY <5>3
        <4> QED
          BY <4>1, <4>2
      <3> QED
        BY <3>1
    <2>14. Len(z) <= n
      BY <1>4, <2>6
    <2>15. Lists(z, links, n)
      BY <2>11, <2>12, <2>13, <2>14 DEF Lists
    <2> QED
      BY <2>1, <2>8, <2>9, <2>15 DEF e, l
  <1> QED
    BY <1>7, <1>8

(***************************************************************************)
(* Then the other addresses are put in.                                    *)
(***************************************************************************)
Others == {"ipv4", "ipv6"}

Fills(d, h) ==
    /\ Len(d) = Len(h)
    /\ \A i \in 1 .. Len(h) :
          /\ d[i].name = h[i].name /\ d[i].mac = h[i].mac
          /\ \A f \in Others : d[i][f] = Blank \/ d[i][f] = h[i][f]

Filled(d, name, f) ==
    name \in SkippedByC \/ \E i \in 1 .. Len(d) : d[i].name = name /\ d[i][f] # Blank

LEMMA PutOther ==
    ASSUME NEW n \in NetworkType, NEW f \in Others, NEW x \in Addresses
    PROVE  LET r == Put(n, f, x)
           IN  /\ r.name = n.name /\ r.mac = n.mac /\ r[f] = x
               /\ \A other \in Others : other # f => r[other] = n[other]
  <1>1. CASE f = "ipv4"
    BY <1>1 DEF NetworkType, Put, Others
  <1>2. CASE f = "ipv6"
    BY <1>2 DEF NetworkType, Put, Others
  <1> QED
    BY <1>1, <1>2 DEF Others

LEMMA OthersOf ==
    ASSUME NEW l \in LinkType, NEW f \in Others
    PROVE  /\ l[f] \in Seq(Addresses) /\ NetworkOf(l)[f] = FirstOf(l[f])
           /\ l[f] # <<>> => FirstOf(l[f]) = l[f][1] /\ l[f][1] \in Addresses
           /\ l[f] = <<>> => FirstOf(l[f]) = Blank
  <1>1. l[f] \in Seq(Addresses) /\ NetworkOf(l)[f] = FirstOf(l[f])
    <2>1. CASE f = "ipv4"
      BY <2>1 DEF LinkType, NetworkOf
    <2>2. CASE f = "ipv6"
      BY <2>2 DEF LinkType, NetworkOf
    <2> QED
      BY <2>1, <2>2 DEF Others
  <1>2. l[f] # <<>> => l[f][1] \in Addresses
    BY <1>1
  <1> QED
    BY <1>1, <1>2, AddressIsNot DEF FirstOf

LEMMA FillStep ==
    ASSUME NEW links \in Seq(LinkType), UniqueNames(links), Len(links) < MAX_NETWORKS,
           NEW h \in Seq(NetworkType), Lists(h, links, Len(links)),
           NEW d \in Seq(NetworkType), Fills(d, h),
           NEW e \in EntryType, NEW k \in 1 .. Len(links), NEW f \in Others,
           e = Entry(links[k], f, 1), links[k][f] # <<>>
    PROVE  LET z == Listed(d, e)
           IN  /\ Fills(z, h) /\ Filled(z, e.name, f)
               /\ \A name, x : x \in Others /\ Filled(d, name, x) => Filled(z, name, x)
  <1> DEFINE l == links[k]
             z == Listed(d, e)
  <1>1. l \in LinkType
    OBVIOUS
  <1>2. /\ e.name = l.name /\ e.field = f /\ e.addr = l[f][1]
        /\ l[f][1] \in Addresses /\ NetworkOf(l)[f] = l[f][1] /\ NetworkOf(l).name = l.name
    BY <1>1, OthersOf DEF Entry, NetworkOf
  <1>3. /\ Len(d) \in Nat /\ Len(h) \in Nat /\ MAX_NETWORKS \in Nat /\ Len(links) \in Nat
        /\ Len(d) = Len(h) /\ Len(d) < MAX_NETWORKS
    BY NetworksAssumption DEF Lists, Fills
  <1>4. e.name \notin SkippedByC =>
           \E i \in 1 .. Len(h) : h[i] = NetworkOf(l) /\ d[i].name = e.name
    BY <1>2 DEF Lists, Fills
  <1>5. ASSUME NEW i \in 1 .. Len(h), h[i].name = e.name, e.name \notin SkippedByC
        PROVE  h[i] = NetworkOf(l)
    <2>1. PICK j \in 1 .. Len(h) : h[j] = NetworkOf(l)
      BY <1>4, <1>5
    <2>2. h[i].name = h[j].name
      BY <1>2, <1>5, <2>1
    <2>3. OneEach(h)
      BY DEF Lists
    <2>4. i = j
      BY <2>2, <2>3 DEF OneEach
    <2> QED
      BY <2>1, <2>4
  <1> HIDE DEF l, z
  <1>6. CASE e.name \in SkippedByC
    <2>1. z = d
      BY <1>6 DEF Listed, z
    <2>2. Filled(z, e.name, f)
      BY <1>6 DEF Filled
    <2> QED
      BY <2>1, <2>2 DEF z
  <1>7. CASE e.name \notin SkippedByC
    <2>1. Updates(z, d, e)
      <3>1. PICK i \in 1 .. Len(d) : d[i].name = e.name
        BY <1>3, <1>4, <1>7
      <3>2. e.addr \notin NotSix
        BY <1>2, AddressIsNot
      <3>3. ~Adds(z, d, e)
        BY <3>1 DEF Adds
      <3> QED
        BY <1>2, <1>3, <1>7, <3>1, <3>2, <3>3, ListedCases DEF z
    <2>2. /\ Len(z) = Len(d)
          /\ \A i \in 1 .. Len(d) :
                z[i] = IF d[i].name = e.name THEN Put(d[i], f, l[f][1]) ELSE d[i]
      BY <1>2, <2>1 DEF Updates
    <2>3. \A i \in 1 .. Len(d) : d[i] \in NetworkType
      OBVIOUS
    <2>4. ASSUME NEW i \in 1 .. Len(d)
          PROVE  /\ z[i].name = d[i].name /\ z[i].mac = d[i].mac
                 /\ d[i].name = e.name => z[i][f] = l[f][1]
                 /\ d[i].name # e.name => z[i] = d[i]
                 /\ \A x \in Others : x # f => z[i][x] = d[i][x]
      <3>1. CASE d[i].name = e.name
        <4>1. z[i] = Put(d[i], f, l[f][1])
          BY <2>2, <3>1
        <4>2. d[i] \in NetworkType
          BY <2>3
        <4> QED
          BY <1>2, <3>1, <4>1, <4>2, PutOther
      <3>2. CASE d[i].name # e.name
        BY <2>2, <3>2
      <3> QED
        BY <3>1, <3>2
    <2>5. Fills(z, h)
      <3>1. ASSUME NEW i \in 1 .. Len(h)
            PROVE  /\ z[i].name = h[i].name /\ z[i].mac = h[i].mac
                   /\ \A x \in Others : z[i][x] = Blank \/ z[i][x] = h[i][x]
        <4>1. i \in 1 .. Len(d)
          BY <1>3
        <4>2. /\ d[i].name = h[i].name /\ d[i].mac = h[i].mac
              /\ \A x \in Others : d[i][x] = Blank \/ d[i][x] = h[i][x]
          BY DEF Fills
        <4>3. ASSUME NEW x \in Others PROVE z[i][x] = Blank \/ z[i][x] = h[i][x]
          <5>1. CASE x = f /\ d[i].name = e.name
            <6>1. z[i][x] = l[f][1]
              BY <2>4, <4>1, <5>1
            <6>2. h[i] = NetworkOf(l)
              BY <1>5, <1>7, <4>2, <5>1
            <6> QED
              BY <1>2, <5>1, <6>1, <6>2
          <5>2. CASE x # f \/ d[i].name # e.name
            <6>1. z[i][x] = d[i][x]
              BY <2>4, <4>1, <5>2
            <6> QED
              BY <4>2, <6>1
          <5> QED
            BY <5>1, <5>2
        <4> QED
          BY <2>4, <4>1, <4>2, <4>3
      <3> QED
        BY <1>3, <2>2, <3>1 DEF Fills
    <2>6. Filled(z, e.name, f)
      <3>1. PICK i \in 1 .. Len(d) : d[i].name = e.name
        BY <1>3, <1>4, <1>7
      <3>2. z[i].name = e.name /\ z[i][f] # Blank /\ i \in 1 .. Len(z)
        BY <1>2, <2>2, <2>4, <3>1, AddressIsNot
      <3> QED
        BY <3>2 DEF Filled
    <2>7. ASSUME NEW name, NEW x \in Others, Filled(d, name, x) PROVE Filled(z, name, x)
      <3>1. CASE name \in SkippedByC
        BY <3>1 DEF Filled
      <3>2. CASE name \notin SkippedByC
        <4>1. PICK i \in 1 .. Len(d) : d[i].name = name /\ d[i][x] # Blank
          BY <2>7, <3>2 DEF Filled
        <4>2. z[i][x] # Blank
          <5>1. CASE x = f /\ d[i].name = e.name
            BY <1>2, <2>4, <5>1, AddressIsNot
          <5>2. CASE x # f \/ d[i].name # e.name
            BY <2>4, <4>1, <5>2
          <5> QED
            BY <5>1, <5>2
        <4>3. z[i].name = name /\ i \in 1 .. Len(z)
          BY <2>2, <2>4, <4>1
        <4> QED
          BY <4>2, <4>3 DEF Filled
      <3> QED
        BY <3>1, <3>2
    <2> QED
      BY <2>5, <2>6, <2>7 DEF z
  <1> QED
    BY <1>6, <1>7

LEMMA BareFills ==
    ASSUME NEW d, NEW h, IsBare(d, h)
    PROVE  Fills(d, h)
  <1>1. ASSUME NEW i \in 1 .. Len(h)
        PROVE  /\ d[i].name = h[i].name /\ d[i].mac = h[i].mac
               /\ \A f \in Others : d[i][f] = Blank
    <2>1. d[i] = Bare(h[i])
      BY DEF IsBare
    <2> QED
      BY <2>1 DEF Bare, Others
  <1> QED
    BY <1>1 DEF Fills, IsBare

LEMMA FilledIsAll ==
    ASSUME NEW links \in Seq(LinkType),
           NEW h \in Seq(NetworkType), Lists(h, links, Len(links)),
           NEW d \in Seq(NetworkType), Fills(d, h),
           \A k \in 1 .. Len(links), f \in Others :
              links[k][f] # <<>> => Filled(d, links[k].name, f)
    PROVE  d = h
  <1>1. Len(d) = Len(h) /\ Len(h) \in Nat
    BY DEF Fills
  <1>2. ASSUME NEW i \in 1 .. Len(h) PROVE d[i] = h[i]
    <2>1. PICK k \in 1 .. Len(links) :
                 links[k].name \notin SkippedByC /\ h[i] = NetworkOf(links[k])
      BY DEF Lists
    <2>2. links[k] \in LinkType
      OBVIOUS
    <2>3. d[i].name = h[i].name /\ d[i].mac = h[i].mac
      BY DEF Fills
    <2>4. ASSUME NEW f \in Others PROVE d[i][f] = h[i][f]
      <3>1. d[i][f] = Blank \/ d[i][f] = h[i][f]
        BY DEF Fills
      <3>2. CASE links[k][f] = <<>>
        <4>1. h[i][f] = Blank
          BY <2>1, <2>2, <3>2, OthersOf
        <4> QED
          BY <3>1, <4>1
      <3>3. CASE links[k][f] # <<>>
        <4>1. PICK j \in 1 .. Len(d) : d[j].name = links[k].name /\ d[j][f] # Blank
          BY <2>1, <3>3 DEF Filled
        <4>2. j \in 1 .. Len(h) /\ h[j].name = d[j].name
          BY <1>1, <4>1 DEF Fills
        <4>3. h[i].name = links[k].name
          BY <2>1 DEF NetworkOf
        <4>4. OneEach(h)
          BY DEF Lists
        <4>5. i = j
          BY <4>1, <4>2, <4>3, <4>4 DEF OneEach
        <4> QED
          BY <3>1, <4>1, <4>5
      <3> QED
        BY <3>2, <3>3
    <2>5. d[i] \in NetworkType /\ h[i] \in NetworkType
      BY <1>1
    <2>6. d[i].ipv4 = h[i].ipv4 /\ d[i].ipv6 = h[i].ipv6
      BY <2>4 DEF Others
    <2>7. \A n \in NetworkType :
             n = [name |-> n.name, mac |-> n.mac, ipv4 |-> n.ipv4, ipv6 |-> n.ipv6]
      BY DEF NetworkType
    <2> QED
      BY <2>3, <2>5, <2>6, <2>7
  <1> QED
    BY <1>1, <1>2

LEMMA OthersAddresses ==
    ASSUME NEW links \in Seq(LinkType)
    PROVE  LET es == Getifaddrs(links)
               size == Len(links)
           IN  /\ es \in Seq(EntryType) /\ Len(es) \in Nat /\ size \in Nat /\ size <= Len(es)
               /\ \A q \in 1 .. size : es[q] = Entry(links[q], "mac", 1)
               /\ \A q \in size + 1 .. Len(es) :
                    \E k \in 1 .. size : \E f \in Others :
                       \E j \in 1 .. Len(links[k][f]) : es[q] = Entry(links[k], f, j)
               /\ \A k \in 1 .. size : \A f \in Others :
                    \A j \in 1 .. Len(links[k][f]) :
                       \E q \in 1 .. Len(es) : es[q] = Entry(links[k], f, j)
  <1> DEFINE es == Getifaddrs(links)
             size == Len(links)
             Parts(s) ==
                /\ es \in Seq(EntryType) /\ size \in Nat /\ size <= Len(es)
                /\ \A q \in 1 .. size : es[q] = Entry(links[q], "mac", 1)
                /\ \A q \in size + 1 .. Len(es) :
                     \E k \in 1 .. size : \E f \in s :
                        \E j \in 1 .. Len(links[k][f]) : es[q] = Entry(links[k], f, j)
                /\ \A k \in 1 .. size : \A f \in s :
                     \A j \in 1 .. Len(links[k][f]) :
                        \E q \in 1 .. Len(es) : es[q] = Entry(links[k], f, j)
  <1>1. Parts({"ipv4", "ipv6"})
    BY AddressesOf, Zenon
  <1>2. Others = {"ipv4", "ipv6"}
    BY DEF Others
  <1> HIDE DEF es, size
  <1>3. Parts(Others)
    <2> HIDE DEF Parts
    <2> QED
      BY <1>1, <1>2
  <1>4. Len(es) \in Nat
    BY <1>3
  <1> QED
    BY <1>3, <1>4, Zenon DEF es, size

(***************************************************************************)
(* On a machine whose links are as simple as ClientsAgree asks for, and    *)
(* have no parents, both lists are the same.                               *)
(***************************************************************************)
LEMMA PlainListsAgree ==
    ASSUME NEW links \in Seq(LinkType), UniqueNames(links), SameSkipped(links),
           Len(links) < MAX_NETWORKS,
           \A k \in 1 .. Len(links) : links[k].label = links[k].name,
           \A k \in 1 .. Len(links), f \in Others : Len(links[k][f]) <= 1
    PROVE  /\ get_network_info(links) = FoldLeft(Noted, <<>>, links)
           /\ Lists(get_network_info(links), links, Len(links))
  <1> DEFINE es == Getifaddrs(links)
             size == Len(links)
  <1>1. /\ es \in Seq(EntryType) /\ Len(es) \in Nat /\ size \in Nat /\ size <= Len(es)
        /\ \A q \in 1 .. size : es[q] = Entry(links[q], "mac", 1)
        /\ \A q \in size + 1 .. Len(es) :
             \E k \in 1 .. size : \E f \in Others :
                \E j \in 1 .. Len(links[k][f]) : es[q] = Entry(links[k], f, j)
        /\ \A k \in 1 .. size : \A f \in Others :
             \A j \in 1 .. Len(links[k][f]) :
                \E q \in 1 .. Len(es) : es[q] = Entry(links[k], f, j)
    BY OthersAddresses
  <1>2. get_network_info(links) = FoldLeft(Listed, <<>>, es)
    BY DEF get_network_info
  <1> HIDE DEF es
  <1>3. PICK g \in [0 .. Len(es) -> Seq(NetworkType)] :
              /\ g[0] = <<>>
              /\ \A n \in 1 .. Len(es) : g[n] = Listed(g[n - 1], es[n])
              /\ FoldLeft(Listed, <<>>, es) = g[Len(es)]
    BY <1>1, ListSteps
  <1>4. PICK h \in [0 .. size -> Seq(NetworkType)] :
              /\ h[0] = <<>>
              /\ \A n \in 1 .. size : h[n] = Noted(h[n - 1], links[n])
              /\ FoldLeft(Noted, <<>>, links) = h[size]
    BY NoteSteps
  <1> HIDE DEF size
  <1> DEFINE Half(n) == Lists(h[n], links, n) /\ IsBare(g[n], h[n])
             P == {n \in 0 .. size : Half(n)}
  <1>5. 0 \in P
    <2>1. Len(h[0]) = 0 /\ Len(g[0]) = 0
      BY <1>3, <1>4
    <2>2. Lists(h[0], links, 0) /\ IsBare(g[0], h[0])
      BY <2>1 DEF Lists, IsBare, OneEach
    <2> QED
      BY <1>1, <2>2
  <1>6. ASSUME NEW n \in 1 .. size, n - 1 \in P PROVE n \in P
    <2>1. n \in 1 .. Len(es) /\ n - 1 \in 0 .. size /\ n - 1 \in 0 .. Len(es) /\ n \in 0 .. size
      BY <1>1
    <2>2. g[n] = Listed(g[n - 1], Entry(links[n], "mac", 1))
      BY <1>1, <1>3, <2>1
    <2>3. h[n] = Noted(h[n - 1], links[n])
      BY <1>4
    <2>4. g[n - 1] \in Seq(NetworkType) /\ h[n - 1] \in Seq(NetworkType)
      BY <2>1
    <2>5. Lists(h[n - 1], links, n - 1) /\ IsBare(g[n - 1], h[n - 1])
      BY <1>6
    <2>6. n \in 1 .. Len(links)
      BY DEF size
    <2>7. /\ Lists(Noted(h[n - 1], links[n]), links, n)
          /\ IsBare(Listed(g[n - 1], Entry(links[n], "mac", 1)), Noted(h[n - 1], links[n]))
      BY <2>4, <2>5, <2>6, BareStep
    <2> QED
      BY <2>1, <2>2, <2>3, <2>7
  <1> HIDE DEF P
  <1>7. Lists(h[size], links, size) /\ IsBare(g[size], h[size])
    <2>1. size \in 0 .. size
      BY <1>1
    <2>2. size \in P
      BY <1>1, <1>5, <1>6, <2>1, Induction
    <2> QED
      BY <2>2 DEF P
  <1> DEFINE o == h[size]
  <1>8. o \in Seq(NetworkType) /\ Lists(o, links, Len(links)) /\ Fills(g[size], o)
    <2>1. size \in 0 .. size
      BY <1>1
    <2> QED
      BY <1>7, <2>1, BareFills DEF size
  <1> HIDE DEF o
  <1> DEFINE Done(n) == /\ Fills(g[n], o)
                         /\ \A q \in size + 1 .. n : Filled(g[n], es[q].name, es[q].field)
             rest == Len(es) - size
             Q == {n \in 0 .. rest : Done(size + n)}
  <1>9. 0 \in Q
    <2>1. size + 0 = size /\ size + 1 .. size = {} /\ 0 \in 0 .. rest
      BY <1>1
    <2> QED
      BY <1>8, <2>1
  <1>10. ASSUME NEW i \in 1 .. rest, i - 1 \in Q PROVE i \in Q
    <2> DEFINE n == size + i
    <2>1. /\ n \in size + 1 .. Len(es) /\ n \in 1 .. Len(es) /\ n - 1 \in 0 .. Len(es)
          /\ size + (i - 1) = n - 1 /\ i \in 0 .. rest
      BY <1>1
    <2>2. Done(n - 1)
      BY <1>10, <2>1
    <2> HIDE DEF n
    <2>3. PICK k \in 1 .. size : \E f \in Others :
                 \E j \in 1 .. Len(links[k][f]) : es[n] = Entry(links[k], f, j)
      BY <1>1, <2>1
    <2>4. PICK f \in Others :
                 \E j \in 1 .. Len(links[k][f]) : es[n] = Entry(links[k], f, j)
      BY <2>3
    <2>5. PICK j \in 1 .. Len(links[k][f]) : es[n] = Entry(links[k], f, j)
      BY <2>4
    <2>6. k \in 1 .. Len(links) /\ links[k] \in LinkType
      BY DEF size
    <2>7. links[k][f] \in Seq(Addresses) /\ Len(links[k][f]) <= 1
      BY <2>6, OthersOf
    <2>8. j = 1 /\ links[k][f] # <<>>
      BY <2>7
    <2>9. g[n] = Listed(g[n - 1], es[n]) /\ g[n - 1] \in Seq(NetworkType)
      BY <1>3, <2>1
    <2>10. es[n] \in EntryType /\ es[n].field = f
      BY <1>1, <2>1, <2>5 DEF Entry
    <2>11. Fills(g[n - 1], o)
      BY <2>2
    <2>12. /\ Fills(g[n], o) /\ Filled(g[n], es[n].name, f)
           /\ \A name, x : x \in Others /\ Filled(g[n - 1], name, x) => Filled(g[n], name, x)
      <3> DEFINE d == g[n - 1]
                 e == es[n]
      <3>1. /\ d \in Seq(NetworkType) /\ Fills(d, o) /\ e \in EntryType
            /\ e = Entry(links[k], f, 1) /\ g[n] = Listed(d, e)
        BY <2>5, <2>8, <2>9, <2>10, <2>11
      <3> HIDE DEF d, e
      <3>2. LET z == Listed(d, e)
            IN  /\ Fills(z, o) /\ Filled(z, e.name, f)
                /\ \A name, x : x \in Others /\ Filled(d, name, x) => Filled(z, name, x)
        BY <1>8, <2>6, <2>8, <3>1, FillStep
      <3> QED
        BY <3>1, <3>2 DEF d, e
    <2>13. ASSUME NEW q \in size + 1 .. n PROVE Filled(g[n], es[q].name, es[q].field)
      <3>1. CASE q = n
        BY <2>10, <2>12, <3>1
      <3>2. CASE q # n
        <4>1. q \in size + 1 .. n - 1 /\ q \in size + 1 .. Len(es)
          BY <1>1, <2>1, <3>2
        <4>2. Filled(g[n - 1], es[q].name, es[q].field)
          BY <2>2, <4>1
        <4>3. es[q].field \in Others
          <5>1. PICK kk \in 1 .. size : \E ff \in Others :
                       \E jj \in 1 .. Len(links[kk][ff]) : es[q] = Entry(links[kk], ff, jj)
            BY <1>1, <4>1
          <5> QED
            BY <5>1 DEF Entry
        <4> QED
          BY <2>12, <4>2, <4>3
      <3> QED
        BY <3>1, <3>2
    <2> QED
      BY <2>1, <2>12, <2>13 DEF n
  <1> HIDE DEF Q
  <1>11. Done(Len(es))
    <2>1. rest \in Nat /\ rest \in 0 .. rest /\ size + rest = Len(es)
      BY <1>1
    <2> HIDE DEF rest
    <2>2. rest \in Q
      BY <1>9, <1>10, <2>1, Induction
    <2> QED
      BY <2>1, <2>2 DEF Q
  <1>12. ASSUME NEW k \in 1 .. Len(links), NEW f \in Others, links[k][f] # <<>>
         PROVE  Filled(g[Len(es)], links[k].name, f)
    <2>1. k \in 1 .. size /\ 1 \in 1 .. Len(links[k][f])
      <3>1. links[k] \in LinkType
        OBVIOUS
      <3>2. links[k][f] \in Seq(Addresses)
        BY <3>1, OthersOf
      <3> QED
        BY <1>12, <3>2 DEF size
    <2>2. PICK q \in 1 .. Len(es) : es[q] = Entry(links[k], f, 1)
      BY <1>1, <2>1
    <2>3. es[q].name = links[k].name /\ es[q].field = f /\ f # "mac"
      BY <2>2 DEF Entry, Others
    <2>4. q \notin 1 .. size
      <3>1. SUFFICES ASSUME q \in 1 .. size PROVE FALSE
        OBVIOUS
      <3>2. es[q] = Entry(links[q], "mac", 1)
        BY <1>1, <3>1
      <3> QED
        BY <2>3, <3>2 DEF Entry
    <2>5. q \in size + 1 .. Len(es)
      BY <1>1, <2>4
    <2> QED
      BY <1>11, <2>3, <2>5
  <1>13. g[Len(es)] = o
    <2>1. g[Len(es)] \in Seq(NetworkType) /\ Fills(g[Len(es)], o)
      <3>1. Len(es) \in 0 .. Len(es)
        BY <1>1
      <3> QED
        BY <1>3, <1>11, <3>1
    <2> QED
      BY <1>8, <1>12, <2>1, FilledIsAll
  <1> QED
    BY <1>2, <1>3, <1>4, <1>8, <1>13 DEF o

(***************************************************************************)
(* Labels change nothing in the C client's list, and only names in the Go  *)
(* client's.                                                               *)
(***************************************************************************)
PlainLinks(links) == [k \in 1 .. Len(links) |-> [links[k] EXCEPT !.label = links[k].name]]

LEMMA PlainLinksAre ==
    ASSUME NEW links \in Seq(LinkType)
    PROVE  /\ PlainLinks(links) \in Seq(LinkType) /\ Len(PlainLinks(links)) = Len(links)
           /\ \A k \in 1 .. Len(links) :
                LET p == PlainLinks(links)[k]
                    l == links[k]
                IN  /\ p.name = l.name /\ p.label = l.name
                    /\ p.mac = l.mac /\ p.ipv4 = l.ipv4 /\ p.ipv6 = l.ipv6
                    /\ \A f \in Fields : p[f] = l[f]
  <1> DEFINE P(k) == [links[k] EXCEPT !.label = links[k].name]
             ps == [k \in 1 .. Len(links) |-> P(k)]
  <1>1. Len(links) \in Nat
    OBVIOUS
  <1>2. ASSUME NEW k \in 1 .. Len(links)
        PROVE  /\ P(k) \in LinkType
               /\ P(k).name = links[k].name /\ P(k).label = links[k].name
               /\ P(k).mac = links[k].mac
               /\ P(k).ipv4 = links[k].ipv4 /\ P(k).ipv6 = links[k].ipv6
    <2>1. links[k] \in LinkType
      OBVIOUS
    <2> QED
      BY <2>1 DEF LinkType
  <1> HIDE DEF P
  <1>3. ps \in [1 .. Len(links) -> LinkType] /\ \A k \in 1 .. Len(links) : ps[k] = P(k)
    BY <1>2
  <1>4. PlainLinks(links) = ps
    BY DEF PlainLinks, P
  <1> HIDE DEF ps
  <1>5. ps \in Seq(LinkType) /\ Len(ps) = Len(links)
    BY <1>1, <1>3
  <1>6. ASSUME NEW k \in 1 .. Len(links), NEW f \in Fields PROVE ps[k][f] = links[k][f]
    BY <1>2, <1>3 DEF Fields
  <1> QED
    BY <1>2, <1>3, <1>4, <1>5, <1>6

LEMMA PlainEntries ==
    ASSUME NEW links \in Seq(LinkType)
    PROVE  get_network_info(PlainLinks(links)) = get_network_info(links)
  <1> DEFINE ps == PlainLinks(links)
  <1>1. Len(ps) = Len(links)
        /\ \A k \in 1 .. Len(links) :
              ps[k].name = links[k].name /\ \A f \in Fields : ps[k][f] = links[k][f]
    BY PlainLinksAre
  <1> HIDE DEF ps
  <1>2. ASSUME NEW f \in Fields PROVE Entries(ps, f) = Entries(links, f)
    <2> DEFINE One(k) == [j \in 1 .. Len(links[k][f]) |->
                            [name |-> links[k].name, field |-> f, addr |-> links[k][f][j]]]
               Other(k) == [j \in 1 .. Len(ps[k][f]) |->
                            [name |-> ps[k].name, field |-> f, addr |-> ps[k][f][j]]]
    <2>1. ASSUME NEW k \in 1 .. Len(links) PROVE Other(k) = One(k)
      <3>1. ps[k].name = links[k].name /\ ps[k][f] = links[k][f]
        BY <1>1
      <3> QED
        BY <3>1
    <2>2. /\ Entries(ps, f) = FlattenSeq([k \in 1 .. Len(ps) |-> Other(k)])
          /\ Entries(links, f) = FlattenSeq([k \in 1 .. Len(links) |-> One(k)])
      BY DEF Entries
    <2> HIDE DEF One, Other
    <2>3. [k \in 1 .. Len(ps) |-> Other(k)] = [k \in 1 .. Len(links) |-> One(k)]
      BY <1>1, <2>1
    <2> QED
      BY <2>2, <2>3
  <1>3. Getifaddrs(ps) = Getifaddrs(links)
    BY <1>2 DEF Getifaddrs, Fields
  <1> QED
    BY <1>3 DEF get_network_info, ps

Like(h, g, links, n) ==
    /\ Len(h) = Len(g)
    /\ \A i \in 1 .. Len(h) : \E k \in 1 .. n :
          /\ h[i].name = links[k].name
          /\ g[i] = [h[i] EXCEPT !.name = links[k].label]

LEMMA LikeStep ==
    ASSUME NEW links \in Seq(LinkType), NEW n \in 1 .. Len(links),
           NEW h \in Seq(NetworkType), NEW g \in Seq(NetworkType),
           Like(h, g, links, n - 1)
    PROVE  Like(Noted(h, PlainLinks(links)[n]), Noted(g, links[n]), links, n)
  <1> DEFINE l == links[n]
             p == PlainLinks(links)[n]
  <1>1. /\ p.name = l.name /\ p.label = l.name /\ p.mac = l.mac
        /\ p.ipv4 = l.ipv4 /\ p.ipv6 = l.ipv6
    BY PlainLinksAre
  <1>2. Len(h) \in Nat /\ Len(g) = Len(h)
    BY DEF Like
  <1>3. \A k \in 1 .. n - 1 : k \in 1 .. n
    OBVIOUS
  <1>4. l = links[n] /\ n \in 1 .. n
    OBVIOUS
  <1> HIDE DEF l, p
  <1>5. CASE l.name \in SkippedByGo
    <2>1. Noted(h, p) = h /\ Noted(g, l) = g
      BY <1>1, <1>5 DEF Noted
    <2>2. Like(h, g, links, n)
      BY <1>2, <1>3, Zenon DEF Like
    <2> QED
      BY <2>1, <2>2 DEF l, p
  <1>6. CASE l.name \notin SkippedByGo
    <2> DEFINE x == [name |-> l.name, mac |-> FirstOf(l.mac),
                     ipv4 |-> FirstOf(l.ipv4), ipv6 |-> FirstOf(l.ipv6)]
               y == [name |-> l.label, mac |-> FirstOf(l.mac),
                     ipv4 |-> FirstOf(l.ipv4), ipv6 |-> FirstOf(l.ipv6)]
               hh == Append(h, x)
               gg == Append(g, y)
    <2>1. Noted(h, p) = hh /\ Noted(g, l) = gg
      BY <1>1, <1>6 DEF Noted
    <2>2. y = [x EXCEPT !.name = l.label] /\ x.name = l.name
      OBVIOUS
    <2> HIDE DEF x, y
    <2>3. /\ Len(hh) = Len(h) + 1 /\ Len(gg) = Len(h) + 1
          /\ hh[Len(h) + 1] = x /\ gg[Len(h) + 1] = y
          /\ \A i \in 1 .. Len(h) : hh[i] = h[i] /\ gg[i] = g[i]
      BY <1>2
    <2> HIDE DEF hh, gg
    <2>4. ASSUME NEW i \in 1 .. Len(hh)
          PROVE  \E k \in 1 .. n : /\ hh[i].name = links[k].name
                                   /\ gg[i] = [hh[i] EXCEPT !.name = links[k].label]
      <3>1. CASE i = Len(h) + 1
        BY <1>4, <2>2, <2>3, <3>1
      <3>2. CASE i # Len(h) + 1
        <4>1. i \in 1 .. Len(h)
          BY <1>2, <2>3, <3>2
        <4>2. PICK k \in 1 .. n - 1 : /\ h[i].name = links[k].name
                                      /\ g[i] = [h[i] EXCEPT !.name = links[k].label]
          BY <4>1 DEF Like
        <4> QED
          BY <1>3, <2>3, <4>1, <4>2
      <3> QED
        BY <3>1, <3>2
    <2>5. Like(hh, gg, links, n)
      BY <2>3, <2>4 DEF Like
    <2> QED
      BY <2>1, <2>5 DEF l, p
  <1> QED
    BY <1>5, <1>6

LEMMA NotesAreLike ==
    ASSUME NEW links \in Seq(LinkType)
    PROVE  Like(FoldLeft(Noted, <<>>, PlainLinks(links)), FoldLeft(Noted, <<>>, links),
                links, Len(links))
  <1> DEFINE ps == PlainLinks(links)
             size == Len(links)
  <1>1. ps \in Seq(LinkType) /\ Len(ps) = size /\ size \in Nat
    BY PlainLinksAre
  <1> HIDE DEF ps
  <1>2. PICK h \in [0 .. size -> Seq(NetworkType)] :
              /\ h[0] = <<>>
              /\ \A n \in 1 .. size : h[n] = Noted(h[n - 1], ps[n])
              /\ FoldLeft(Noted, <<>>, ps) = h[size]
    BY <1>1, NoteSteps
  <1>3. PICK g \in [0 .. size -> Seq(NetworkType)] :
              /\ g[0] = <<>>
              /\ \A n \in 1 .. size : g[n] = Noted(g[n - 1], links[n])
              /\ FoldLeft(Noted, <<>>, links) = g[size]
    BY NoteSteps
  <1> HIDE DEF size
  <1> DEFINE P == {n \in 0 .. size : Like(h[n], g[n], links, n)}
  <1>4. 0 \in P
    <2>1. Len(h[0]) = 0 /\ Len(g[0]) = 0
      BY <1>2, <1>3
    <2> QED
      BY <1>1, <2>1 DEF Like
  <1>5. ASSUME NEW n \in 1 .. size, n - 1 \in P PROVE n \in P
    <2>1. n - 1 \in 0 .. size /\ n \in 0 .. size /\ n \in 1 .. Len(links)
      BY <1>1 DEF size
    <2>2. h[n - 1] \in Seq(NetworkType) /\ g[n - 1] \in Seq(NetworkType)
      BY <2>1
    <2>3. Like(h[n - 1], g[n - 1], links, n - 1)
      BY <1>5
    <2>4. Like(Noted(h[n - 1], ps[n]), Noted(g[n - 1], links[n]), links, n)
      BY <2>1, <2>2, <2>3, LikeStep DEF ps
    <2> QED
      BY <1>2, <1>3, <2>1, <2>4
  <1> HIDE DEF P
  <1>6. size \in P
    <2>1. size \in 0 .. size
      BY <1>1
    <2> QED
      BY <1>1, <1>4, <1>5, <2>1, Induction
  <1>7. Like(h[size], g[size], links, size)
    BY <1>6 DEF P
  <1> QED
    BY <1>2, <1>3, <1>7 DEF ps, size

LEMMA ListsAgree ==
    ASSUME NEW links \in Seq(LinkType), UniqueNames(links), SameSkipped(links),
           Len(links) < MAX_NETWORKS,
           \A k \in 1 .. Len(links), f \in Others : Len(links[k][f]) <= 1
    PROVE  LET c == get_network_info(links)
               go == FoldLeft(Noted, <<>>, links)
           IN  SameButLabels(c, go, links) /\ (c = go <=> NoParents(links))
  <1> DEFINE ps == PlainLinks(links)
             c == get_network_info(links)
             go == FoldLeft(Noted, <<>>, links)
             size == Len(links)
  <1>1. /\ ps \in Seq(LinkType) /\ Len(ps) = size
        /\ \A k \in 1 .. size :
             /\ ps[k].name = links[k].name /\ ps[k].label = links[k].name
             /\ ps[k].mac = links[k].mac /\ \A f \in Fields : ps[k][f] = links[k][f]
    BY PlainLinksAre
  <1>2. Like(FoldLeft(Noted, <<>>, ps), go, links, size)
    BY NotesAreLike
  <1>3. get_network_info(ps) = c
    BY PlainEntries
  <1> HIDE DEF ps
  <1>4. UniqueNames(ps) /\ SameSkipped(ps) /\ Len(ps) < MAX_NETWORKS
    BY <1>1 DEF UniqueNames, SameSkipped
  <1>5. /\ \A k \in 1 .. Len(ps) : ps[k].label = ps[k].name
        /\ \A k \in 1 .. Len(ps), f \in Others : Len(ps[k][f]) <= 1
    <2>1. Others \subseteq Fields
      BY DEF Others, Fields
    <2> QED
      BY <1>1, <2>1
  <1>6. get_network_info(ps) = FoldLeft(Noted, <<>>, ps) /\ Lists(get_network_info(ps), ps, size)
    BY <1>1, <1>4, <1>5, PlainListsAgree
  <1>7. c \in Seq(NetworkType) /\ go \in Seq(NetworkType)
    <2>1. c \in Seq(NetworkType)
      BY ListIsMap
    <2>2. PICK g \in [0 .. Len(links) -> Seq(NetworkType)] : go = g[Len(links)]
      BY NoteSteps
    <2>3. Len(links) \in 0 .. Len(links)
      OBVIOUS
    <2> QED
      BY <2>1, <2>2, <2>3
  <1> HIDE DEF c, go
  <1>8. Like(c, go, links, size) /\ Lists(c, ps, size)
    BY <1>2, <1>3, <1>6
  <1>9. SameButLabels(c, go, links)
    BY <1>8 DEF Like, SameButLabels
  <1>10. \A i \in 1 .. Len(c) : c[i].name \notin SkippedByC
    <2>1. ASSUME NEW i \in 1 .. Len(c) PROVE c[i].name \notin SkippedByC
      <3>1. PICK k \in 1 .. size : ps[k].name \notin SkippedByC /\ c[i] = NetworkOf(ps[k])
        BY <1>8 DEF Lists
      <3> QED
        BY <3>1 DEF NetworkOf
    <2> QED
      BY <2>1
  <1>11. ASSUME NoParents(links) PROVE c = go
    <2>1. ASSUME NEW i \in 1 .. Len(c) PROVE go[i] = c[i]
      <3>1. PICK k \in 1 .. size : /\ c[i].name = links[k].name
                                   /\ go[i] = [c[i] EXCEPT !.name = links[k].label]
        BY <1>8 DEF Like
      <3>2. links[k].label = c[i].name
        BY <1>10, <1>11, <3>1 DEF NoParents
      <3>3. c[i] \in NetworkType
        BY <1>7
      <3>4. \A n \in NetworkType : [n EXCEPT !.name = n.name] = n
        BY DEF NetworkType
      <3> QED
        BY <3>1, <3>2, <3>3, <3>4
    <2>2. Len(c) = Len(go)
      BY <1>8 DEF Like
    <2> QED
      BY <1>7, <2>1, <2>2
  <1>12. ASSUME c = go PROVE NoParents(links)
    <2>1. ASSUME NEW k \in 1 .. size, links[k].name \notin SkippedByC
          PROVE  links[k].label = links[k].name
      <3>1. PICK i \in 1 .. Len(c) : c[i] = NetworkOf(ps[k])
        BY <1>1, <1>8, <2>1 DEF Lists
      <3>2. c[i].name = links[k].name
        BY <1>1, <3>1 DEF NetworkOf
      <3>3. PICK j \in 1 .. size : /\ c[i].name = links[j].name
                                   /\ go[i] = [c[i] EXCEPT !.name = links[j].label]
        BY <1>8 DEF Like
      <3>4. j = k
        BY <3>2, <3>3 DEF UniqueNames
      <3>5. c[i] \in NetworkType
        BY <1>7
      <3>6. go[i].name = links[k].label
        BY <3>3, <3>4, <3>5 DEF NetworkType
      <3> QED
        BY <1>12, <3>2, <3>6
    <2> QED
      BY <2>1 DEF NoParents
  <1> QED
    BY <1>9, <1>11, <1>12 DEF c, go

LEMMA InvAgree == Inv => ClientsAgree
  <1> SUFFICES ASSUME Inv, NEW i \in {1, 2}
               PROVE  LET m == machines[i]
                          c == get_network_info(m.links)
                          go == parseNetworkLinux(m.links, m.commands)
                          told == parseUptime(m.seconds, m.offset, m.commands)
                      IN  /\ Simple(m) => /\ SameButLabels(c, go, m.links)
                                          /\ c = go <=> NoParents(m.links)
                          /\ m.mem.available > 0 /\ "cat" \in m.commands =>
                                UsedByC(m.mem) = UsedByGo(m.mem, m.commands)
                          /\ "uptime" \in m.commands =>
                                (m.offset = 0 <=> told = get_uptime(m.seconds))
                          /\ "uptime" \notin m.commands /\ "cat" \in m.commands =>
                                told = get_uptime(m.seconds)
    BY DEF ClientsAgree
  <1> DEFINE m == machines[i]
             told == parseUptime(m.seconds, m.offset, m.commands)
  <1>1. m \in Machines
    BY DEF Inv
  <1> HIDE DEF m
  <1>2. /\ m.links \in Seq(LinkType) /\ UniqueNames(m.links)
        /\ m.mem \in [total : Nat, free : Nat, available : Nat]
        /\ m.offset \in Int /\ m.seconds \in Int
    BY <1>1, MachinesAssumption DEF UniqueNames
  <1>3. ASSUME Simple(m)
        PROVE  LET c == get_network_info(m.links)
                   go == parseNetworkLinux(m.links, m.commands)
               IN  SameButLabels(c, go, m.links) /\ (c = go <=> NoParents(m.links))
    <2>1. SameSkipped(m.links) /\ Len(m.links) < MAX_NETWORKS
      BY <1>3 DEF Simple, SameSkipped
    <2>2. \A k \in 1 .. Len(m.links), f \in Others : Len(m.links[k][f]) <= 1
      BY <1>3 DEF Simple, Others
    <2>3. parseNetworkLinux(m.links, m.commands) = FoldLeft(Noted, <<>>, m.links)
      BY <1>3 DEF Simple, parseNetworkLinux
    <2> QED
      BY <1>2, <2>1, <2>2, <2>3, ListsAgree
  <1>4. m.mem.available > 0 /\ "cat" \in m.commands =>
           UsedByC(m.mem) = UsedByGo(m.mem, m.commands)
    BY <1>2 DEF UsedByC, UsedByGo
  <1>5. "uptime" \in m.commands => (m.offset = 0 <=> told = get_uptime(m.seconds))
    BY <1>2 DEF get_uptime, parseUptime
  <1>6. "uptime" \notin m.commands /\ "cat" \in m.commands => told = get_uptime(m.seconds)
    BY DEF get_uptime, parseUptime
  <1> QED
    BY <1>3, <1>4, <1>5, <1>6 DEF m

(***************************************************************************)
(* Both clients report the same of a simple machine (ClientsAgree).        *)
(***************************************************************************)
THEOREM AgreeCorrect == Spec => []ClientsAgree
  BY InvCorrect, InvAgree, PTL

-----------------------------------------------------------------------------
(* Numbers and their texts.                                                *)

LEMMA AgeIsRight ==
    ASSUME NEW d \in Nat
    PROVE  IsAge(AgeText(d), d)
  <1>1. CASE d >= DAY
    <2>1. AgeText(d) = [n |-> d \div DAY, unit |-> "d"]
      BY <1>1 DEF AgeText, Text
    <2>2. (d \div 86400) * 86400 <= d /\ d < (d \div 86400 + 1) * 86400 /\ d \div 86400 > 0
      BY <1>1 DEF DAY
    <2> QED
      BY <2>1, <2>2 DEF IsAge, DAY
  <1>2. CASE d < DAY /\ d >= HOUR
    <2>1. AgeText(d) = [n |-> d \div HOUR, unit |-> "h"]
      BY <1>2 DEF AgeText, Text, DAY
    <2>2. (d \div 3600) * 3600 <= d /\ d < (d \div 3600 + 1) * 3600 /\ d \div 3600 > 0
      BY <1>2 DEF HOUR
    <2> QED
      BY <1>2, <2>1, <2>2 DEF IsAge, HOUR
  <1>3. CASE d < HOUR /\ d >= MINUTE
    <2>1. AgeText(d) = [n |-> d \div MINUTE, unit |-> "m"]
      BY <1>3 DEF AgeText, Text, DAY, HOUR
    <2>2. (d \div 60) * 60 <= d /\ d < (d \div 60 + 1) * 60 /\ d \div 60 > 0
      BY <1>3 DEF MINUTE
    <2> QED
      BY <1>3, <2>1, <2>2 DEF IsAge, MINUTE
  <1>4. CASE d < MINUTE
    <2>1. AgeText(d) = [n |-> d, unit |-> "s"]
      BY <1>4 DEF AgeText, Text, DAY, HOUR, MINUTE
    <2> QED
      BY <1>4, <2>1 DEF IsAge
  <1> QED
    BY <1>1, <1>2, <1>3, <1>4 DEF DAY, HOUR, MINUTE

LEMMA Below ==
    ASSUME NEW n \in Int, NEW e \in 0 .. n - 1
    PROVE  e \in Nat /\ ~ (e >= n)
  OBVIOUS

LEMMA DayType == DAY \in Int
  BY DEF DAY

LEMMA AgeInGoIsRight ==
    ASSUME NEW d \in 0 .. DAY - 1
    PROVE  IsAge(AgeInGo(d), d)
  <1>1. d \in Nat /\ ~ (d >= DAY)
    BY DayType, Below
  <1>2. AgeInGo(d) = AgeText(d)
    BY <1>1, Zenon DEF AgeInGo, AgeText
  <1>3. IsAge(AgeText(d), d)
    BY <1>1, AgeIsRight
  <1> QED
    BY <1>2, <1>3

LEMMA UptimeIsRight ==
    ASSUME NEW d \in Nat
    PROVE  IsUptime(format_uptime(d), d)
  <1> DEFINE days == d \div 86400
             hours == (d % 86400) \div 3600
             mins == (d % 3600) \div 60
             Part(text) == [k \in 1 .. 3 |-> IF k + Len(text) <= 3 THEN 0
                                             ELSE text[k + Len(text) - 3]]
             Right(text) ==
                LET sum == Part(text)[1] * 86400 + Part(text)[2] * 3600 + Part(text)[3] * 60
                IN  /\ sum <= d /\ d < sum + 60
                    /\ Part(text)[2] * 3600 < 86400 /\ Part(text)[3] * 60 < 3600
  <1>1. /\ days \in Nat /\ hours \in Nat /\ mins \in Nat
        /\ days * 86400 + hours * 3600 + mins * 60 <= d
        /\ d < days * 86400 + hours * 3600 + mins * 60 + 60
        /\ hours * 3600 < 86400 /\ mins * 60 < 3600
    <2> DEFINE a == d % 86400
               b == d % 3600
    <2>1. days \in Nat /\ a \in Nat /\ b \in Nat
      OBVIOUS
    <2>2. a < 86400
      OBVIOUS
    <2>3. a = d - days * 86400
      OBVIOUS
    <2>4. hours \in Nat /\ hours * 3600 <= a /\ a < hours * 3600 + 3600
      <3>1. hours = a \div 3600
        OBVIOUS
      <3> HIDE DEF a, hours
      <3> QED
        BY <2>1, <3>1
    <2>5. mins \in Nat /\ mins * 60 <= b /\ b < mins * 60 + 60
      <3>1. mins = b \div 60
        OBVIOUS
      <3> HIDE DEF b, mins
      <3> QED
        BY <2>1, <3>1
    <2>6. b < 3600
      OBVIOUS
    <2>7. b = a - hours * 3600
      <3> DEFINE r == a - hours * 3600
                 q == 24 * days + hours
      <3> HIDE DEF a, days, hours
      <3>1. q \in Nat /\ r \in Nat /\ r < 3600
        BY <2>1, <2>4
      <3>2. d = q * 3600 + r
        BY <2>1, <2>3, <2>4
      <3> HIDE DEF q, r
      <3>3. d % 3600 = r
        BY <3>1, <3>2
      <3> QED
        BY <3>3 DEF r
    <2> HIDE DEF a, b, days, hours, mins
    <2>8. hours * 3600 < 86400 /\ mins * 60 < 3600
      BY <2>1, <2>2, <2>4, <2>5, <2>6
    <2>9. /\ days * 86400 + hours * 3600 + mins * 60 <= d
          /\ d < days * 86400 + hours * 3600 + mins * 60 + 60
      BY <2>1, <2>3, <2>4, <2>5, <2>7
    <2> QED
      BY <2>1, <2>4, <2>5, <2>8, <2>9
  <1>2. format_uptime(d) = IF days > 0 THEN <<days, hours, mins>>
                           ELSE IF hours > 0 THEN <<hours, mins>> ELSE <<mins>>
    BY DEF format_uptime, DAY, HOUR, MINUTE
  <1>3. \A text : Right(text) => IsUptime(text, d)
    <2>1. SUFFICES ASSUME NEW text, Right(text) PROVE IsUptime(text, d)
      OBVIOUS
    <2>2. \A k \in 2 .. 3 : k = 2 \/ k = 3
      OBVIOUS
    <2> QED
      BY <2>1, <2>2 DEF IsUptime, DAY, HOUR, MINUTE
  <1> HIDE DEF days, hours, mins
  <1>4. CASE days > 0
    <2> DEFINE text == <<days, hours, mins>>
    <2>1. Part(text)[1] = days /\ Part(text)[2] = hours /\ Part(text)[3] = mins
      OBVIOUS
    <2>2. Right(text)
      BY <1>1, <2>1
    <2>3. format_uptime(d) = text
      BY <1>2, <1>4
    <2> HIDE DEF Right, text
    <2> QED
      BY <1>3, <2>2, <2>3
  <1>5. CASE days = 0 /\ hours > 0
    <2> DEFINE text == <<hours, mins>>
    <2>1. Part(text)[1] = 0 /\ Part(text)[2] = hours /\ Part(text)[3] = mins
      OBVIOUS
    <2>2. Right(text)
      BY <1>1, <1>5, <2>1
    <2>3. format_uptime(d) = text
      BY <1>2, <1>5
    <2> HIDE DEF Right, text
    <2> QED
      BY <1>3, <2>2, <2>3
  <1>6. CASE days = 0 /\ hours = 0
    <2> DEFINE text == <<mins>>
    <2>1. Part(text)[1] = 0 /\ Part(text)[2] = 0 /\ Part(text)[3] = mins
      OBVIOUS
    <2>2. Right(text)
      BY <1>1, <1>6, <2>1
    <2>3. format_uptime(d) = text
      BY <1>2, <1>6
    <2> HIDE DEF Right, text
    <2> QED
      BY <1>3, <2>2, <2>3
  <1> QED
    BY <1>1, <1>4, <1>5, <1>6

LEMMA Times ==
    ASSUME NEW x \in Nat \ {0}
    PROVE  KILO * x \in Nat \ {0} /\ x < KILO * x
  <1>1. KILO \in Nat /\ KILO >= 2
    BY KiloAssumption
  <1>2. KILO * x \in Nat /\ KILO * x >= 2 * x
    BY <1>1
  <1> QED
    BY <1>2

(***************************************************************************)
(* A unit is larger than the one before.                                   *)
(***************************************************************************)
LEMMA Units ==
    /\ Unit[0] = 1
    /\ \A k \in 0 .. 7 : Unit[k] \in Nat \ {0}
    /\ \A k \in 0 .. 6 : Unit[k] < Unit[k + 1]
  <1> DEFINE Is(f) == f = [k \in 0 .. 7 |-> IF k = 0 THEN 1 ELSE KILO * f[k - 1]]
             u1 == KILO
             u2 == KILO * u1
             u3 == KILO * u2
             u4 == KILO * u3
             u5 == KILO * u4
             u6 == KILO * u5
             u7 == KILO * u6
             f == [k \in 0 .. 7 |-> IF k = 0 THEN 1 ELSE IF k = 1 THEN u1
                                    ELSE IF k = 2 THEN u2 ELSE IF k = 3 THEN u3
                                    ELSE IF k = 4 THEN u4 ELSE IF k = 5 THEN u5
                                    ELSE IF k = 6 THEN u6 ELSE u7]
  <1>1. /\ u2 = KILO * u1 /\ u3 = KILO * u2 /\ u4 = KILO * u3 /\ u5 = KILO * u4
        /\ u6 = KILO * u5 /\ u7 = KILO * u6 /\ u1 = KILO * 1
    BY KiloAssumption
  <1> HIDE DEF u1, u2, u3, u4, u5, u6, u7
  <1>2. /\ f[0] = 1 /\ f[1] = u1 /\ f[2] = u2 /\ f[3] = u3 /\ f[4] = u4 /\ f[5] = u5
        /\ f[6] = u6 /\ f[7] = u7
    OBVIOUS
  <1>3. f = [k \in 0 .. 7 |-> f[k]]
    OBVIOUS
  <1> HIDE DEF f
  <1>4. \A k \in 0 .. 7 : k = 0 \/ k = 1 \/ k = 2 \/ k = 3 \/ k = 4 \/ k = 5 \/ k = 6 \/ k = 7
    OBVIOUS
  <1>5. ASSUME NEW k \in 0 .. 7 PROVE f[k] = IF k = 0 THEN 1 ELSE KILO * f[k - 1]
    <2>1. \A j \in 1 .. 7 : f[j] = KILO * f[j - 1]
      <3>1. /\ f[1] = KILO * f[1 - 1] /\ f[2] = KILO * f[2 - 1] /\ f[3] = KILO * f[3 - 1]
            /\ f[4] = KILO * f[4 - 1] /\ f[5] = KILO * f[5 - 1] /\ f[6] = KILO * f[6 - 1]
            /\ f[7] = KILO * f[7 - 1]
        BY <1>1, <1>2
      <3> QED
        BY <3>1
    <2> QED
      BY <1>2, <2>1
  <1>6. Is(f)
    BY <1>3, <1>5
  <1>7. Unit = CHOOSE g : Is(g)
    BY Zenon DEF Unit
  <1>8. Is(Unit)
    BY <1>6, <1>7, Zenon
  <1>9. Unit[0] = 1 /\ \A k \in 1 .. 7 : Unit[k] = KILO * Unit[k - 1]
    BY <1>8
  <1> DEFINE P == {k \in 0 .. 7 : Unit[k] \in Nat \ {0}}
  <1>10. 0 \in P
    BY <1>9
  <1>11. ASSUME NEW k \in 1 .. 7, k - 1 \in P PROVE k \in P
    BY <1>9, <1>11, Times
  <1> HIDE DEF P
  <1>12. \A k \in 0 .. 7 : k \in P
    BY <1>10, <1>11, Induction
  <1>13. \A k \in 0 .. 7 : Unit[k] \in Nat \ {0}
    BY <1>12 DEF P
  <1>14. ASSUME NEW k \in 0 .. 6 PROVE Unit[k] < Unit[k + 1]
    <2>1. Unit[k + 1] = KILO * Unit[k]
      <3>1. k + 1 \in 1 .. 7 /\ (k + 1) - 1 = k
        OBVIOUS
      <3> QED
        BY <1>9, <3>1
    <2>2. Unit[k] \in Nat \ {0}
      BY <1>13
    <2> QED
      BY <2>1, <2>2, Times
  <1> QED
    BY <1>9, <1>13, <1>14

LEMMA Larger ==
    ASSUME NEW j \in 0 .. 7, NEW k \in 0 .. 7, j <= k
    PROVE  Unit[j] <= Unit[k]
  <1> DEFINE P == {n \in 0 .. k - j : Unit[j] <= Unit[j + n]}
  <1>1. k - j \in Nat /\ k - j \in 0 .. k - j /\ j + (k - j) = k
    OBVIOUS
  <1>2. 0 \in P
    BY <1>1, Units
  <1>3. ASSUME NEW n \in 1 .. k - j, n - 1 \in P PROVE n \in P
    <2>1. j + (n - 1) \in 0 .. 6 /\ (j + (n - 1)) + 1 = j + n /\ j + n \in 0 .. 7
      OBVIOUS
    <2>2. Unit[j + (n - 1)] < Unit[j + n]
      BY <2>1, Units
    <2>3. Unit[j] <= Unit[j + (n - 1)]
      BY <1>3
    <2>4. Unit[j] \in Nat /\ Unit[j + (n - 1)] \in Nat /\ Unit[j + n] \in Nat
      BY <2>1, Units
    <2> QED
      BY <2>2, <2>3, <2>4
  <1> HIDE DEF P
  <1>4. k - j \in P
    BY <1>1, <1>2, <1>3, Induction
  <1> QED
    BY <1>1, <1>4 DEF P

(***************************************************************************)
(* The unit of a number of bytes is the largest there is at least one of.  *)
(***************************************************************************)
LEMMA UnitOfIs ==
    ASSUME NEW bytes \in Nat, bytes < Unit[7]
    PROVE  /\ UnitOf(bytes) \in 0 .. 6
           /\ bytes >= Unit[UnitOf(bytes)] \/ UnitOf(bytes) = 0
           /\ bytes < Unit[UnitOf(bytes) + 1]
           /\ bytes < Unit[6] => UnitOf(bytes) \in 0 .. 5
  <1> DEFINE above == {k \in 1 .. 7 : bytes < Unit[k]}
  <1>1. above \subseteq Nat /\ above # {}
    <2>1. 7 \in 1 .. 7
      OBVIOUS
    <2> QED
      BY <2>1
  <1>2. PICK n \in above : \A j \in above : n <= j
    BY <1>1, LeastOf
  <1>3. n \in 1 .. 7 /\ bytes < Unit[n]
    OBVIOUS
  <1>4. \A k \in 1 .. 7 : Unit[k] \in Nat
    BY Units
  <1>5. ASSUME NEW k \in 1 .. 6 PROVE bytes >= Unit[k] <=> k \in 1 .. n - 1
    <2>1. CASE k < n
      <3>1. k \notin above
        BY <1>2, <2>1
      <3> QED
        BY <1>4, <2>1, <3>1
    <2>2. CASE k >= n
      <3>1. Unit[n] <= Unit[k]
        BY <1>3, <2>2, Larger
      <3>2. Unit[n] \in Nat /\ Unit[k] \in Nat
        BY <1>3, <1>4
      <3> QED
        BY <1>3, <2>2, <3>1, <3>2
    <2> QED
      BY <1>3, <2>1, <2>2
  <1>6. {k \in 1 .. 6 : bytes >= Unit[k]} = 1 .. n - 1
    BY <1>3, <1>5
  <1>7. Cardinality(1 .. n - 1) = n - 1
    BY <1>3, FS_Interval
  <1>8. UnitOf(bytes) = n - 1
    BY <1>6, <1>7 DEF UnitOf
  <1>9. bytes >= Unit[n - 1] \/ n - 1 = 0
    BY <1>3, <1>5
  <1>10. bytes < Unit[6] => n <= 6
    <2>1. bytes < Unit[6] => 6 \in above
      OBVIOUS
    <2> QED
      BY <1>2, <1>3, <2>1
  <1> HIDE DEF above
  <1> QED
    BY <1>3, <1>8, <1>9, <1>10

LEMMA RoundedIs ==
    ASSUME NEW x \in Nat, NEW y \in Nat \ {0}
    PROVE  /\ Rounded(x, y) \in Nat
           /\ 2 * (Rounded(x, y) * y - x) <= y
           /\ 2 * (x - Rounded(x, y) * y) <= y
  <1> DEFINE q == x \div y
             r == x % y
             p == q * y
  <1>1. q \in Nat /\ r \in Nat /\ r < y /\ x = p + r /\ p \in Nat
    OBVIOUS
  <1>2. (q + 1) * y = p + y
    BY <1>1
  <1>6. Rounded(x, y) = IF 2 * r > y \/ (2 * r = y /\ q % 2 = 1) THEN q + 1 ELSE q
    BY DEF Rounded
  <1> HIDE DEF p, q, r
  <1>3. \/ Rounded(x, y) = q + 1 /\ 2 * r >= y
        \/ Rounded(x, y) = q /\ 2 * r <= y
    BY <1>1, <1>6
  <1>4. CASE Rounded(x, y) = q + 1 /\ 2 * r >= y
    <2>1. Rounded(x, y) * y = p + y
      BY <1>2, <1>4
    <2> QED
      BY <1>1, <1>4, <2>1
  <1>5. CASE Rounded(x, y) = q /\ 2 * r <= y
    <2>1. Rounded(x, y) * y = p
      BY <1>5 DEF p
    <2> QED
      BY <1>1, <1>5, <2>1
  <1> QED
    BY <1>3, <1>4, <1>5

LEMMA RoundedOf ==
    \A x \in Nat : \A y \in Nat \ {0} :
       /\ Rounded(x, y) \in Nat
       /\ 2 * (Rounded(x, y) * y - x) <= y /\ 2 * (x - Rounded(x, y) * y) <= y
  BY RoundedIs

(***************************************************************************)
(* Doubles: their spacing is the least that reaches as far as the number,  *)
(* and a number is at most half of it away from its double.                *)
(***************************************************************************)
Reaches(s, d) == d < s * MANTISSA

LEMMA LeastReaches ==
    ASSUME NEW d, Reaches(Widest, d)
    PROVE  \E s \in Spacings : /\ Reaches(s, d)
                               /\ \A t \in Spacings : Reaches(t, d) => s <= t
  <1> DEFINE S == {s \in Spacings : Reaches(s, d)}
  <1>1. S \subseteq Nat /\ S # {}
    <2>1. Spacings \subseteq Nat /\ Widest \in Spacings
      BY DEF Spacings, Widest
    <2> QED
      BY <2>1
  <1> HIDE DEF S
  <1>2. PICK s \in S : \A t \in S : s <= t
    BY <1>1, LeastOf
  <1> QED
    BY <1>2 DEF S

LEMMA SpacingIs ==
    ASSUME NEW d \in Nat, d < Widest * MANTISSA
    PROVE  /\ Spacing(d) \in Spacings /\ d < Spacing(d) * MANTISSA
           /\ \A t \in Spacings : d < t * MANTISSA => Spacing(d) <= t
  <1> DEFINE Is(s) == d < s * MANTISSA /\ \A t \in Spacings : d < t * MANTISSA => s <= t
  <1>1. \E s \in Spacings : Is(s)
    BY LeastReaches, Zenon DEF Reaches
  <1>2. Spacing(d) = CHOOSE s \in Spacings : Is(s)
    BY Zenon DEF Spacing
  <1> HIDE DEF Is
  <1>3. Spacing(d) \in Spacings /\ Is(Spacing(d))
    BY <1>1, <1>2, Zenon
  <1> QED
    BY <1>3, Zenon DEF Is

LEMMA SpacingType == \A s \in Spacings : s \in Nat \ {0}
  BY DEF Spacings, Widest

LEMMA HalfSpacing ==
    ASSUME NEW s \in Spacings, s # 1
    PROVE  \E t \in Spacings : s = 2 * t /\ t < s
  <1>1. \A x : x \in {1, 2, 4, 8, 16, 32, 64, 128, 256, 512, 1024} => x \in Spacings
    BY DEF Spacings
  <1>2. \E x \in {1, 2, 4, 8, 16, 32, 64, 128, 256, 512, 1024} : s = 2 * x
    BY DEF Spacings, Widest
  <1> QED
    BY <1>1, <1>2

LEMMA MultipleBelow ==
    ASSUME NEW s \in Nat \ {0}, NEW u \in Nat, u % s = 0, NEW d \in Nat, u <= d
    PROVE  u <= s * (d \div s)
  <1> DEFINE a == u \div s
             q == d \div s
             r == d % s
  <1>1. a \in Nat /\ q \in Nat /\ r \in Nat /\ u = s * a /\ d = s * q + r /\ r < s
    OBVIOUS
  <1> HIDE DEF a, q, r
  <1>2. a <= q
    <2>1. SUFFICES ASSUME q + 1 <= a PROVE FALSE
      BY <1>1
    <2>2. s * (q + 1) <= s * a
      BY <1>1, <2>1
    <2>3. s * (q + 1) = s * q + s
      BY <1>1
    <2> QED
      BY <1>1, <2>2, <2>3
  <1>3. s * a <= s * q
    BY <1>1, <1>2
  <1> QED
    BY <1>1, <1>3 DEF q

LEMMA DoubleIs ==
    ASSUME NEW d \in Nat, d < Widest * MANTISSA
    PROVE  /\ Double(d) \in Nat /\ Spacing(d) \in Nat
           /\ 2 * (Double(d) - d) <= Spacing(d) /\ 2 * (d - Double(d)) <= Spacing(d)
           /\ d < MANTISSA => Double(d) = d
           /\ d >= MANTISSA => Double(d) >= Unit[5]
           /\ d >= Unit[6] => Double(d) >= Unit[6]
  <1> DEFINE s == Spacing(d)
             n == Rounded(d, s)
  <1>1. s \in Spacings /\ s \in Nat \ {0} /\ d < s * MANTISSA
    BY SpacingIs, SpacingType
  <1>2. \A t \in Spacings : d < t * MANTISSA => s <= t
    BY SpacingIs
  <1>3. MANTISSA \in Nat /\ Unit[5] < MANTISSA /\ Unit[5] \in Nat /\ Unit[6] \in Nat
    BY DoublesAssumption, Units
  <1>4. Double(d) = s * n
    BY DEF Double
  <1>5. n = IF 2 * (d % s) > s \/ (2 * (d % s) = s /\ (d \div s) % 2 = 1)
            THEN d \div s + 1 ELSE d \div s
    BY DEF Rounded
  <1> HIDE DEF s
  <1>6. n \in Nat /\ 2 * (n * s - d) <= s /\ 2 * (d - n * s) <= s
    BY <1>1, RoundedIs
  <1>7. d \div s \in Nat /\ n >= d \div s
    BY <1>1, <1>5
  <1> HIDE DEF n
  <1>8. s * n = n * s /\ s * n \in Nat
    BY <1>1, <1>6
  <1>9. ASSUME d < MANTISSA PROVE Double(d) = d
    <2>1. 1 \in Spacings /\ 1 * MANTISSA = MANTISSA
      BY <1>3 DEF Spacings
    <2>2. s = 1
      BY <1>1, <1>2, <1>9, <2>1
    <2>3. d % 1 = 0 /\ d \div 1 = d
      OBVIOUS
    <2>4. n = d
      BY <1>5, <2>2, <2>3
    <2> QED
      BY <1>4, <2>2, <2>4
  <1>10. ASSUME d >= MANTISSA PROVE Double(d) >= Unit[5]
    <2>1. s # 1
      BY <1>1, <1>3, <1>10
    <2>2. PICK t \in Spacings : s = 2 * t /\ t < s
      BY <1>1, <2>1, HalfSpacing
    <2>3. t \in Nat \ {0} /\ t * MANTISSA \in Nat
      BY <1>3, SpacingType
    <2>4. t * MANTISSA <= d
      BY <1>1, <1>2, <2>2, <2>3
    <2>5. d - s * n <= t
      BY <1>1, <1>6, <1>8, <2>2, <2>3
    <2>6. s * n >= t * MANTISSA - t
      BY <1>8, <2>3, <2>4, <2>5
    <2>7. t * MANTISSA - t >= MANTISSA - 1
      <3>1. t * MANTISSA - t = t * (MANTISSA - 1)
        BY <1>3, <2>3
      <3>2. MANTISSA - 1 \in Nat
        BY <1>3
      <3>3. t * (MANTISSA - 1) >= 1 * (MANTISSA - 1)
        BY <2>3, <3>2
      <3> QED
        BY <3>1, <3>2, <3>3
    <2> QED
      BY <1>3, <1>4, <1>8, <2>3, <2>6, <2>7
  <1>11. ASSUME d >= Unit[6] PROVE Double(d) >= Unit[6]
    <2>1. Unit[6] % s = 0
      BY <1>1, DoublesAssumption
    <2>2. Unit[6] <= s * (d \div s)
      BY <1>1, <1>3, <1>11, <2>1, MultipleBelow
    <2>3. s * (d \div s) <= s * n /\ s * (d \div s) \in Nat
      BY <1>1, <1>6, <1>7
    <2> QED
      BY <1>3, <1>4, <1>8, <2>2, <2>3
  <1> QED
    BY <1>1, <1>4, <1>6, <1>8, <1>9, <1>10, <1>11 DEF s

(***************************************************************************)
(* A number that is near to a double is near to its number.                *)
(***************************************************************************)
LEMMA NearDouble ==
    ASSUME NEW d \in Nat, d < Widest * MANTISSA, NEW n \in Nat, NEW unit \in Nat,
           2 * (n * unit - 10 * Double(d)) <= unit,
           2 * (10 * Double(d) - n * unit) <= unit
    PROVE  Near(n, unit, d)
  <1> DEFINE D == Double(d)
             s == Spacing(d)
             p == n * unit
  <1>1. /\ D \in Nat /\ s \in Nat /\ 2 * (D - d) <= s /\ 2 * (d - D) <= s
        /\ d < MANTISSA => D = d
    BY DoubleIs
  <1>2. p \in Nat /\ 2 * (p - 10 * D) <= unit /\ 2 * (10 * D - p) <= unit
    OBVIOUS
  <1>3. Error(d) = IF d < MANTISSA THEN 0 ELSE 10 * s
    BY DEF Error
  <1> HIDE DEF D, s, p
  <1>4. 2 * (p - 10 * d) <= unit + Error(d) /\ 2 * (10 * d - p) <= unit + Error(d)
    BY <1>1, <1>2, <1>3
  <1> QED
    BY <1>4 DEF Near, p

LEMMA SizeIsRight ==
    ASSUME NEW bytes \in Nat, bytes < Unit[7], bytes < Widest * MANTISSA
    PROVE  IsSize(formatBytes(bytes), bytes)
  <1> DEFINE k == UnitOf(bytes)
             D == Double(bytes)
  <1>1. /\ k \in 0 .. 6
        /\ bytes >= Unit[k] \/ k = 0
        /\ bytes < Unit[k + 1]
    BY UnitOfIs
  <1>2. D \in Nat /\ 10 * D \in Nat
    BY DoubleIs
  <1>3. Unit[k] \in Nat \ {0}
    BY <1>1, Units
  <1> DEFINE n == Rounded(10 * D, Unit[k])
  <1>4. formatBytes(bytes) = [n |-> n, unit |-> Letters[k + 1]]
    BY DEF formatBytes, Sized, Text
  <1> HIDE DEF k
  <1>5. /\ n \in Nat
        /\ 2 * (n * Unit[k] - 10 * D) <= Unit[k] /\ 2 * (10 * D - n * Unit[k]) <= Unit[k]
    <2> DEFINE x == 10 * D
               y == Unit[k]
    <2>1. x \in Nat /\ y \in Nat \ {0}
      BY <1>2, <1>3
    <2> HIDE DEF x, y
    <2>2. /\ Rounded(x, y) \in Nat
          /\ 2 * (Rounded(x, y) * y - x) <= y /\ 2 * (x - Rounded(x, y) * y) <= y
      BY <2>1, RoundedOf, Zenon
    <2> QED
      BY <2>2 DEF x, y
  <1> HIDE DEF n
  <1>6. Near(n, Unit[k], bytes)
    BY <1>3, <1>5, NearDouble
  <1>7. formatBytes(bytes).unit = Letters[k + 1] /\ formatBytes(bytes).n = n
    BY <1>4
  <1> QED
    BY <1>1, <1>6, <1>7 DEF IsSize

LEMMA MegabytesAreRight ==
    ASSUME NEW d \in Nat, d < Widest * MANTISSA
    PROVE  InMegabytes(d).unit = "M" /\ Near(InMegabytes(d).n, Unit[2], d)
  <1> DEFINE x == 20 * Double(d) + Unit[2]
             y == 2 * Unit[2]
             n == x \div y
  <1>1. Double(d) \in Nat /\ Unit[2] \in Nat \ {0}
    BY DoubleIs, Units
  <1>2. x \in Nat /\ y \in Nat \ {0}
    BY <1>1
  <1>3. InMegabytes(d) = [n |-> n, unit |-> "M"]
    BY DEF InMegabytes, Text
  <1>4. n \in Nat /\ n * y <= x /\ x < n * y + y
    <2> HIDE DEF x, y
    <2> QED
      BY <1>2
  <1>5. n * y = 2 * (n * Unit[2])
    <2>1. n \in Nat
      BY <1>4
    <2> HIDE DEF n
    <2> QED
      BY <1>1, <2>1
  <1> HIDE DEF n
  <1>6. n * Unit[2] \in Nat
    BY <1>1, <1>4
  <1>7. /\ 2 * (n * Unit[2] - 10 * Double(d)) <= Unit[2]
        /\ 2 * (10 * Double(d) - n * Unit[2]) <= Unit[2]
    BY <1>1, <1>4, <1>5, <1>6
  <1>8. Near(n, Unit[2], d)
    BY <1>1, <1>4, <1>7, NearDouble
  <1> QED
    BY <1>3, <1>8

(***************************************************************************)
(* The C server and the Go server find the same unit, as long as the       *)
(* double of the number is below Unit[6].                                  *)
(***************************************************************************)
LEMMA SameUnit ==
    ASSUME NEW d \in Nat, d < Unit[7], d < Widest * MANTISSA, Double(d) < Unit[6]
    PROVE  UnitOf(Double(d)) = UnitOf(d) /\ UnitOf(d) \in 0 .. 5
  <1>1. /\ Double(d) \in Nat /\ d < Unit[6]
        /\ d < MANTISSA => Double(d) = d
        /\ d >= MANTISSA => Double(d) >= Unit[5]
    <2>1. Unit[6] \in Nat
      BY Units
    <2> QED
      BY <2>1, DoubleIs
  <1>2. MANTISSA \in Nat /\ Unit[5] < MANTISSA
    BY DoublesAssumption
  <1>3. \A k \in 0 .. 7 : Unit[k] \in Nat
    BY Units
  <1>4. Unit[6] < Unit[7]
    <2>1. 6 \in 0 .. 6 /\ 6 + 1 = 7
      OBVIOUS
    <2> QED
      BY <2>1, Units
  <1>5. ASSUME NEW x \in Nat, x < Unit[6], x >= Unit[5] PROVE UnitOf(x) = 5
    <2> DEFINE k == UnitOf(x)
    <2>1. k \in 0 .. 5 /\ x < Unit[k + 1]
      <3>1. x < Unit[7]
        BY <1>3, <1>4, <1>5
      <3> QED
        BY <1>5, <3>1, UnitOfIs
    <2> HIDE DEF k
    <2>2. SUFFICES ASSUME k # 5 PROVE FALSE
      BY DEF k
    <2>3. k + 1 \in 0 .. 7 /\ 5 \in 0 .. 7 /\ k + 1 <= 5
      BY <2>1, <2>2
    <2>4. Unit[k + 1] <= Unit[5]
      BY <2>3, Larger
    <2> QED
      BY <1>3, <1>5, <2>1, <2>3, <2>4
  <1>6. UnitOf(d) \in 0 .. 5
    BY <1>1, UnitOfIs
  <1>7. CASE d < MANTISSA
    BY <1>1, <1>6, <1>7
  <1>8. CASE d >= MANTISSA
    <2>1. UnitOf(Double(d)) = 5
      BY <1>1, <1>5, <1>8
    <2>2. d >= Unit[5]
      BY <1>2, <1>3, <1>8
    <2>3. UnitOf(d) = 5
      BY <1>1, <1>5, <2>2
    <2> QED
      BY <2>1, <2>3
  <1> QED
    BY <1>2, <1>7, <1>8

LEMMA LastUnit ==
    ASSUME NEW x \in Nat, x >= Unit[6]
    PROVE  UnitOf(x) = 6
  <1>1. \A k \in 0 .. 7 : Unit[k] \in Nat
    BY Units
  <1>2. ASSUME NEW k \in 1 .. 6 PROVE x >= Unit[k]
    <2>1. Unit[k] <= Unit[6]
      BY Larger
    <2> QED
      BY <1>1, <2>1
  <1>3. {k \in 1 .. 6 : x >= Unit[k]} = 1 .. 6
    BY <1>2
  <1>4. Cardinality(1 .. 6) = 6
    <2>1. \A n \in Nat : Cardinality(1 .. n) = n
      BY FS_Interval
    <2> QED
      BY <2>1
  <1> QED
    BY <1>3, <1>4 DEF UnitOf

LEMMA SizesAgree ==
    ASSUME NEW d \in Nat, d < Unit[7], d < Widest * MANTISSA
    PROVE  IF Double(d) < Unit[6] THEN format_bytes(d) = formatBytes(d)
                                  ELSE format_bytes(d).unit = NoLetter
  <1>1. CASE Double(d) < Unit[6]
    <2> DEFINE k == UnitOf(d)
    <2>1. UnitOf(Double(d)) = k /\ k \in 0 .. 5
      BY <1>1, SameUnit
    <2>2. /\ LettersOfC[1] = Letters[1] /\ LettersOfC[2] = Letters[2]
          /\ LettersOfC[3] = Letters[3] /\ LettersOfC[4] = Letters[4]
          /\ LettersOfC[5] = Letters[5] /\ LettersOfC[6] = Letters[6]
      BY DEF Letters, LettersOfC
    <2>3. \A j \in 0 .. 5 : LettersOfC[j + 1] = Letters[j + 1]
      <3>1. \A j \in 0 .. 5 : j = 0 \/ j = 1 \/ j = 2 \/ j = 3 \/ j = 4 \/ j = 5
        OBVIOUS
      <3> QED
        BY <2>2, <3>1
    <2> QED
      BY <1>1, <2>1, <2>3 DEF format_bytes, formatBytes, Sized, Text
  <1>2. CASE ~ (Double(d) < Unit[6])
    <2>1. Double(d) \in Nat /\ Unit[6] \in Nat
      BY DoubleIs, Units
    <2>2. UnitOf(Double(d)) = 6
      BY <1>2, <2>1, LastUnit
    <2>3. LettersOfC[6 + 1] = NoLetter
      BY DEF LettersOfC
    <2>4. format_bytes(d).unit = LettersOfC[6 + 1]
      BY <2>2 DEF format_bytes, Sized, Text
    <2> QED
      BY <1>2, <2>3, <2>4
  <1> QED
    BY <1>1, <1>2

LEMMA InvTexts == Inv => TextsAreRight
  <1> SUFFICES ASSUME Inv, NEW i \in {1, 2}
               PROVE  LET d == machines[i].seconds IN
                      /\ IsAge(AgeOnPage(d), IF d < 0 THEN 0 ELSE d)
                      /\ d \in 0 .. DAY - 1 => IsAge(AgeInGo(d), d)
                      /\ d >= 0 =>
                           /\ IsUptime(format_uptime(d), d)
                           /\ IsSize(formatBytes(d), d)
                           /\ IF Double(d) < Unit[6] THEN format_bytes(d) = formatBytes(d)
                                                     ELSE format_bytes(d).unit = NoLetter
                           /\ InMegabytes(d).unit = "M"
                           /\ Near(InMegabytes(d).n, Unit[2], d)
    BY DEF TextsAreRight
  <1> DEFINE d == machines[i].seconds
  <1>1. d \in Int /\ d < Unit[7] /\ d < Widest * MANTISSA
    <2>1. machines[i] \in Machines
      BY DEF Inv
    <2> QED
      BY <2>1, MachinesAssumption
  <1> HIDE DEF d
  <1>2. IsAge(AgeOnPage(d), IF d < 0 THEN 0 ELSE d)
    <2>1. (IF d < 0 THEN 0 ELSE d) \in Nat
      BY <1>1
    <2> QED
      BY <2>1, AgeIsRight DEF AgeOnPage
  <1>3. d \in 0 .. DAY - 1 => IsAge(AgeInGo(d), d)
    BY AgeInGoIsRight
  <1>4. ASSUME d >= 0
        PROVE  /\ IsUptime(format_uptime(d), d) /\ IsSize(formatBytes(d), d)
               /\ IF Double(d) < Unit[6] THEN format_bytes(d) = formatBytes(d)
                                         ELSE format_bytes(d).unit = NoLetter
               /\ InMegabytes(d).unit = "M" /\ Near(InMegabytes(d).n, Unit[2], d)
    <2>1. d \in Nat
      BY <1>1, <1>4
    <2>2. IsUptime(format_uptime(d), d)
      BY <2>1, UptimeIsRight
    <2>3. IsSize(formatBytes(d), d)
      BY <1>1, <2>1, SizeIsRight
    <2>4. IF Double(d) < Unit[6] THEN format_bytes(d) = formatBytes(d)
                                 ELSE format_bytes(d).unit = NoLetter
      BY <1>1, <2>1, SizesAgree
    <2>5. InMegabytes(d).unit = "M" /\ Near(InMegabytes(d).n, Unit[2], d)
      BY <1>1, <2>1, MegabytesAreRight
    <2> QED
      BY <2>2, <2>3, <2>4, <2>5
  <1> QED
    BY <1>2, <1>3, <1>4 DEF d

(***************************************************************************)
(* Ages, uptimes and sizes are written right (TextsAreRight).              *)
(***************************************************************************)
THEOREM TextsCorrect == Spec => []TextsAreRight
  BY InvCorrect, InvTexts, PTL
=============================================================================
