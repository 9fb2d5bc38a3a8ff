---------------------------- MODULE MCJsonParser ----------------------------
(***************************************************************************)
(* Values of JsonParser's constants for TLC.  Four keys, three of which    *)
(* start from one cell or its neighbour however large the table is, and a  *)
(* table that starts with two cells, so that it grows with the second and  *)
(* the third member (that of parson starts with 16 and grows with the      *)
(* twelfth, the last one of every report).                                 *)
(***************************************************************************)
EXTENDS JsonGrammar, SequencesExt

MCKeys == {"k1", "k2", "k3", "k4"}
MCHashOf == [k \in MCKeys |-> CASE k = "k1" -> 7 [] k = "k2" -> 15
                                [] k = "k3" -> 7 [] k = "k4" -> 6]

(***************************************************************************)
(* Objects of up to four members, every order of their keys, and nested    *)
(* values one level deeper than allowed.                                   *)
(***************************************************************************)
Member(k, v) == <<k, ":">> \o v
Object(keys, v) ==
    <<"{">> \o FoldLeft(LAMBDA t, k : t \o (IF t = <<>> THEN <<>> ELSE <<",">>)
                                        \o Member(k, v), <<>>, keys) \o <<"}">>
KeyOrders(n) == {s \in [1 .. n -> MCKeys] : \A i, j \in 1 .. n : s[i] = s[j] => i = j}
Report == <<"{", "k1", ":", "nul", ",", "k2", ":",
            "[", "{", "k1", ":", "k3", "}", ",", "[", "]", ",", "lit", "]", "}">>

Nested(n) == [i \in 1 .. n |-> "["] \o [i \in 1 .. n |-> "]"]

Valid == {Object(s, <<"lit">>) : s \in UNION {KeyOrders(n) : n \in 0 .. 4}}
         \union {Report, <<"lit">>, Nested(4),
                 <<"[", "lit", ",", "k1", ",", "nul", ",", "]">>}

(***************************************************************************)
(* What becomes of some of them when a token is lost, is put in or turns   *)
(* into another.                                                           *)
(***************************************************************************)
Tokens == MCKeys \union {"nul", "lit", "bad", "{", "}", "[", "]", ":", ","}
Edited(t) ==
    {RemoveAt(t, i) : i \in 1 .. Len(t)}
    \union {ReplaceAt(t, i, x) : i \in 1 .. Len(t), x \in Tokens}
    \union {InsertAt(t, i, x) : i \in 1 .. Len(t), x \in Tokens}

MCTexts == Valid \union {Nested(5)} \union UNION {Edited(t) : t \in
    {Report, Object(<<"k1", "k3", "k2">>, <<"lit">>),
     <<"[", "[", "[", "lit", "]", "]", "]">>,
     <<"[", "lit", ",", "k1", ",", "nul", ",", "]">>}}
=============================================================================
