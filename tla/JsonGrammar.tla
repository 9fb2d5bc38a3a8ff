---------------------------- MODULE JsonGrammar ----------------------------
(***************************************************************************)
(* What JsonParser's texts are to it: the grammar of JSON, and that the    *)
(* parser accepts what the grammar describes.                              *)
(***************************************************************************)
EXTENDS JsonParser

-----------------------------------------------------------------------------
(***************************************************************************)
(* The texts the parser should accept: JSON, with a comma allowed after    *)
(* the last member or item, and no name twice in an object.  The grammar   *)
(* says which stretches of a text are a value, and which are the rest of   *)
(* an object or an array, from a member or an item on up to its closing    *)
(* bracket; depth counts the brackets around, used has the names that the  *)
(* object has already.                                                     *)
(***************************************************************************)
Containers == {"object", "array"}
Kinds == {"value"} \union Containers
Open(type) == IF type = "object" THEN "{" ELSE "["
Close(type) == IF type = "object" THEN "}" ELSE "]"

Phrases(t) ==
    [kind : Kinds, from : 1 .. Len(t), to : 1 .. Len(t),
     depth : 0 .. MAX_NESTING + 1, used : SUBSET Keys]

Phrase(kind, i, j, depth, used) ==
    [kind |-> kind, from |-> i, to |-> j, depth |-> depth, used |-> used]

UsedWith(type, used, key) == IF type = "object" THEN used \union {key} ELSE {}

(***************************************************************************)
(* The rules, by which a phrase is made of shorter ones: is tells whether  *)
(* those are what they are taken for.                                      *)
(***************************************************************************)
MakeValue(t, is, i, j, depth) ==
    /\ depth <= MAX_NESTING
    /\ \/ i = j /\ t[i] \in Strings \union {"lit"}
       \/ \E type \in Containers :
             /\ i < j /\ t[i] = Open(type)
             /\ is[Phrase(type, i + 1, j, depth + 1, {})]

MakeMember(t, is, type, i, j, depth, used) ==
    \/ /\ type = "array"
       /\ is[Phrase("value", i, j, depth, {})]
    \/ /\ type = "object"
       /\ i + 2 <= j /\ t[i] \in Keys \ used /\ t[i + 1] = ":"
       /\ is[Phrase("value", i + 2, j, depth, {})]

MakeEnd(t, is, type, i, j, depth, used) ==
    \/ i = j /\ t[i] = Close(type)
    \/ i < j /\ t[i] = "," /\ is[Phrase(type, i + 1, j, depth, used)]

MakeRest(t, is, type, i, j, depth, used) ==
    \/ i = j /\ t[i] = Close(type)
    \/ \E m \in i .. j - 1 :
          /\ MakeMember(t, is, type, i, m, depth, used)
          /\ MakeEnd(t, is, type, m + 1, j, depth, UsedWith(type, used, t[i]))

Grammar(t) ==
    LET is[p \in Phrases(t)] ==
          IF p.kind = "value"
          THEN MakeValue(t, is, p.from, p.to, p.depth)
          ELSE MakeRest(t, is, p.kind, p.from, p.to, p.depth, p.used)
    IN  is

IsValue(t, i, j, depth) == Grammar(t)[Phrase("value", i, j, depth, {})]

IsText(t) == \E n \in 1 .. Len(t) : IsValue(t, 1, n, 0)

-----------------------------------------------------------------------------
(***************************************************************************)
(* While memory lasts, a text is accepted if and only if it begins with a  *)
(* value of the grammar above.                                             *)
(***************************************************************************)
AcceptsTheGrammar ==
    mode = "parsed" /\ failures = 0 => (ret # NULL <=> IsText(text))
=============================================================================
