----------------------------- MODULE MCGoServer -----------------------------
(***************************************************************************)
(* Values of GoServer's constants for TLC.                                 *)
(***************************************************************************)
EXTENDS GoServer, TLC

CONSTANTS t1, t2, c1, c2

MCThreads == {t1, t2}
MCClients == {c1, c2}

Put(c) == [method |-> "POST", path |-> "put", body |-> c]
Get(p) == [method |-> "GET", path |-> p, body |-> NoBody]

MCEveryRoute ==
    {Put(b) : b \in ClientIds \union {BadBody}} \union {Get(p) : p \in Paths}

Permutable == Permutations(Threads) \union Permutations(ClientIds)
=============================================================================
