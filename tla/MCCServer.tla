----------------------------- MODULE MCCServer -----------------------------
(***************************************************************************)
(* Values of CServer's constants for TLC.                                  *)
(***************************************************************************)
EXTENDS CServer, TLC

CONSTANTS t1, t2, c1, c2

MCTwoThreads == {t1, t2}

(***************************************************************************)
(* Two or three machines, one of them with an empty client_id, as from a   *)
(* body without that member.                                               *)
(***************************************************************************)
MCClients == {c1, EmptyId}
MCThreeClients == {c1, c2, EmptyId}

Put(c) == [method |-> "POST", path |-> {"put"}, body |-> c]
GetData == [method |-> "GET", path |-> {"data"}, body |-> NoBody]
GetIndex == [method |-> "GET", path |-> {"index.html"}, body |-> NoBody]

MCPutsAndData == {Put(c) : c \in ClientIds} \union {GetData}

(***************************************************************************)
(* Every way through the routing.                                          *)
(***************************************************************************)
MCEveryRoute ==
    {Put(c1), GetIndex, GetData,
     [method |-> "GET", path |-> {}, body |-> NoBody],
     [method |-> "GET", path |-> {"put"}, body |-> NoBody],
     [method |-> "GET", path |-> {"index.html", "data"}, body |-> NoBody],
     [method |-> "POST", path |-> {"put"}, body |-> BadBody],
     [method |-> "POST", path |-> {"data"}, body |-> c1],
     [method |-> "PUT", path |-> {"put"}, body |-> c1]}

MCPutsAndRoutes == {Put(c) : c \in ClientIds} \union MCEveryRoute

Permutable == Permutations(Threads) \union Permutations({c1, c2})
=============================================================================
