------------------------------ MODULE MCWebUI ------------------------------
(***************************************************************************)
(* Values of WebUI's constants for TLC.                                    *)
(***************************************************************************)
EXTENDS WebUI

CONSTANTS c1, c2, f1, f2, i1, i2

MCClients == {c1, c2}
MCFetches == {f1, f2}
MCTimers == {i1, i2}

(***************************************************************************)
(* Every identifier is inside the onclick of its own item, and c1 is a     *)
(* part of c2.                                                             *)
(***************************************************************************)
MCInside == {<<c1, c1>>, <<c2, c2>>, <<c1, c2>>}
MCSame == {<<c1, c1>>, <<c2, c2>>}
=============================================================================
