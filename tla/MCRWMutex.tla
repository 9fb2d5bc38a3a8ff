----------------------------- MODULE MCRWMutex ------------------------------
(***************************************************************************)
(* Values of RWMutex's constants for TLC.                                  *)
(***************************************************************************)
EXTENDS RWMutex

CONSTANTS t1, t2, t3, t4

MCThreads == {t1, t2, t3, t4}
=============================================================================
