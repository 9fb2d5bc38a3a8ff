---------------------------- MODULE MCFraming ----------------------------
(***************************************************************************)
(* Values of Framing's constants for TLC: reports of one to three units to *)
(* each kind of URL, a first buffer that holds the header and two units of *)
(* the longest, and a prefix with the letters ok.                          *)
(***************************************************************************)
EXTENDS Framing

MCBodies == {<<"b1">>, <<"b1", "b2">>, <<"b1", "b2", "b3">>}
MCTargets == Paths
MCReaders == {"recv", "net/http"}
=============================================================================
