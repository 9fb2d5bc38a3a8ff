------------------------------ MODULE MCAgents ------------------------------
(***************************************************************************)
(* Values of Agents' constants for TLC.                                    *)
(***************************************************************************)
EXTENDS Agents, TLC

CONSTANTS a1, a2, s1, s2, c1, c2, v1

MCAgentsOne == {a1}
MCAgentsTwo == {a1, a2}
MCOneServer == {s1}
MCTwoServers == {s1, s2}
MCOneUrl == <<s1>>
MCTwoUrls == <<s1, s2>>
MCViewers == {v1}
MCIds == {c1, c2}

\* Every client was given its identifier.
MCNamed(a) == IF a = a1 THEN {c1} ELSE {c2}

\* rand() gave both the same one.
MCCollided(a) == {c1}
=============================================================================
