---------------------------- MODULE MCReportPath ----------------------------
(***************************************************************************)
(* Values of ReportPath's constants for TLC: machines that differ in their *)
(* texts, in their interfaces, or in their numbers.  A field of four holds *)
(* a text of two with room to spare and one of three just so.              *)
(***************************************************************************)
EXTENDS ReportPath

Link(name, mac, ipv4, ipv6) ==
    [name |-> name, label |-> name, mac |-> <<mac>>, ipv4 |-> ipv4, ipv6 |-> ipv6]
Mac == <<"a", "a">>
IP(n) == [i \in 1 .. n |-> "a"]

Eth0 == Link("eth0", Mac, <<IP(1)>>, <<IP(3)>>)
Eth1 == Link("eth1", Mac, <<IP(2)>>, <<>>)
LinksOfMachines ==
    {<<>>, <<Eth0>>, <<Link("eth0", Mac, <<IP(1), IP(2)>>, <<>>)>>,
     <<[Eth0 EXCEPT !.label = "eth0@if5"]>>,
     <<Link("lo", NoMac, <<IP(1)>>, <<IP(1)>>), Eth0>>,
     <<Link("tun0", NoMac, <<IP(2)>>, <<IP(1)>>)>>,
     <<Link("sit0", OddMac, <<>>, <<IP(1)>>)>>,
     <<Link("wlan0", Mac, <<IP(1)>>, <<>>), Eth0>>,
     <<Eth0, Eth1>>,
     <<Eth0, Eth1, Link("eth2", Mac, <<>>, <<>>)>>}

Texts == {<<"a">>, <<"quote">>, <<"newline">>, <<"control">>,
          <<"backslash", "n">>, <<"a", "a">>, <<"a", "a", "n">>}
Hostnames == Texts \union {<<>>, <<"space", "n", "newline", "a">>}

Machine(client, id, hostname, links, available) ==
    [client |-> client, commands |-> Commands,
     id |-> id, hostname |-> hostname, kernel |-> <<"n", "a">>, links |-> links,
     mem |-> [total |-> 4, free |-> 1, available |-> available],
     offset |-> IF client = "C" THEN 1 ELSE 0, seconds |-> 1]

(***************************************************************************)
(* Of the last numbers below Unit[6], 2^18 here, the third becomes the     *)
(* double below, the second lies half way and becomes Unit[6], like the     *)
(* first.                                                                  *)
(***************************************************************************)
Numbers == {-1, 0, 2 * DAY - 1, Unit[6] - 3, Unit[6] - 2} \union
    UNION {{u - 1, u} : u \in {MINUTE, HOUR, DAY, Unit[3], Unit[6]}}

MCMachines ==
    {Machine(c, id, <<"a">>, <<Eth0>>, 2) : c \in {"C", "Go"}, id \in Texts}
    \union {Machine(c, <<"a">>, h, <<Eth0>>, 0) : c \in {"C", "Go"}, h \in Hostnames}
    \union {Machine("C", <<"a">>, <<"a">>, l, 2) : l \in LinksOfMachines}
    \union {[Machine("Go", <<"a">>, <<"a">>, <<>>, 2)
               EXCEPT !.seconds = d, !.offset = 1] : d \in Numbers}
    \union {[Machine("Go", <<"a">>, <<"a">>, <<Eth0>>, 2)
               EXCEPT !.commands = cs, !.offset = 1] : cs \in {{"uname", "cat"}, {}}}

MCSkippedByC == {"lo", "wlan0"}
MCSkippedByGo == {"lo"}
=============================================================================
