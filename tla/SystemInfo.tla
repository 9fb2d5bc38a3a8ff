----------------------------- MODULE SystemInfo -----------------------------
(***************************************************************************)
(* What the clients find out about their machine, and how numbers become   *)
(* text: functions without state (common.c, client/main.go, and the page). *)
(***************************************************************************)
EXTENDS Integers, FiniteSets, Sequences, SequencesExt

CONSTANTS
    MAX_NETWORKS,
    KILO,                      \* what makes a unit the next: 1024
    MANTISSA,                  \* below it every number is a double: 2^53
    SkippedByC, SkippedByGo    \* interfaces with one of the skipped prefixes

ASSUME NetworksAssumption == MAX_NETWORKS \in Nat \ {0}
ASSUME KiloAssumption == KILO \in Nat \ {0, 1}

-----------------------------------------------------------------------------
(***************************************************************************)
(* Commands that the Go client can run on a machine; the C client calls    *)
(* the system, and reads /proc, itself.                                    *)
(***************************************************************************)
Commands == {"uname", "uptime", "ip", "cat"}

(***************************************************************************)
(* The host name is the second field of `uname -a`, split at white space:  *)
(* of a host name of several words the first, of one of none the next      *)
(* field, which is the kernel's release.                                   *)
(***************************************************************************)
Blank == <<>>
White == {"space", "newline"}
Ink(text) == {i \in 1 .. Len(text) : text[i] \notin White}

FirstWord(text) ==
    LET from == Min(Ink(text))
    IN  SubSeq(text, from, Min({i \in from .. Len(text) + 1 : i \notin Ink(text)}) - 1)

parseUname(m) ==
    IF "uname" \notin m.commands THEN Blank
    ELSE IF Ink(m.hostname) = {} THEN m.kernel ELSE FirstWord(m.hostname)

(***************************************************************************)
(* Interfaces.  A machine has a sequence of links, each with its hardware  *)
(* address (NoMac if there is none, OddMac for one that is not of six      *)
(* bytes) and its IPv4 and IPv6 addresses in their order; addresses are    *)
(* texts.  getifaddrs lists all links, then all IPv4 and then all IPv6     *)
(* addresses.                                                              *)
(***************************************************************************)
NoMac == <<"none">>
OddMac == <<"odd">>
NotSix == {NoMac, OddMac}

Entries(links, field) ==
    FlattenSeq([i \in 1 .. Len(links) |->
        [j \in 1 .. Len(links[i][field]) |->
            [name |-> links[i].name, field |-> field, addr |-> links[i][field][j]]]])

Getifaddrs(links) ==
    Entries(links, "mac") \o Entries(links, "ipv4") \o Entries(links, "ipv6")

NewNetwork(name) == [name |-> name, mac |-> Blank, ipv4 |-> Blank, ipv6 |-> Blank]

Named(nets, name) == {i \in 1 .. Len(nets) : nets[i].name = name}

(***************************************************************************)
(* One pass of get_network_info's loop.  The loop is left as soon as there *)
(* are MAX_NETWORKS networks, whatever is still to come.  An IPv6 address  *)
(* never starts a new network.                                             *)
(***************************************************************************)
Listed_Twice(nets, e) ==
    IF Len(nets) >= MAX_NETWORKS \/ e.name \in SkippedByC THEN nets
    ELSE Append(nets, [NewNetwork(e.name) EXCEPT ![e.field] = e.addr])
Listed(nets, e) ==
    IF \/ Len(nets) >= MAX_NETWORKS \/ e.name \in SkippedByC
       \/ e.addr \in NotSix
       \/ e.field = "ipv6" /\ Named(nets, e.name) = {}
    THEN nets
    ELSE IF Named(nets, e.name) # {}
         THEN [i \in 1 .. Len(nets) |-> IF nets[i].name = e.name
                  THEN [nets[i] EXCEPT ![e.field] = e.addr] ELSE nets[i]]
         ELSE Append(nets, [NewNetwork(e.name) EXCEPT ![e.field] = e.addr])

get_network_info(links) == FoldLeft(Listed, <<>>, Getifaddrs(links))

(***************************************************************************)
(* The Go client reads the output of `ip a`: every link that is not        *)
(* skipped, with the first address of each kind.  A link's label is what   *)
(* stands there for its name, which has its parent behind it if it has one *)
(* (eth0@if5); the prefixes that are skipped are the same of both.         *)
(***************************************************************************)
FirstOf(s) == IF s = <<>> \/ s[1] = NoMac THEN Blank ELSE s[1]

Noted(nets, l) ==
    IF l.name \in SkippedByGo THEN nets
    ELSE Append(nets, [name |-> l.label, mac |-> FirstOf(l.mac),
                       ipv4 |-> FirstOf(l.ipv4), ipv6 |-> FirstOf(l.ipv6)])

parseNetworkLinux(links, commands) ==
    IF "ip" \in commands THEN FoldLeft(Noted, <<>>, links) ELSE <<>>

(***************************************************************************)
(* get_memory and parseMemory: what is used is what is not available; a    *)
(* kernel that does not tell (or tells 0) has the C client take MemFree.   *)
(***************************************************************************)
UsedByC_Free(mem) == mem.total - mem.free
UsedByC(mem) == mem.total - (IF mem.available = 0 THEN mem.free ELSE mem.available)
UsedByGo(mem, commands) == IF "cat" \in commands THEN mem.total - mem.available ELSE 0

(***************************************************************************)
(* Seconds since the machine was started.  The Go client reads the local   *)
(* time of the start from `uptime -s` and takes it for UTC; where there is *)
(* no such command it reads /proc/uptime, like the C client, with cat.     *)
(***************************************************************************)
get_uptime(up) == up
parseUptime(up, offset, commands) ==
    IF "uptime" \in commands THEN up - offset
    ELSE IF "cat" \in commands THEN up ELSE 0

-----------------------------------------------------------------------------
(***************************************************************************)
(* Text.  A number of seconds ago, as the page of the C server writes it   *)
(* when it is generated (AgeOnPage), as its script does on each refresh    *)
(* (AgeText itself, without the clamp), and as the page of the Go server   *)
(* does.  A text is a number and a unit.                                   *)
(***************************************************************************)
MINUTE == 60
HOUR == 3600
DAY == 86400

Text(n, unit) == [n |-> n, unit |-> unit]

AgeText_DaysFrom25Hours(d) ==
    IF d >= DAY + HOUR THEN Text(d \div DAY, "d")
    ELSE IF d >= HOUR THEN Text(d \div HOUR, "h")
    ELSE IF d >= MINUTE THEN Text(d \div MINUTE, "m") ELSE Text(d, "s")
AgeText(d) ==
    IF d >= DAY THEN Text(d \div DAY, "d")
    ELSE IF d >= HOUR THEN Text(d \div HOUR, "h")
    ELSE IF d >= MINUTE THEN Text(d \div MINUTE, "m") ELSE Text(d, "s")

AgeOnPage(d) == AgeText(IF d < 0 THEN 0 ELSE d)

(***************************************************************************)
(* d/24*time.Hour divides first and multiplies then.  A Duration counts    *)
(* nanoseconds, where the product also wraps at 64 bits; here it counts    *)
(* seconds.                                                                *)
(***************************************************************************)
AgeInGo(d) ==
    IF d >= DAY THEN Text((d \div 24) * HOUR, "d")
    ELSE IF d >= HOUR THEN Text(d \div HOUR, "h")
    ELSE IF d >= MINUTE THEN Text(d \div MINUTE, "m") ELSE Text(d, "s")

(***************************************************************************)
(* format_uptime, here and in the page's script and the Go server.         *)
(***************************************************************************)
format_uptime(seconds) ==
    LET days == seconds \div DAY
        hours == (seconds % DAY) \div HOUR
        mins == (seconds % HOUR) \div MINUTE
    IN  IF days > 0 THEN <<days, hours, mins>>
        ELSE IF hours > 0 THEN <<hours, mins>> ELSE <<mins>>

(***************************************************************************)
(* Bytes.  A number of 64 bits becomes a double by rounding it to a        *)
(* multiple of the spacing that doubles have around it, half to even.      *)
(***************************************************************************)
Widest == 2048
Spacings == {1, 2, 4, 8, 16, 32, 64, 128, 256, 512, 1024, Widest}

Rounded(x, y) ==
    LET q == x \div y
        r == x % y
    IN  IF 2 * r > y \/ (2 * r = y /\ q % 2 = 1) THEN q + 1 ELSE q

Spacing(n) ==
    CHOOSE s \in Spacings :
       n < s * MANTISSA /\ \A t \in Spacings : n < t * MANTISSA => s <= t
Double(n) == Spacing(n) * Rounded(n, Spacing(n))

(***************************************************************************)
(* format_bytes of the C server and formatBytes of the Go server: a number *)
(* with one decimal, here in tenths and rounded half to even, of the       *)
(* largest unit there is at least one of, which the C server finds by      *)
(* dividing the double and the Go server by dividing the number.  The C    *)
(* server has no letter for Unit[6], and writes the '\0' that ends its     *)
(* letters.  There are fewer than Unit[7] bytes.                           *)
(***************************************************************************)
Unit[k \in 0 .. 7] == IF k = 0 THEN 1 ELSE KILO * Unit[k - 1]

Letters == <<"B", "K", "M", "G", "T", "P", "E">>
NoLetter == ""
LettersOfC == <<"B", "K", "M", "G", "T", "P", NoLetter>>

UnitOf_Above(size) == Cardinality({k \in 1 .. 6 : size > Unit[k]})
UnitOf(size) == Cardinality({k \in 1 .. 6 : size >= Unit[k]})

Sized(bytes, k, letters) == Text(Rounded(10 * Double(bytes), Unit[k]), letters[k + 1])

format_bytes(bytes) == Sized(bytes, UnitOf(Double(bytes)), LettersOfC)
formatBytes(bytes) == Sized(bytes, UnitOf(bytes), Letters)

(***************************************************************************)
(* The script of the C server's page writes every number of bytes in       *)
(* megabytes; toFixed rounds half up.                                      *)
(***************************************************************************)
InMegabytes(bytes) == Text((20 * Double(bytes) + Unit[2]) \div (2 * Unit[2]), "M")
=============================================================================
