----------------------------- MODULE ReportPath -----------------------------
(***************************************************************************)
(* What becomes of a report's text on its way: collected by a client into  *)
(* fields of fixed size, escaped into JSON, taken apart by parson, copied  *)
(* into the server's fields, stored in the table, and written into /data   *)
(* for the page to parse again (client.c 26-106, client/main.go, parson.c  *)
(* process_string, server.c 695-758 and 556-611).                          *)
(*                                                                         *)
(* A text is a sequence of characters, of which there are the quote, the   *)
(* backslash, the newline (or tab, or carriage return), other control      *)
(* characters, the space, the letter n, any other letter, and "junk",      *)
(* whatever stood on the server's stack.                                   *)
(***************************************************************************)
EXTENDS SystemInfo

CONSTANTS
    Machines,       \* records [client, commands, id, hostname, kernel, links,
                    \*          mem, offset, seconds]
    ID_SIZE, HOSTNAME_SIZE, IPV4_SIZE,     \* sizes of the fields, with '\0'
    ServerOffset,   \* the server's offset from UTC, without daylight saving
    MaxReports

ASSUME SizesAssumption ==
    /\ ID_SIZE \in Nat \ {0, 1} /\ HOSTNAME_SIZE \in Nat \ {0, 1}
    /\ IPV4_SIZE \in Nat \ {0, 1}
    /\ MaxReports \in Nat /\ ServerOffset \in Int

Characters == {"quote", "backslash", "newline", "control", "space", "n", "a"}
Addresses == Seq(Characters) \ {Blank}

(***************************************************************************)
(* getifaddrs lists each interface under a name of its own, and one        *)
(* hardware address with it.  A client without an identifier makes one.  A *)
(* number of seconds or bytes fits 64 bits, which are eleven more than a   *)
(* double has; it is a double itself below MANTISSA, and Unit[5] is below. *)
(* Unit[6] is a double, and so is every multiple of it.                    *)
(***************************************************************************)
LinkType == [name : STRING, label : STRING,
             mac : [1 .. 1 -> Addresses \union NotSix],
             ipv4 : Seq(Addresses), ipv6 : Seq(Addresses)]

ASSUME DoublesAssumption ==
    /\ MANTISSA \in Nat /\ Unit[5] < MANTISSA
    /\ \A s \in Spacings : Unit[6] % s = 0

ASSUME MachinesAssumption ==
    \A m \in Machines :
       /\ m.client \in {"C", "Go"} /\ m.commands \subseteq Commands
       /\ m.id \in Seq(Characters) \ {Blank}
       /\ m.hostname \in Seq(Characters) /\ m.kernel \in Seq(Characters)
       /\ m.links \in Seq(LinkType)
       /\ \A i, j \in 1 .. Len(m.links) : m.links[i].name = m.links[j].name => i = j
       /\ m.mem \in [total : Nat, free : Nat, available : Nat]
       /\ m.offset \in Int
       /\ m.seconds \in Int /\ m.seconds < Unit[7] /\ m.seconds < Widest * MANTISSA

VARIABLES
    machines,   \* the two machines that report
    reports,    \* how many reports there were
    wire,       \* the report under way: its sender, its fields and its text
    rows        \* the server's table

vars == <<machines, reports, wire, rows>>

-----------------------------------------------------------------------------
Plain(s) == \A i \in 1 .. Len(s) : s[i] \in {"a", "n", "space"}

(***************************************************************************)
(* strncpy of size - 1 bytes into a field that was zeroed.                 *)
(***************************************************************************)
Cut(s, size) == SubSeq(s, 1, IF Len(s) < size THEN Len(s) ELSE size - 1)

(***************************************************************************)
(* strncpy of size - 1 bytes into a field that was not: a text that fills  *)
(* them is not terminated, and goes on with what stood behind.             *)
(***************************************************************************)
Copies(s, size) ==
    {Cut(s, size)}
      \union IF Len(s) < size - 1 THEN {} ELSE {Append(Cut(s, size), "junk")}

(***************************************************************************)
(* escape_json_string into len bytes, and what json.Marshal does, which    *)
(* escapes other control characters too.                                   *)
(***************************************************************************)
Escapes_NoBackslash == [quote |-> "quote", newline |-> "n"]
Escapes == [quote |-> "quote", backslash |-> "backslash", newline |-> "n"]

EscapeInto(len, dst, c) ==
    IF c \in DOMAIN Escapes
    THEN IF Len(dst) + 2 < len THEN dst \o <<"backslash", Escapes[c]>> ELSE dst
    ELSE IF Len(dst) < len - 1 THEN Append(dst, c) ELSE dst

escape_json_string(s, len) ==
    FoldLeft(LAMBDA dst, c : EscapeInto(len, dst, c), <<>>, s)

Marshalled(s) ==
    FlattenSeq([i \in 1 .. Len(s) |->
        IF s[i] \in DOMAIN Escapes THEN <<"backslash", Escapes[s[i]]>>
        ELSE IF s[i] = "control" THEN <<"backslash", "u">> ELSE <<s[i]>>])

(***************************************************************************)
(* get_quoted_string: the text between the quotes, which the first quote   *)
(* that is not escaped ends too early.  Broken is the value of a text that *)
(* does not parse.                                                         *)
(***************************************************************************)
Broken == <<"broken">>

Decoded(s, c) ==
    IF s.broken THEN s
    ELSE IF s.escape
         THEN [text |-> Append(s.text, CASE c = "n" -> "newline"
                                         [] c = "u" -> "control" [] OTHER -> c),
               escape |-> FALSE,
               broken |-> c \notin {"quote", "backslash", "n", "u"}]
    ELSE IF c = "backslash" THEN [s EXCEPT !.escape = TRUE]
    ELSE IF c \in {"quote", "newline", "control"} THEN [s EXCEPT !.broken = TRUE]
    ELSE [s EXCEPT !.text = Append(@, c)]

get_quoted_string(s) ==
    LET end == FoldLeft(Decoded, [text |-> <<>>, escape |-> FALSE, broken |-> FALSE], s)
    IN  IF end.broken \/ end.escape THEN Broken ELSE end.text

-----------------------------------------------------------------------------
NoReport == [from |-> 0]

Init ==
    /\ machines \in Machines \X Machines
    /\ reports = 0 /\ wire = NoReport /\ rows = <<>>

(***************************************************************************)
(* get_system_info and build_json, or collectInfo and json.Marshal.        *)
(* strftime writes the local time.  Without memory the C client sends {},  *)
(* of which the server reads empty texts, no networks and no time.         *)
(***************************************************************************)
Hostname(m) == IF m.client = "C" THEN m.hostname ELSE parseUname(m)
Networks(m) == IF m.client = "C" THEN get_network_info(m.links)
                                 ELSE parseNetworkLinux(m.links, m.commands)

Field(m, s, size) == IF m.client = "C"
                     THEN escape_json_string(Cut(s, size), 2 * size)
                     ELSE Marshalled(s)

Whole(i) ==
    LET m == machines[i] IN
    [from |-> i, time |-> reports, whole |-> TRUE,
     client_id |-> Field(m, m.id, ID_SIZE),
     hostname |-> Field(m, Hostname(m), HOSTNAME_SIZE),
     networks |-> Networks(m), local |-> reports + m.offset]

Braces(i) ==
    [from |-> i, time |-> reports, whole |-> FALSE, client_id |-> Blank,
     hostname |-> Blank, networks |-> <<>>, local |-> 0]

Collect(i) ==
    /\ wire = NoReport /\ reports < MaxReports
    /\ \/ wire' = Whole(i)
       \/ machines[i].client = "C" /\ wire' = Braces(i)
    /\ reports' = reports + 1
    /\ UNCHANGED <<machines, rows>>

(***************************************************************************)
(* handle_client, for a body that has come in full.  A text that does not  *)
(* parse is dropped, and answered like any other.  mktime takes the local  *)
(* time for the server's own, outside of daylight saving time, whatever    *)
(* the offset behind it says.  The table is large enough.                  *)
(***************************************************************************)
Address(nets) == IF nets = <<>> THEN Blank ELSE nets[1].ipv4

Row_Swapped(id, hostname, ip, w) ==
    [from |-> w.from, whole |-> w.whole, time |-> w.time,
     client_id |-> id, hostname |-> id, ip |-> hostname,
     timestamp |-> IF w.whole THEN w.local - ServerOffset ELSE 0]
Row(id, hostname, ip, w) ==
    [from |-> w.from, whole |-> w.whole, time |-> w.time,
     client_id |-> id, hostname |-> hostname, ip |-> ip,
     timestamp |-> IF w.whole THEN w.local - ServerOffset ELSE 0]

RowOf_Beginning(id) ==
    {r \in 1 .. Len(rows) : Cut(rows[r].client_id, 2) = Cut(id, 2)}
RowOf_ButLast(id) == {r \in 1 .. Len(rows) - 1 : rows[r].client_id = id}
RowOf(id) == {r \in 1 .. Len(rows) : rows[r].client_id = id}

Stored(row) ==
    rows' = IF RowOf(row.client_id) = {} THEN Append(rows, row)
            ELSE [rows EXCEPT ![CHOOSE r \in RowOf(row.client_id) : TRUE] = row]

Parses(w) == Broken \notin {get_quoted_string(w.client_id), get_quoted_string(w.hostname)}

Receive ==
    /\ wire # NoReport
    /\ wire' = NoReport
    /\ IF Parses(wire)
       THEN \E id \in Copies(get_quoted_string(wire.client_id), ID_SIZE),
               hostname \in Copies(get_quoted_string(wire.hostname), HOSTNAME_SIZE),
               ip \in Copies(Address(wire.networks), IPV4_SIZE) :
                  Stored(Row(id, hostname, ip, wire))
       ELSE UNCHANGED rows
    /\ UNCHANGED <<machines, reports>>

(***************************************************************************)
(* /data writes the fields as they are, and the page parses the answer:    *)
(* one field that does not parse makes all of it unreadable.               *)
(***************************************************************************)
Shown(row) == [client_id |-> get_quoted_string(row.client_id),
               hostname |-> get_quoted_string(row.hostname),
               ip |-> get_quoted_string(row.ip)]

Next == \/ \E i \in {1, 2} : Collect(i)
        \/ Receive

Spec == Init /\ [][Next]_vars

-----------------------------------------------------------------------------
TypeOK ==
    /\ machines \in Machines \X Machines
    /\ reports \in 0 .. MaxReports
    /\ wire # NoReport /\ machines[wire.from].client = "C" =>
          Len(wire.networks) <= MAX_NETWORKS
    /\ \A r \in 1 .. Len(rows) :
          /\ Len(rows[r].client_id) <= ID_SIZE
          /\ Len(rows[r].hostname) <= HOSTNAME_SIZE
          /\ Len(rows[r].ip) <= IPV4_SIZE

(***************************************************************************)
(* What a row was told of its machine; nothing, by a client without memory. *)
(***************************************************************************)
Told(row) ==
    LET m == machines[row.from] IN
    IF row.whole
    THEN [client_id |-> m.id, hostname |-> Hostname(m), ip |-> Address(Networks(m))]
    ELSE [client_id |-> Blank, hostname |-> Blank, ip |-> Blank]

(***************************************************************************)
(* What the server stores is what the client was told by its machine: a    *)
(* text that leaves room for its terminator is unchanged by escaping,      *)
(* parsing and copying, a longer one keeps its beginning.  The host name   *)
(* is the machine's, but that the Go client needs uname and a name of one  *)
(* word.  The time of the report is right if and only if the client's      *)
(* clock shows the server's standard time.                                 *)
(* Two things are lost.  A report that does not parse comes from the C     *)
(* client, and has in one of its texts a control character that            *)
(* escape_json_string does not know; it is told ok all the same.  A report *)
(* without memory, again the C client's, is stored: a row without a name   *)
(* or an address, as old as the epoch.                                     *)
(***************************************************************************)
Keeps(stored, text, size) ==
    IF Len(text) < size - 1 THEN stored = text
                            ELSE IsPrefix(Cut(text, size), stored)

HasControl(s) == \E i \in 1 .. Len(s) : s[i] = "control"
OneWord(s) == s # Blank /\ Ink(s) = 1 .. Len(s)

ArrivesAsCollected ==
    /\ TypeOK
    /\ \A r \in 1 .. Len(rows) :
          LET m == machines[rows[r].from] IN
          /\ Keeps(rows[r].client_id, Told(rows[r]).client_id, ID_SIZE)
          /\ Keeps(rows[r].hostname, Told(rows[r]).hostname, HOSTNAME_SIZE)
          /\ Keeps(rows[r].ip, Told(rows[r]).ip, IPV4_SIZE)
          /\ IF rows[r].whole
             THEN /\ m.client = "C" \/ ("uname" \in m.commands /\ OneWord(m.hostname)) =>
                        Keeps(rows[r].hostname, m.hostname, HOSTNAME_SIZE)
                  /\ m.offset = ServerOffset <=> rows[r].timestamp = rows[r].time
             ELSE m.client = "C" /\ rows[r].timestamp = 0
    /\ wire # NoReport /\ ~Parses(wire) =>
          LET m == machines[wire.from] IN
          /\ m.client = "C" /\ wire.whole
          /\ HasControl(m.id) \/ HasControl(m.hostname)

(***************************************************************************)
(* A client has one row, and clients with different identifiers have       *)
(* different rows, unless an identifier fills its field (63 characters):   *)
(* then what stood behind it on the stack may tell two reports of one      *)
(* client apart.  Reports sent without memory have a row of their own      *)
(* together, the one without an identifier.                                *)
(***************************************************************************)
Fits(id) == Len(id) < ID_SIZE - 1

RowsAreClients ==
    \A r, s \in 1 .. Len(rows) :
       LET id == Told(rows[r]).client_id
           other == Told(rows[s]).client_id
       IN  Fits(id) /\ Fits(other) => (r = s <=> id = other)

(***************************************************************************)
(* A report never takes over the row of another client, however alike      *)
(* their identifiers are, nor does one that was sent without memory.       *)
(***************************************************************************)
RowsStay ==
    [][\A r \in 1 .. Len(rows) :
          LET id == Told(rows[r]).client_id
              next == Told(rows'[r]).client_id
          IN  Fits(id) /\ Fits(next) => id = next]_vars

(***************************************************************************)
(* While the table was told short texts of plain characters only, a page   *)
(* that asks for /data can read it, and reads what was told.  Nothing more *)
(* is true: /data is written without escaping, and a text that fills its   *)
(* field is written with what stands behind it.                            *)
(***************************************************************************)
Ordinary(text, size) == Plain(text) /\ Len(text) < size - 1

DataIsReadable ==
    (\A r \in 1 .. Len(rows) :
        /\ Ordinary(Told(rows[r]).client_id, ID_SIZE)
        /\ Ordinary(Told(rows[r]).hostname, HOSTNAME_SIZE)
        /\ Ordinary(Told(rows[r]).ip, IPV4_SIZE)) =>
    \A r \in 1 .. Len(rows) : Shown(rows[r]) = Told(rows[r])

(***************************************************************************)
(* The C client's list has each interface once, with addresses of its own. *)
(* An address that it has is missing only when the list is full: on a      *)
(* machine with MAX_NETWORKS links or more no IPv4 address is reported.    *)
(***************************************************************************)
NetworksAreMap ==
    wire # NoReport => LET m == machines[wire.from] IN m.client = "C" =>
       /\ \A i, j \in 1 .. Len(wire.networks) :
             wire.networks[i].name = wire.networks[j].name => i = j
       /\ \A i \in 1 .. Len(wire.networks), k \in 1 .. Len(m.links) :
             LET n == wire.networks[i]
                 l == m.links[k]
             IN  n.name = l.name =>
                   /\ n.ipv4 \in Range(l.ipv4) \union {Blank}
                   /\ n.ipv4 = Blank /\ l.ipv4 # <<>> =>
                         Len(wire.networks) = MAX_NETWORKS

(***************************************************************************)
(* Both clients report the same interfaces of the same machine, if the Go  *)
(* client can run ip and the machine has fewer than MAX_NETWORKS links,    *)
(* all of them with a hardware address of six bytes, at most one address   *)
(* of each other kind, and none that only the C client skips: the same but *)
(* for their names, which are the labels in the Go client's list, so that  *)
(* the two lists are equal on a machine without parents and on no other.   *)
(* They report the same use of memory if the kernel tells what is          *)
(* available and the Go client can read it; and the same time since the    *)
(* start exactly where local time is UTC, or there is no uptime to ask.    *)
(***************************************************************************)
Simple(m) ==
    /\ "ip" \in m.commands /\ Len(m.links) < MAX_NETWORKS
    /\ \A k \in 1 .. Len(m.links) :
          LET l == m.links[k] IN
          /\ l.name \in SkippedByC <=> l.name \in SkippedByGo
          /\ l.mac[1] \in Addresses /\ Len(l.ipv4) <= 1 /\ Len(l.ipv6) <= 1

SameButLabels(nets, labelled, links) ==
    /\ Len(nets) = Len(labelled)
    /\ \A i \in 1 .. Len(nets) : \E k \in 1 .. Len(links) :
          /\ nets[i].name = links[k].name
          /\ labelled[i] = [nets[i] EXCEPT !.name = links[k].label]

NoParents(links) ==
    \A k \in 1 .. Len(links) :
       links[k].name \in SkippedByC \/ links[k].label = links[k].name

ClientsAgree ==
    \A i \in {1, 2} :
       LET m == machines[i]
           c == get_network_info(m.links)
           go == parseNetworkLinux(m.links, m.commands)
           told == parseUptime(m.seconds, m.offset, m.commands)
       IN  /\ Simple(m) => /\ SameButLabels(c, go, m.links)
                           /\ c = go <=> NoParents(m.links)
           /\ m.mem.available > 0 /\ "cat" \in m.commands =>
                 UsedByC(m.mem) = UsedByGo(m.mem, m.commands)
           /\ "uptime" \in m.commands => (m.offset = 0 <=> told = get_uptime(m.seconds))
           /\ "uptime" \notin m.commands /\ "cat" \in m.commands =>
                 told = get_uptime(m.seconds)

(***************************************************************************)
(* The age on a page is the largest whole number of days, hours, minutes   *)
(* or seconds, and 0 after the clock was set back; the Go server's is too, *)
(* below one day.  An uptime is exact to the minute, with every part in    *)
(* its range.                                                              *)
(*                                                                         *)
(* A number of bytes is shown to the nearest tenth of its own unit (just   *)
(* below the next unit this is 1024.0), up to the error of the double that *)
(* it becomes; by the scripts of the pages to the nearest tenth of a       *)
(* megabyte, however many there are.  The page of the Go server is always  *)
(* right, and that of the C server agrees with it as long as the double is *)
(* below Unit[6]: of the last numbers below Unit[6] it is not, and its     *)
(* page has no letter.                                                     *)
(* A machine's seconds stand for all of these numbers.                     *)
(***************************************************************************)
IsAge(text, d) ==
    LET unit == [s |-> 1, m |-> MINUTE, h |-> HOUR, d |-> DAY][text.unit]
        next == [s |-> MINUTE, m |-> HOUR, h |-> DAY, d |-> d + 1][text.unit]
    IN  /\ text.n * unit <= d /\ d < (text.n + 1) * unit
        /\ d < next /\ (text.unit = "s" \/ text.n > 0)

IsUptime(text, d) ==
    LET size == <<DAY, HOUR, MINUTE>>
        part == [k \in 1 .. 3 |-> IF k + Len(text) <= 3 THEN 0
                                  ELSE text[k + Len(text) - 3]]
        sum == part[1] * DAY + part[2] * HOUR + part[3] * MINUTE
    IN  /\ sum <= d /\ d < sum + MINUTE
        /\ \A k \in 2 .. 3 : part[k] * size[k] < size[k - 1]

Error(bytes) == IF bytes < MANTISSA THEN 0 ELSE 10 * Spacing(bytes)

Near(n, unit, bytes) ==
    /\ 2 * (n * unit - 10 * bytes) <= unit + Error(bytes)
    /\ 2 * (10 * bytes - n * unit) <= unit + Error(bytes)

IsSize(text, bytes) ==
    \E k \in 0 .. 6 :
       /\ text.unit = Letters[k + 1] /\ Near(text.n, Unit[k], bytes)
       /\ bytes >= Unit[k] \/ k = 0
       /\ bytes < Unit[k + 1]

TextsAreRight ==
    \A i \in {1, 2} : LET d == machines[i].seconds IN
       /\ IsAge(AgeOnPage(d), IF d < 0 THEN 0 ELSE d)
       /\ d \in 0 .. DAY - 1 => IsAge(AgeInGo(d), d)
       /\ d >= 0 =>
            /\ IsUptime(format_uptime(d), d)
            /\ IsSize(formatBytes(d), d)
            /\ IF Double(d) < Unit[6] THEN format_bytes(d) = formatBytes(d)
                                      ELSE format_bytes(d).unit = NoLetter
            /\ InMegabytes(d).unit = "M" /\ Near(InMegabytes(d).n, Unit[2], d)
=============================================================================
