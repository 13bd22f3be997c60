---------------------------- MODULE Publication ----------------------------
(***************************************************************************)
(* How the sessions of one engine come into the table of another, and      *)
(* leave it: sapPublishLoop of the publisher, the datagrams in between,    *)
(* and sapDiscoveryLoop of the listener, with what SAP and SDP make of a   *)
(* datagram.  The table is abstract here, a function of at most            *)
(* MaxSessions keys; its slots and concurrent readers are in               *)
(* SessionDirectory.                                                       *)
(*                                                                         *)
(* Datagrams are lost and reordered.  Beside the publisher another sender  *)
(* may be on the air: an interoperating device that lays out its messages  *)
(* in its own way, or an echo of the listener's own announcements.  The    *)
(* text of a message is the sequence of its lines, a line its letter or    *)
(* attribute and the values in it; -1 is a number that does not parse.     *)
(***************************************************************************)
EXTENDS Integers, Sequences, SequencesExt, FiniteSets, FiniteSetsExt

CONSTANTS Interval,    \* five seconds between two rounds
          Timeout,     \* sapSessionTimeoutSeconds
          MaxShift,    \* ReconnectPolicy doubles its delay this often
          MaxDelay,    \* 8 s
          MaxSessions  \* kMaximumDiscoveredSessions

ASSUME PublicationAssumption ==
    {Interval, Timeout, MaxShift, MaxDelay, MaxSessions} \subseteq Nat \ {0}

VARIABLES cast,        \* the publisher's banks and the other sender's message
          pubPc, bank, wait,      \* sapPublishLoop, the bank it is at, its sleep
          pubRunning,
          air,                    \* datagrams under way
          subPc, attempt, delay,  \* sapDiscoveryLoop and its ReconnectPolicy
          winsock,                \* its WinsockRuntime; "ready" on Unix
          table                   \* the listener's discoveredSessions

pubVars == <<pubPc, bank, wait, pubRunning>>
subVars == <<subPc, attempt, delay, winsock, table>>
publicationVars == <<cast, pubVars, air, subVars>>

----------------------------------------------------------------------------
(* SDP                                                                     *)

\* SessionDescription as it is constructed; an address is the sequence of its
\* octets, <<>> an empty text.
Defaults == [name |-> "", origin |-> <<>>, address |-> <<>>, port |-> 5004, payload |-> 96,
             encoding |-> "L24", rate |-> 48000, channels |-> 8, ptime |-> 1, frames |-> 48,
             domain |-> 0, source |-> <<>>]

isMulticast(address) ==
    /\ Len(address) = 4 /\ \A i \in 1 .. 4 : address[i] \in 0 .. 255
    /\ address[1] \in 224 .. 239

Line(kind, value) == [kind |-> kind, value |-> value]

SourceFilter(s) ==
    IF s.source = <<>> THEN <<>> ELSE <<Line("filter", <<"incl", "IN", "IP4", s.address, s.source>>)>>

\* generate
Generate(s) ==
    <<Line("v", "0"),
      Line("o", <<"-", "1", "1", "IN", "IP4", s.origin>>),
      Line("s", s.name),
      Line("c", <<"IN", "IP4", s.address>>),
      Line("t", "0 0"),
      Line("m", [media |-> "audio", port |-> s.port, profile |-> "RTP/AVP", payload |-> s.payload]),
      Line("rtpmap", [payload |-> s.payload, encoding |-> s.encoding, rate |-> s.rate,
                      channels |-> s.channels]),
      Line("ptime", s.ptime),
      Line("framecount", s.frames),
      Line("refclk", [marked |-> TRUE, domain |-> s.domain]),
      Line("mediaclk", "direct=0")>>
    \o SourceFilter(s) \o <<Line("sendonly", "")>>

\* A line parse() takes something from: the others have too few parts for it, or
\* no "domain-nmbr=".
Usable(line) ==
    CASE line.kind = "o" -> Len(line.value) >= 6
      [] line.kind = "c" -> Len(line.value) >= 3
      [] line.kind = "filter" -> Len(line.value) >= 5
      [] line.kind = "refclk" -> line.value.marked
      [] OTHER -> TRUE

Where(lines, kind) == {i \in DOMAIN lines : lines[i].kind = kind /\ Usable(lines[i])}

\* A field holds what the last line for it has given.
Given(lines, kind, default) ==
    IF Where(lines, kind) = {} THEN default ELSE lines[Max(Where(lines, kind))].value

\* session.payloadType when line i is reached
PayloadAt(lines, i) == Given(SubSeq(lines, 1, i - 1), "m", Defaults).payload

\* Mutant of FitsMedia: the payload type is not compared.
FitsMediaAny(lines, i) == TRUE


\* An rtpmap must have the payload type of the media line before it.
FitsMedia(lines, i) == lines[i].value.payload = PayloadAt(lines, i)

\* The numbers parse() takes for a port or a count of channels, and for a payload
\* type or a domain
Ports == 0 .. 65535
Types == 0 .. 127

\* parse() returns nullopt at line i.
Refuses(lines, i) ==
    LET kind == lines[i].kind  v == lines[i].value IN
    \/ kind = "m" /\ ~(v.media = "audio" /\ v.profile = "RTP/AVP"
                       /\ v.port \in Ports /\ v.payload \in Types)
    \/ kind = "rtpmap" /\ ~(FitsMedia(lines, i) /\ v.rate >= 0 /\ v.channels \in Ports)
    \/ kind \in {"ptime", "framecount"} /\ v < 0
    \/ kind = "refclk" /\ v.marked /\ v.domain \notin Types

Described(lines) ==
    LET media == Given(lines, "m", Defaults)
        map == Given(lines, "rtpmap", Defaults)
    IN [name |-> Given(lines, "s", Defaults.name),
        origin |-> Given(lines, "o", [n \in 1 .. 6 |-> Defaults.origin])[6],
        address |-> Given(lines, "c", [n \in 1 .. 3 |-> Defaults.address])[3],
        port |-> media.port, payload |-> media.payload,
        encoding |-> map.encoding, rate |-> map.rate, channels |-> map.channels,
        ptime |-> Given(lines, "ptime", Defaults.ptime),
        frames |-> Given(lines, "framecount", Defaults.frames),
        domain |-> Given(lines, "refclk", Defaults).domain,
        source |-> Given(lines, "filter", [n \in 1 .. 5 |-> Defaults.source])[5]]

\* parse, as the set of the session it returns or of nothing
Parse(lines) ==
    {s \in {Described(lines)} :
        /\ \A i \in DOMAIN lines : ~Refuses(lines, i)
        /\ Where(lines, "m") # {} /\ Where(lines, "rtpmap") # {}
        /\ s.name # "" /\ isMulticast(s.address)}

\* validateLXToolProfile
Supported(s) ==
    /\ s.encoding = "L24" /\ s.rate = 48000 /\ s.channels \in {1, 2, 4, 8}
    /\ s.ptime = 1 /\ s.frames = 48 /\ s.domain = 0
    /\ isMulticast(s.address)

----------------------------------------------------------------------------
(* SAP.  A message is its header and the parts of its body: words of       *)
(* authentication data, the payload type, the zero after it, and the       *)
(* description, of which the body has the beginning and lines the rest.    *)

\* hash: 16 bits of the text, so two descriptions may have the same.
Hash(s) == IF cast.collide THEN 0 ELSE s.port

\* encode
Encode(s, deletion, hash) ==
    [version |-> 1, encrypted |-> FALSE, compressed |-> FALSE, deletion |-> deletion, words |-> 0,
     hash |-> hash, body |-> <<"application/sdp", "zero", "v=0">>, lines |-> Generate(s)]

\* The zero bytes after the authentication data
Zeros(w) == {i \in w.words + 1 .. Len(w.body) : w.body[i] = "zero"}

\* decode succeeds.
Decodes(w) ==
    /\ w.version = 1 /\ ~w.encrypted /\ ~w.compressed
    /\ w.words < Len(w.body) /\ Zeros(w) # {}
    /\ LET zero == Min(Zeros(w))
       IN /\ SubSeq(w.body, w.words + 1, zero - 1) = <<"application/sdp">>
          /\ zero < Len(w.body) /\ w.body[zero + 1] = "v=0"

----------------------------------------------------------------------------
(* Who is on the air                                                       *)

Listener == <<10, 0, 0, 2>>    \* config_.interfaceAddress of the listener
Outputs == "AES-Bridge-Outputs-"

\* The publisher's banks, as sapPublishLoop describes them; its payload type is
\* not the default one.
Session(b) ==
    [Defaults EXCEPT !.name = Outputs, !.origin = <<10, 0, 0, 1>>, !.source = <<10, 0, 0, 1>>,
        !.address = <<239, 69, 83, 80 + b>>, !.port = 5004 + b, !.payload = 97, !.channels = 2]

Device == [Defaults EXCEPT !.name = "Device", !.origin = <<10, 0, 0, 3>>, !.channels = 2,
              !.address = <<239, 1, 1, 1>>, !.payload = 98]

\* What another sender describes, and the message it sends, with the hash of
\* the publisher's first bank.
Message(s, lines) == [means |-> s, wire |-> [Encode(s, FALSE, 5005) EXCEPT !.lines = lines]]
Only(s, kinds) == SelectSeq(Generate(s), LAMBDA line : line.kind \in kinds)
Except(s, kinds) == SelectSeq(Generate(s), LAMBDA line : line.kind \notin kinds)

\* A rate that is not the engine's, and numbers no port and no payload type or
\* domain can have
OtherRate == 44100
BeyondPort == 70000
BeyondType == 200

\* Descriptions in the engine's own layout: a device that fits the profile, one
\* that fails a check each, and the listener's own announcement.
Descriptions ==
    {Device, [Device EXCEPT !.encoding = "L16"], [Device EXCEPT !.rate = OtherRate],
     [Device EXCEPT !.channels = 3], [Device EXCEPT !.ptime = 4], [Device EXCEPT !.frames = 6],
     [Device EXCEPT !.domain = 1], [Device EXCEPT !.domain = BeyondType],
     [Device EXCEPT !.address = <<10, 0, 0, 3>>], [Device EXCEPT !.name = ""],
     [Device EXCEPT !.port = BeyondPort], [Device EXCEPT !.payload = BeyondType], [Device EXCEPT !.ptime = -1],
     [Device EXCEPT !.origin = Listener, !.name = Outputs], [Device EXCEPT !.origin = Listener]}

OtherMap(payload, channels) ==
    Line("rtpmap", [payload |-> payload, encoding |-> "L24", rate |-> 48000, channels |-> channels])

OtherMedia(media, payload) ==
    Line("m", [media |-> media, port |-> 6000, profile |-> "RTP/AVP", payload |-> payload])

\* A device whose field is not the usual one, and no line that says so.
Silent(field, value, kinds) ==
    LET s == [Device EXCEPT ![field] = value] IN Message(s, Except(s, kinds))

\* Other layouts of the device's description: the lines it may leave out, the
\* map before the media line, with the default payload type and another one, no
\* map, a second payload type, a second stream with a map and with a static type
\* and none, an address for the session and another one for the stream, video,
\* a short origin, a packet time or frame count that no line gives, and a clock
\* without "domain-nmbr=" in domain 0 or 1.
Layouts ==
    {Message(Device, Except(Device, {"ptime", "framecount", "refclk", "mediaclk", "sendonly"})),
     Message(Device, Only(Device, {"rtpmap"}) \o Except(Device, {"rtpmap"})),
     Message([Device EXCEPT !.payload = 96],
             LET s == [Device EXCEPT !.payload = 96] IN Only(s, {"rtpmap"}) \o Except(s, {"rtpmap"})),
     Message(Device, Except(Device, {"rtpmap"})),
     Message(Device, Append(Generate(Device), OtherMap(99, 8))),
     Message(Device, Generate(Device) \o <<OtherMedia("audio", 99), OtherMap(99, 8)>>),
     Message(Device, Append(Generate(Device), OtherMedia("audio", 0))),
     Message(Device, <<Line("c", <<"IN", "IP4", <<239, 1, 1, 2>>>>)>> \o Generate(Device)),
     Message(Device, <<OtherMedia("video", 100)>> \o Generate(Device)),
     Message(Device, Append(Except(Device, {"o"}), Line("o", <<"-", "1">>))),
     Silent("ptime", 4, {"ptime"}), Silent("frames", 6, {"framecount"})}
    \cup {Message([Device EXCEPT !.domain = d],
                  Append(Except(Device, {"refclk"}), Line("refclk", [marked |-> FALSE, domain |-> d]))) :
             d \in {0, 1}}

\* Messages around the device's description: authentication data, before the
\* payload type and beyond the end, no payload type, another one, no zero, no
\* description, and header fields that are not supported.
Wires ==
    LET w == Message(Device, Generate(Device)).wire
    IN {[w EXCEPT !.words = 1, !.body = <<"zero">> \o @], [w EXCEPT !.words = 3],
        [w EXCEPT !.body = <<"v=0">>], [w EXCEPT !.body = <<"text/plain", "zero", "v=0">>],
        [w EXCEPT !.body = <<"application/sdp", "v=0">>], [w EXCEPT !.body = <<"application/sdp", "zero">>],
        [w EXCEPT !.body = <<"application/sdp", "zero", "text">>],
        [w EXCEPT !.version = 2], [w EXCEPT !.encrypted = TRUE], [w EXCEPT !.compressed = TRUE]}

Others == {Message(s, Generate(s)) : s \in Descriptions} \cup Layouts
          \cup [means : {Device}, wire : Wires]

\* Who is on the air: two banks of the publisher, with hashes that differ or are
\* the same; one, and a listener on Windows; one, and a device; two, and a device
\* that never deletes its session; or another sender alone.
Casts ==
    LET own == Message(Device, Generate(Device))
        base == [banks |-> 2, collide |-> FALSE, other |-> {}, deletes |-> TRUE, windows |-> FALSE]
    IN {base, [base EXCEPT !.collide = TRUE], [base EXCEPT !.banks = 1, !.windows = TRUE],
        [base EXCEPT !.banks = 1, !.other = {own}], [base EXCEPT !.other = {own}, !.deletes = FALSE]}
       \cup {[base EXCEPT !.banks = 0, !.other = {m}] : m \in Others}

Announcement(b) == [from |-> "publisher", bank |-> b, deletion |-> FALSE]
Deletion(b) == [Announcement(b) EXCEPT !.deletion = TRUE]
Foreign(deletion) == [from |-> "other", bank |-> 0, deletion |-> deletion]

WireOf(d) ==
    IF d.from = "publisher" THEN Encode(Session(d.bank), d.deletion, Hash(Session(d.bank)))
    ELSE [(CHOOSE m \in cast.other : TRUE).wire EXCEPT !.deletion = d.deletion]

Meant(d) ==
    IF d.from = "publisher" THEN Session(d.bank) ELSE (CHOOSE m \in cast.other : TRUE).means

----------------------------------------------------------------------------
(* sapPublishLoop                                                          *)

StartPublisher ==
    /\ pubPc = "off" /\ cast.banks > 0
    /\ pubPc' = "open" /\ pubRunning' = TRUE /\ bank' = 1 /\ wait' = 0
    /\ UNCHANGED <<cast, air, subVars>>

\* The test of running_ before a round
NextRound == IF pubRunning THEN "announce" ELSE "delete"

\* openTransmitter is tried once: when it fails, the thread returns.
OpenPublisher ==
    /\ pubPc = "open"
    /\ pubPc' \in {NextRound, "gone"}
    /\ UNCHANGED <<cast, bank, wait, pubRunning, air, subVars>>

\* send(): its result is not looked at, and the network may lose a datagram.
Send(d, lost) == air' = IF lost THEN air ELSE air \cup {d}

\* A round goes through all banks, whatever stop() does meanwhile.
Announce(b, lost) ==
    /\ pubPc = "announce" /\ bank = b
    /\ Send(Announcement(b), lost)
    /\ IF b < cast.banks THEN bank' = b + 1 /\ UNCHANGED <<pubPc, wait>>
                         ELSE bank' = 1 /\ pubPc' = "sleep" /\ wait' = Interval
    /\ UNCHANGED <<cast, pubRunning, subVars>>

Wake ==
    /\ pubPc = "sleep" /\ (wait = 0 \/ ~pubRunning)
    /\ pubPc' = NextRound /\ wait' = 0
    /\ UNCHANGED <<cast, bank, pubRunning, air, subVars>>

Delete(b, lost) ==
    /\ pubPc = "delete" /\ bank = b
    /\ Send(Deletion(b), lost)
    /\ IF b < cast.banks THEN bank' = b + 1 /\ UNCHANGED pubPc
                         ELSE bank' = 1 /\ pubPc' = "off"
    /\ UNCHANGED <<cast, wait, pubRunning, subVars>>

StopPublisher ==
    /\ pubRunning
    /\ pubRunning' = FALSE
    /\ pubPc' = IF pubPc = "gone" THEN "off" ELSE pubPc
    /\ UNCHANGED <<cast, bank, wait, air, subVars>>

Kill ==
    /\ pubPc # "off"
    /\ pubPc' = "off" /\ pubRunning' = FALSE /\ bank' = 1 /\ wait' = 0
    /\ UNCHANGED <<cast, air, subVars>>

\* The other sender announces its session, or deletes it if it ever does.
OtherSends ==
    /\ cast.other # {}
    /\ \E deletion \in {FALSE, cast.deletes} : Send(Foreign(deletion), FALSE)
    /\ UNCHANGED <<cast, pubVars, subVars>>

----------------------------------------------------------------------------
(* sapDiscoveryLoop                                                        *)

\* nextDelay(), in units of its first delay
nextDelay ==
    /\ delay' = Min({2 ^ attempt, MaxDelay})
    /\ attempt' = Min({attempt + 1, MaxShift})

\* WSAStartup is called with the first socket of a process, and once.
WSAStartup == IF winsock = "unused" THEN {"ready", "failed"} ELSE {winsock}

\* openReceiver fails: a socket cannot be made or bound, or the group not joined.
ListenerFails ==
    /\ subPc = "open"
    /\ winsock' \in WSAStartup
    /\ subPc' = "wait" /\ nextDelay
    /\ UNCHANGED <<cast, pubVars, air, table>>

\* openReceiver succeeds; connected()
ListenerOpens ==
    /\ subPc = "open"
    /\ winsock' \in WSAStartup /\ winsock' = "ready"
    /\ subPc' = "listen" /\ attempt' = 0
    /\ UNCHANGED <<cast, pubVars, air, delay, table>>

Retry ==
    /\ subPc = "wait" /\ delay = 0
    /\ subPc' = "open"
    /\ UNCHANGED <<cast, pubVars, air, attempt, delay, table, winsock>>

\* expire()
Expired == Restrict(table, {k \in DOMAIN table : table[k].age <= Timeout})

\* erase() of hash and origin
Erase(t, k) == Restrict(t, DOMAIN t \ {k})

\* Mutant of Oldest: the times are compared the other way round.
Youngest(t) == {k \in DOMAIN t : \A other \in DOMAIN t : t[k].age <= t[other].age}

\* The sessions that have not been heard of for longest
Oldest(t) == {k \in DOMAIN t : \A other \in DOMAIN t : t[other].age <= t[k].age}

\* The tables in which k has a slot: it has one already, or there is a free one, or
\* one of the oldest sessions loses its own.
WithRoom(t, k) ==
    IF k \in DOMAIN t \/ Cardinality(DOMAIN t) < MaxSessions THEN {t}
    ELSE {Restrict(t, DOMAIN t \ {old}) : old \in Oldest(t)}

\* upsert() of hash and origin, as the set of the tables it may leave
Upsert(t, k, entry) ==
    {[other \in DOMAIN r \cup {k} |-> IF other = k THEN entry ELSE r[other]] : r \in WithRoom(t, k)}

\* The listener's own announcements are no discovery.
Own(s) == s.origin = Listener /\ s.name = Outputs

\* A datagram, after expire(): decoded, parsed, checked, and applied, as the set
\* of the tables it may leave.
Handled(t, d) ==
    LET w == WireOf(d)
        sessions == IF Decodes(w) THEN {s \in Parse(w.lines) : Supported(s) /\ ~Own(s)} ELSE {}
    IN IF sessions = {} THEN {t}
       ELSE LET s == CHOOSE s \in sessions : TRUE
                k == <<w.hash, s.origin>>
            IN IF w.deletion THEN {Erase(t, k)}
               ELSE Upsert(t, k, [session |-> s, from |-> d.from, bank |-> d.bank, age |-> 0])

Arrives(d) == subPc = "listen" /\ d \in air /\ air' = air \ {d}

\* receive() returns a datagram.
Receive(d) ==
    /\ Arrives(d)
    /\ table' \in Handled(Expired, d)
    /\ UNCHANGED <<cast, pubVars, subPc, attempt, delay, winsock>>

\* Mutant of Quiet: nothing is expired when there was no datagram.
QuietKeeps ==
    /\ subPc = "listen"
    /\ UNCHANGED publicationVars

\* receive() times out, or returns an empty datagram.
Quiet ==
    /\ subPc = "listen"
    /\ table' = Expired
    /\ UNCHANGED <<cast, pubVars, air, subPc, attempt, delay, winsock>>

\* receive() fails.
ReceiveFails ==
    /\ subPc = "listen"
    /\ table' = Expired
    /\ subPc' = "wait" /\ nextDelay
    /\ UNCHANGED <<cast, pubVars, air, winsock>>

\* The listener's engine is stopped or killed, and started again:
\* resetRuntimeState() empties the table.
Restart ==
    /\ subPc' = "open" /\ attempt' = 0 /\ delay' = 0 /\ table' = <<>>
    /\ winsock' = IF cast.windows THEN "unused" ELSE "ready"
    /\ UNCHANGED <<cast, pubVars, air>>

\* Time passes for the two loops and the entries.
Tick ==
    /\ wait' = Max({wait - 1, 0}) /\ delay' = Max({delay - 1, 0})
    /\ table' = [k \in DOMAIN table |-> [table[k] EXCEPT !.age = Min({@ + 1, Timeout + 1})]]
    /\ UNCHANGED <<cast, pubPc, bank, pubRunning, air, subPc, attempt, winsock>>

----------------------------------------------------------------------------
PublicationInit ==
    /\ cast \in Casts
    /\ pubPc = "off" /\ bank = 1 /\ wait = 0 /\ pubRunning = FALSE
    /\ air = {}
    /\ subPc = "open" /\ attempt = 0 /\ delay = 0 /\ table = <<>>
    /\ winsock = IF cast.windows THEN "unused" ELSE "ready"

PublishedBanks == 1 .. 2
Publisher ==
    \/ OpenPublisher \/ Wake
    \/ \E b \in PublishedBanks, lost \in BOOLEAN : Announce(b, lost) \/ Delete(b, lost)
Turn == Quiet \/ ReceiveFails \/ \E d \in air : Receive(d)

PublicationNext ==
    \/ StartPublisher \/ Publisher \/ StopPublisher \/ Kill \/ OtherSends
    \/ ListenerFails \/ ListenerOpens \/ Retry \/ Turn \/ Restart \/ Tick

\* Threads run and time passes.  Every turn of the listener expires, so a turn
\* that has something to expire comes (Quiet, which such a turn disables).  A
\* socket that can be opened again and again is opened at last; of a bank's
\* announcements infinitely many are not lost, and what is not lost arrives
\* while somebody listens.  The publisher's socket is tried once and may fail;
\* nothing is said about errors of receive().
PublicationFairness ==
    /\ WF_publicationVars(Tick) /\ WF_publicationVars(Publisher)
    /\ WF_publicationVars(Quiet \/ Retry) /\ SF_publicationVars(ListenerOpens)
    /\ \A b \in PublishedBanks : /\ SF_publicationVars(Announce(b, FALSE))
                                /\ SF_air(Arrives(Announcement(b)))

PublicationSpec == PublicationInit /\ [][PublicationNext]_publicationVars /\ PublicationFairness

----------------------------------------------------------------------------
(* Properties.                                                             *)

\* Every variable has its type.
PublicationTypeOK ==
    /\ cast \in Casts
    /\ pubPc \in {"off", "open", "gone", "announce", "sleep", "delete"}
    /\ bank \in PublishedBanks /\ wait \in 0 .. Interval /\ pubRunning \in BOOLEAN
    /\ air \subseteq [from : {"publisher"}, bank : PublishedBanks, deletion : BOOLEAN]
                     \cup {Foreign(deletion) : deletion \in BOOLEAN}
    /\ subPc \in {"open", "listen", "wait"} /\ attempt \in 0 .. MaxShift /\ delay \in 0 .. MaxDelay
    /\ winsock \in {"unused", "ready", "failed"}
    /\ \A k \in DOMAIN table : table[k].age \in 0 .. Timeout + 1

\* The lines that give the fields of a session
LineFor == [name |-> "s", origin |-> "o", address |-> "c", port |-> "m", payload |-> "m",
            encoding |-> "rtpmap", rate |-> "rtpmap", channels |-> "rtpmap", ptime |-> "ptime",
            frames |-> "framecount", domain |-> "refclk", source |-> "filter"]

\* What the lines say of a session: a field that none of them gives has its default.
AsSaid(s, lines) ==
    [field \in DOMAIN LineFor |->
        IF Where(lines, LineFor[field]) = {} THEN Defaults[field] ELSE s[field]]

OneStream(lines) == Cardinality(Where(lines, "m")) = 1

\* A description of one stream is listed as its sender meant it, in whatever order
\* its lines come and whatever others, a map of another payload type or a second
\* address, stand beside them, and it fits the engine's profile.  What no line
\* gives is the engine's default: a packet time, a frame count or a PTP domain
\* that is left out counts as 1 ms, 48 frames, domain 0.  Of a description with
\* several streams nothing is said: the port and payload type of the last media
\* line go with the last map (SDP.cpp:30-97, :99-128, SAP.cpp:31-50).
ListedAsSent ==
    \A k \in DOMAIN table :
        LET lines == WireOf([from |-> table[k].from, bank |-> table[k].bank, deletion |-> FALSE]).lines
            said == AsSaid(Meant(table[k]), lines)
        IN OneStream(lines) => table[k].session = said /\ Supported(said)

\* Listed sessions are of PTP domain 0 (Docs/AUDIT.md:89-90).
ListedInDomain == \A k \in DOMAIN table : Meant(table[k]).domain = 0

\* A session leaves the table because its own sender deletes it, because it has
\* not been heard of for the timeout, because the listener starts anew, or because
\* every slot is in use, none is unheard of for longer, and a session that is not
\* listed is announced.  Nothing else takes its place: an announcement or a
\* deletion of another sender with the same hash does not
\* (LiveEngine.cpp:381-399, SessionDirectory.cpp:68-113).
LeavesRightly ==
    \A k \in DOMAIN table :
        \/ Restart
        \/ table[k].age > Timeout
        \/ k \in DOMAIN table' /\ table'[k].from = table[k].from
        \/ \E d \in air \ air' : d.deletion /\ d.from = table[k].from
        \/ /\ ~(Cardinality(DOMAIN Expired) < MaxSessions)
           /\ \A other \in DOMAIN Expired : table[other].age <= table[k].age
           /\ \E other \in DOMAIN table' : other \notin DOMAIN Expired
LeftByRight == [][LeavesRightly]_publicationVars

Publishing == pubPc \in {"announce", "sleep"} /\ pubRunning
Listed(b) == \E k \in DOMAIN table : table[k].from = "publisher" /\ table[k].bank = b


\* The sessions of an engine that was stopped or killed leave the table, even if
\* every deletion is lost and nothing else is on the air (LiveEngine.cpp:379-384).
SessionsLeave ==
    (pubPc = "off") ~> (pubPc # "off" \/ \A b \in PublishedBanks : ~Listed(b))
=============================================================================
