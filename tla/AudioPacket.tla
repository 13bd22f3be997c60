---------------------------- MODULE AudioPacket ----------------------------
(***************************************************************************)
(* What a packet of audio carries from one engine to another: the end of   *)
(* transmitLoop's turn (L24Codec::encode, the timestamp, RTPCodec::encode) *)
(* and what receiveLoop and consumeLoop make of a datagram                 *)
(* (RTPCodec::decode, the checks, L24Codec::decode).  Packets of other     *)
(* senders come with every header RTP allows, and with broken ones.        *)
(*                                                                         *)
(* A datagram is its length and the fields its first and last bytes hold;  *)
(* a payload is a sequence of PCM words.  A sample is k / Grid, k an       *)
(* integer, or not a number.  Words have the range Full + 1 on the         *)
(* negative side and Full on the positive (8388607 in the build); a second *)
(* has Second units of time and Rate frames (10^9 and 48000), and          *)
(* timestamps wrap at StampRange (2^32).  Loss and order of packets are    *)
(* ReceivePath's.                                                          *)
(***************************************************************************)
EXTENDS Integers, Sequences

CONSTANTS Widths,          \* channels per stream
          FrameCount,      \* kFramesPerPacket
          Full, Grid, NaN,
          Levels,          \* samples, as multiples of 1 / Grid
          Second, Rate, StampRange,
          Offsets,         \* ptpOffsetNanoseconds as the packets find it
          MaxSlots,        \* bound: packet times after the epoch
          MaxCsrc, MaxWords, MaxSize  \* bounds of foreign headers

\* A packet lasts a whole number of units of time; a frame need not.
ASSUME PacketAssumption ==
    /\ {FrameCount, Full, Grid, Second, Rate, StampRange} \subseteq Nat \ {0}
    /\ Widths \subseteq Nat \ {0} /\ Levels \cup Offsets \subseteq Int
    /\ (Second * FrameCount) % Rate = 0
    /\ {MaxSlots, MaxCsrc, MaxWords, MaxSize} \subseteq Nat

VARIABLES txWidth, rxWidth, \* channelsPerStream of the two engines
          sent,             \* the frames of the packet under way
          datagram,
          heard,            \* what the receiver made of it
          slot, offset, stamp \* of the last packet sent: time, offset, timestamp

packetVars == <<txWidth, rxWidth, sent, datagram, heard, slot, offset, stamp>>

HeaderBytes == 12
PayloadBytes(width) == width * FrameCount * 3
Period == (Second * FrameCount) \div Rate

Blocks(width) == [1 .. width -> [1 .. FrameCount -> Levels \cup {NaN}]]
NoDatagram == [size |-> 0]
Nothing == [state |-> "nothing", block |-> <<>>]

PacketInit ==
    /\ txWidth \in Widths /\ rxWidth \in Widths
    /\ sent = <<>> /\ datagram = NoDatagram /\ heard = Nothing
    /\ slot = 0 /\ offset = 0 /\ stamp = 0

----------------------------------------------------------------------------
(* L24.                                                                    *)

Clamped(k) == IF k < -Grid THEN -Grid ELSE IF k > Grid THEN Grid ELSE k

\* lrint of n / d: to the nearest, halves to the even one
Nearest(n, d) ==
    LET q == n \div d
        r == 2 * (n % d)
    IN IF r < d \/ (r = d /\ q % 2 = 0) THEN q ELSE q + 1

\* Mutant of EncodeSample: an overload is not clamped.
EncodeSampleUnclamped(k) ==
    IF k = NaN THEN 0 ELSE Nearest(k * Full, Grid) % (2 * (Full + 1))

\* The word of a sample; what lrint makes of NaN ends in 24 zero bits on every
\* platform of the build.
EncodeSample(k) ==
    IF k = NaN THEN 0
    ELSE LET value == Clamped(k)
             pcm == IF value = -Grid THEN -(Full + 1) ELSE Nearest(value * Full, Grid)
         IN pcm % (2 * (Full + 1))

\* The sample of a word, as numerator and denominator.
DecodeWord(w) ==
    IF w > Full THEN <<w - 2 * (Full + 1), Full + 1>> ELSE <<w, Full>>

----------------------------------------------------------------------------
(* transmitLoop.                                                           *)

\* Mutant of rtpTimestamp: frames per unit of time are rounded first.
rtpTimestampRounded(time) ==
    LET t == IF time < 0 THEN 0 ELSE time
    IN ((t \div Second) * Rate + (t % Second) \div (Second \div Rate)) % StampRange

rtpTimestamp(time) ==
    LET t == IF time < 0 THEN 0 ELSE time
    IN ((t \div Second) * Rate + ((t % Second) * Rate) \div Second) % StampRange

Interleaved(frames, width) ==
    [i \in 1 .. width * FrameCount |->
        EncodeSample(frames[((i - 1) % width) + 1][((i - 1) \div width) + 1])]

\* The turn for a later slot: deadlines that have passed are skipped.
Transmit ==
    /\ datagram = NoDatagram
    /\ sent' \in Blocks(txWidth)
    /\ slot' \in slot + 1 .. MaxSlots
    /\ offset' \in Offsets
    /\ stamp' = rtpTimestamp(slot' * Period - offset')
    /\ datagram' = [size |-> HeaderBytes + PayloadBytes(txWidth), version |-> 2, padding |-> FALSE,
                    extension |-> FALSE, csrc |-> 0, words |-> 0, last |-> 0, ours |-> TRUE,
                    type |-> "configured", payload |-> Interleaved(sent', txWidth)]
    /\ heard' = Nothing
    /\ UNCHANGED <<txWidth, rxWidth>>

\* Another sender's datagram; what we have sent by then does not matter, so it
\* comes before.  When the length of the extension is the last
\* thing in it, its low byte is the last byte.
Foreign ==
    /\ datagram = NoDatagram /\ slot = 0
    /\ \E size \in 0 .. MaxSize, version \in {1, 2}, padding, extension \in BOOLEAN,
          csrc \in 0 .. MaxCsrc, words \in 0 .. MaxWords, last \in 0 .. MaxWords + 2,
          type \in {"configured", "other"} :
            /\ extension /\ size = HeaderBytes + 4 * csrc + 4 => last = words
            /\ datagram' = [size |-> size, version |-> version, padding |-> padding,
                            extension |-> extension, csrc |-> csrc, words |-> words, last |-> last,
                            ours |-> FALSE, type |-> type, payload |-> <<>>]
    /\ heard' = Nothing
    /\ UNCHANGED <<txWidth, rxWidth, sent, slot, offset, stamp>>

----------------------------------------------------------------------------
(* receiveLoop and consumeLoop.                                            *)

Fixed(d) == HeaderBytes + 4 * d.csrc
PayloadStart(d) == Fixed(d) + (IF d.extension THEN 4 + 4 * d.words ELSE 0)

\* Mutant of Padding: a count of zero is let through.
PaddingFits(d) == d.padding => d.last <= d.size - PayloadStart(d)

Padding(d) == d.padding => d.last # 0 /\ d.last <= d.size - PayloadStart(d)

\* RTPCodec::decode: the checks in their order, each making the next one safe.
Decodes(d) ==
    /\ d.size >= HeaderBytes /\ d.version = 2
    /\ Fixed(d) <= d.size
    /\ d.extension => Fixed(d) + 4 <= d.size
    /\ PayloadStart(d) <= d.size
    /\ Padding(d)

PayloadSize(d) == (IF d.padding THEN d.size - d.last ELSE d.size) - PayloadStart(d)

Expected(d) == d.type = "configured" /\ PayloadSize(d) = PayloadBytes(rxWidth)

Deinterleaved(payload, width) ==
    [c \in 1 .. width |-> [f \in 1 .. FrameCount |-> DecodeWord(payload[(f - 1) * width + c])]]

Receive ==
    /\ datagram # NoDatagram
    /\ heard' = IF Decodes(datagram) /\ Expected(datagram)
                  THEN [state |-> "played",
                        block |-> IF datagram.ours THEN Deinterleaved(datagram.payload, rxWidth) ELSE <<>>]
                  ELSE [state |-> "malformed", block |-> <<>>]
    /\ UNCHANGED <<txWidth, rxWidth, sent, datagram, slot, offset, stamp>>

\* The packet is over and done with; the next one.
Forget ==
    /\ heard # Nothing
    /\ datagram' = NoDatagram /\ sent' = <<>> /\ heard' = Nothing
    /\ UNCHANGED <<txWidth, rxWidth, slot, offset, stamp>>

\* The engine is started again, with a new epoch.
Restart ==
    /\ datagram = NoDatagram /\ slot > 0
    /\ slot' = 0 /\ offset' = 0 /\ stamp' = 0
    /\ UNCHANGED <<txWidth, rxWidth, sent, datagram, heard>>

PacketNext == Transmit \/ Foreign \/ Receive \/ Forget \/ Restart

PacketSpec == PacketInit /\ [][PacketNext]_packetVars

----------------------------------------------------------------------------
(* Properties.                                                             *)

\* A datagram is played exactly if it can be laid out as RTP says: header,
\* contributing sources, extension, a payload of the expected length and, if
\* announced, at least one byte of padding, with nothing left over; all else
\* is counted as malformed (RTPPacket.cpp:37-63, LiveEngine.cpp:209-212).
DecodeExact ==
    heard.state # "nothing" =>
        (heard.state = "played" <=>
            /\ datagram.version = 2 /\ datagram.type = "configured"
            /\ \E pad \in 0 .. datagram.size :
                  /\ datagram.size = 12 + 4 * datagram.csrc
                                     + (IF datagram.extension THEN 4 * (datagram.words + 1) ELSE 0)
                                     + PayloadBytes(rxWidth) + pad
                  /\ IF datagram.padding THEN pad > 0 /\ pad = datagram.last ELSE pad = 0)

\* n / d and k / Grid differ by at most one and a half steps of a word
WithinSteps(n, d, k) ==
    LET difference == n * Grid - k * d
    IN 2 * (Full + 1) * (IF difference < 0 THEN -difference ELSE difference) <= 3 * d * Grid

\* Sample by sample the receiver plays the frames that were sent, each in its
\* channel: within one and a half steps of a word (the two halves of the scale
\* differ by one step), silence and full scale exactly, an overload as full
\* scale of the same sign, NaN as silence.  An engine with another number of
\* channels plays nothing of it (L24Codec.cpp:10-37, LiveEngine.cpp:262-264, :315-318).
FramesArrive ==
    heard.state = "played" /\ datagram.ours =>
        /\ rxWidth = txWidth
        /\ \A c \in 1 .. txWidth, f \in 1 .. FrameCount :
              LET level == IF sent[c][f] = NaN THEN 0 ELSE Clamped(sent[c][f])
                  n == heard.block[c][f][1]
                  d == heard.block[c][f][2]
              IN /\ WithinSteps(n, d, level)
                 /\ level \in {-Grid, 0, Grid} => n * Grid = level * d

\* As long as the offset stays, timestamps advance by the frames of a packet
\* for every packet time, skipped ones included: no rounding error adds up
\* over a second or over the wrap, although a frame is no whole number of
\* nanoseconds (LiveEngine.cpp:51-57, :320-324).
KeepsStep ==
    slot' > slot /\ slot > 0 /\ offset' = offset /\ slot * Period >= offset =>
        stamp' = (stamp + (slot' - slot) * FrameCount) % StampRange
StampsAdvance == [][KeepsStep]_packetVars
=============================================================================
