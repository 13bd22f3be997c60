---------------------------- MODULE PTPExchange ----------------------------
(***************************************************************************)
(* The four timestamps of a PTP measurement: what PTPClient's process()    *)
(* keeps of Sync, Follow_Up and Delay_Resp, what its loop keeps of a       *)
(* Delay_Req, and what PTPCodec makes of messages and of timestamps.  One  *)
(* master; the choice of masters, the filter and the lock are PTPClient's, *)
(* which takes the result of a measurement from a set.                     *)
(*                                                                         *)
(* now is the master's time, the local clock shows now + theta.  Messages  *)
(* stay in the air: each may be received late, out of order, several times *)
(* or never, and may arrive damaged.  The time one spends in switches is   *)
(* what corrections tell, in parts of a unit of time; all other delay is   *)
(* its path.  Software timestamps: a message that waits for the loop has a *)
(* longer path.  Fields named true are history.                            *)
(***************************************************************************)
EXTENDS Integers

CONSTANTS Thetas,           \* local clock minus master's
          Corrections,      \* residence times, in 1 / ScaledUnit of a unit
          ScaledUnit,       \* 65536
          Second,           \* units of a second
          MaxSeconds,       \* seconds that fit a signed count of units
          ExchangeInterval, \* 250 ms: the RequestInterval of PTPClient
          DelayLimit,       \* 20 ms
          MaxTime, MaxSyncs, MaxRequests  \* bounds

ASSUME ExchangeAssumption ==
    /\ {ScaledUnit, Second, MaxSeconds, ExchangeInterval} \subseteq Nat \ {0}
    /\ Thetas \subseteq Int /\ Corrections \subseteq Nat

VARIABLES now, theta, air, syncs, \* Sync messages sent so far
          xSync, xSequence, xPending, egress, nextRequest,
          measured                \* what a Delay_Resp has just given

exchangeVars == <<now, theta, air, syncs, xSync, xSequence, xPending, egress, nextRequest, measured>>
exchangeClientVars == <<xSync, xSequence, xPending, egress, nextRequest>>

NoExchange == [known |-> FALSE]
NoMeasurement == [known |-> FALSE]

ExchangeInit ==
    /\ now = 0 /\ theta \in Thetas
    /\ air = {} /\ syncs = 0
    /\ xSync = NoExchange /\ xSequence = 0 /\ xPending = 0
    /\ egress = 0 /\ nextRequest = 0 /\ measured = NoMeasurement

ExchangeTick ==
    /\ now < MaxTime /\ now' = now + 1 /\ measured' = NoMeasurement
    /\ UNCHANGED <<theta, air, syncs, exchangeClientVars>>

\* The client is stopped and started again, at another time.
Restart ==
    /\ now = MaxTime
    /\ now' = 0 /\ air' = {} /\ syncs' = 0
    /\ xSync' = NoExchange /\ xSequence' = 0 /\ xPending' = 0
    /\ egress' = 0 /\ nextRequest' = 0 /\ measured' = NoMeasurement
    /\ UNCHANGED theta

----------------------------------------------------------------------------
(* Messages on the wire.                                                   *)

HeaderBytes == 34
Bytes(type) == IF type = "delayResponse" THEN 54 ELSE 44

\* putTimestamp
Stamp(time) ==
    LET t == IF time < 0 THEN 0 ELSE time IN [seconds |-> t \div Second, nanos |-> t % Second]

\* putHeader and the encoders.
Message(type, sequence, time, twoStep, correction, true) ==
    [type |-> type, size |-> Bytes(type), length |-> Bytes(type), version |-> 2, domain |-> 0,
     sequence |-> sequence, stamp |-> Stamp(time), twoStep |-> twoStep, correction |-> correction,
     requester |-> "us", true |-> true]

\* What may have happened to a message on its way, or another's message.
Damaged(m) ==
    {m, [m EXCEPT !.size = @ - 1], [m EXCEPT !.size = @ - 1, !.length = @ - 1],
     [m EXCEPT !.size = HeaderBytes - 1], [m EXCEPT !.version = 1], [m EXCEPT !.domain = 1],
     [m EXCEPT !.type = "management"], [m EXCEPT !.stamp.nanos = @ + Second],
     [m EXCEPT !.stamp.seconds = MaxSeconds + 1], [m EXCEPT !.requester = "another"]}

\* getTimestamp
Readable(stamp) == stamp.nanos < Second /\ stamp.seconds <= MaxSeconds
Time(stamp) == stamp.seconds * Second + stamp.nanos

\* PTPCodec::decode, for the messages with a timestamp.
Decodes(m) ==
    /\ m.size >= HeaderBytes /\ m.version = 2
    /\ m.length >= HeaderBytes /\ m.length <= m.size /\ m.domain = 0
    /\ m.type \in {"sync", "followUp", "delayRequest", "delayResponse"}
    /\ m.length >= HeaderBytes + 10 /\ Readable(m.stamp)
    /\ m.type = "delayResponse" => m.length >= 54

----------------------------------------------------------------------------
(* The master.                                                             *)

\* A one-step Sync, or a two-step one with the Follow_Up that brings its time
\* and its correction.
SendSync ==
    /\ syncs < MaxSyncs
    /\ syncs' = syncs + 1
    /\ \E c \in Corrections :
          \/ air' = air \cup {Message("sync", syncs', now, FALSE, c, [sent |-> now, residence |-> c])}
          \/ air' = air \cup
                {Message("sync", syncs', 0, TRUE, 0, [sent |-> now, residence |-> c]),
                 Message("followUp", syncs', now, FALSE, c, [sent |-> now, residence |-> c])}
    /\ measured' = NoMeasurement
    /\ UNCHANGED <<now, theta, exchangeClientVars>>

\* Delay_Req to Delay_Resp, once each.
Answer(m) ==
    /\ m \in air /\ m.type = "delayRequest"
    /\ \A r \in air : r.type = "delayResponse" => r.sequence # m.sequence
    /\ \E c \in Corrections :
          /\ ScaledUnit * (now - m.true.sent) >= c
          /\ air' = air \cup
                {Message("delayResponse", m.sequence, now, FALSE, c,
                         [sent |-> m.true.sent, residence |-> c])}
    /\ measured' = NoMeasurement
    /\ UNCHANGED <<now, theta, syncs, exchangeClientVars>>

----------------------------------------------------------------------------
(* The client.                                                             *)

\* C++ division truncates towards zero.
Truncated(a, b) == IF a >= 0 THEN a \div b ELSE -((-a) \div b)

\* Mutant of calculateE2E: a negative delay is let through.
calculateE2EAnyDelay(origin, ingress, sent, receipt, down, up) ==
    LET there == ingress - origin - Truncated(down, ScaledUnit)
        back == receipt - sent - Truncated(up, ScaledUnit)
    IN [known |-> TRUE, offset |-> Truncated(there - back, 2), delay |-> Truncated(there + back, 2)]

calculateE2E(origin, ingress, sent, receipt, down, up) ==
    LET there == ingress - origin - Truncated(down, ScaledUnit)
        back == receipt - sent - Truncated(up, ScaledUnit)
        delay == Truncated(there + back, 2)
    IN IF delay < 0 THEN [known |-> FALSE]
       ELSE [known |-> TRUE, offset |-> Truncated(there - back, 2), delay |-> delay]

ReceiveSync(m) ==
    /\ m.type = "sync" /\ ScaledUnit * (now - m.true.sent) >= m.true.residence
    /\ xSync' = [known |-> TRUE, sequence |-> m.sequence, ingress |-> now + theta,
                timed |-> ~m.twoStep, origin |-> Time(m.stamp), correction |-> m.correction,
                true |-> ScaledUnit * (now - m.true.sent) - m.true.residence, again |-> 0]
    /\ measured' = NoMeasurement
    /\ UNCHANGED <<xSequence, xPending, egress, nextRequest>>

\* again: corrections added although they were in already.  Bound: once.
ReceiveFollowUp(m) ==
    /\ m.type = "followUp" /\ xSync.known /\ xSync.sequence = m.sequence
    /\ xSync.again = 0
    /\ xSync' = [xSync EXCEPT !.timed = TRUE, !.origin = Time(m.stamp),
                              !.correction = @ + m.correction,
                              !.again = IF xSync.timed THEN @ + m.correction ELSE @]
    /\ measured' = NoMeasurement
    /\ UNCHANGED <<xSequence, xPending, egress, nextRequest>>

ReceiveDelayResponse(m) ==
    /\ m.type = "delayResponse" /\ m.requester = "us"
    /\ xPending # 0 /\ m.sequence = xPending /\ xSync.known /\ xSync.timed
    /\ xPending' = 0
    /\ LET result == calculateE2E(xSync.origin, xSync.ingress, egress, Time(m.stamp),
                                  xSync.correction, m.correction)
       IN measured' = IF result.known /\ result.delay <= DelayLimit
                        THEN [known |-> TRUE, offset |-> result.offset, down |-> xSync.true,
                              up |-> ScaledUnit * (Time(m.stamp) - m.true.sent) - m.true.residence,
                              again |-> xSync.again]
                        ELSE NoMeasurement
    /\ UNCHANGED <<xSync, xSequence, egress, nextRequest>>

Useful(m) == ReceiveSync(m) \/ ReceiveFollowUp(m) \/ ReceiveDelayResponse(m)

\* A message arrives, perhaps damaged.  One that is refused, or that nobody
\* waits for, might as well not have arrived.
Receive(m) ==
    /\ m \in air
    /\ \E arrived \in Damaged(m) : Decodes(arrived) /\ Useful(arrived)
    /\ UNCHANGED <<now, theta, air, syncs>>

\* The loop's Delay_Req: its number and its time are taken first; it is
\* awaited only if the datagram was sent.
SendRequest(sent) ==
    /\ xSync.known /\ xSync.timed /\ now >= nextRequest /\ xSequence < MaxRequests
    /\ xSequence' = xSequence + 1
    /\ egress' = now + theta
    /\ xPending' = IF sent THEN xSequence' ELSE xPending
    /\ air' = IF sent THEN air \cup {Message("delayRequest", xSequence', now + theta, FALSE, 0,
                                             [sent |-> now, residence |-> 0])}
                      ELSE air
    /\ nextRequest' = now + ExchangeInterval
    /\ measured' = NoMeasurement
    /\ UNCHANGED <<now, theta, syncs, xSync>>

ExchangeNext ==
    \/ ExchangeTick \/ Restart \/ SendSync
    \/ \E m \in air : Answer(m) \/ Receive(m)
    \/ \E sent \in BOOLEAN : SendRequest(sent)

ExchangeSpec == ExchangeInit /\ [][ExchangeNext]_exchangeVars

----------------------------------------------------------------------------
(* Properties.                                                             *)

Within(a, b, slack) == a - b <= slack /\ b - a <= slack

\* A measurement that the client accepts gives the offset of the clocks plus
\* half the difference of the two paths, to within one unit that rounding
\* costs, whatever was lost, damaged, overtaken or repeated: timestamps of different exchanges are never mixed.
\* In particular the egress time that a request which could not be sent leaves
\* behind makes the delay negative, as long as the paths are shorter by three
\* units than the time between two requests.  Corrections of a repeated Follow_Up count again
\* (PTPClient.cpp:158-183, :218-225, PTP.cpp:172-182).
MeasuresOffset ==
    measured.known /\ measured.down + measured.up < ScaledUnit * (ExchangeInterval - 3) =>
        Within(2 * ScaledUnit * (measured.offset - theta),
               measured.down - measured.up - measured.again, 2 * ScaledUnit)
=============================================================================
