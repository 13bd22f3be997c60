---------------------------- MODULE PlayoutPace ----------------------------
(***************************************************************************)
(* The receive path at its real pace: each millisecond the source sends    *)
(* one packet, receiveLoop handles it and consumeLoop takes its turn.  The *)
(* network neither loses nor delays anything here; what happens instead is *)
(* that the source restarts, that the consumer's clock runs a little fast  *)
(* and takes a turn before the next packet is there, and that the socket   *)
(* fails and is reopened.  The question is whether the listener hears the  *)
(* stream, and hears it again after a restart.                             *)
(***************************************************************************)
EXTENDS ReceivePath

CONSTANTS RestartSequences, \* the sequence numbers a source may restart from
          MaxDrift,         \* bound: turns the consumer takes too early
          MaxReopen         \* bound: times the socket fails

VARIABLES turn,    \* whose turn it is within the millisecond
          source,  \* what the source sends: its SSRC and next sequence number
          life,    \* how often it has been started
          drift, reopened

paceVars == <<turn, source, life, drift, reopened>>
allVars == <<vars, paceVars>>

PaceInit ==
    /\ Init
    /\ turn = "send"
    /\ \E s \in Ssrc : source = [ssrc |-> s, next |-> FirstSequence[s]]
    /\ life = 1 /\ drift = 0 /\ reopened = 0

\* The source sends its next packet; its payload tells the life it is from.
SourceSends ==
    /\ turn = "send"
    /\ network' = {[ssrc |-> source.ssrc, sequence |-> source.next, number |-> life]}
    /\ source' = [source EXCEPT !.next = After(@)]
    /\ turn' = "receive"
    /\ UNCHANGED <<bufferVars, pushVars, popVars, duplicated, sent, resetRequested, currentSsrc,
                   lastPacket, ticks, historyVars, life, drift, reopened>>

\* The source is stopped and started again within two seconds, under its old
\* SSRC or a new one.
SourceRestarts ==
    /\ turn = "send" /\ life = 1
    /\ life' = 2
    /\ \E s \in Ssrc, n \in RestartSequences : source' = [ssrc |-> s, next |-> n]
    /\ UNCHANGED <<vars, turn, drift, reopened>>

Receives ==
    /\ turn = "receive"
    /\ \/ Receiver /\ UNCHANGED turn
       \/ network = {} /\ pPc = "idle" /\ turn' = "consume" /\ UNCHANGED vars
    /\ UNCHANGED <<source, life, drift, reopened>>

Consumes ==
    /\ turn = "consume"
    /\ \/ ConsumeTurn /\ UNCHANGED ticks
       \/ ConsumeReset \/ ConsumePop \/ ConsumeMissed \/ ConsumeReady \/ ConsumeSkip
    /\ turn' = IF cPc' = "top" THEN "send" ELSE turn
    /\ UNCHANGED <<source, life, drift, reopened>>

\* The consumer's clock has gained a millisecond: a turn without a packet.
ConsumerEarly ==
    /\ turn = "send" /\ drift < MaxDrift
    /\ drift' = drift + 1
    /\ turn' = "consume"
    /\ UNCHANGED <<vars, source, life, reopened>>

SocketReopens ==
    /\ turn = "send" /\ reopened < MaxReopen
    /\ ReceiveError
    /\ reopened' = reopened + 1
    /\ UNCHANGED <<turn, source, life, drift>>

PaceNext == SourceSends \/ SourceRestarts \/ Receives \/ Consumes \/ ConsumerEarly
            \/ SocketReopens

\* The source keeps sending and both threads keep running.  Restarts, drift and
\* socket errors are not fair: they may happen or not.
PaceFairness == WF_allVars(SourceSends) /\ WF_allVars(Receives) /\ WF_allVars(Consumes)

PaceSpec == PaceInit /\ [][PaceNext]_allVars /\ PaceFairness

----------------------------------------------------------------------------
Heard == last.kind = "played" /\ last.packet.number = 2

\* A source that restarts under an SSRC other than the one the loop follows is
\* heard again: the reset it triggers, the packets dropped for it and the new
\* target latency come to an end, and packets of its second life are played
\* (LiveEngine.cpp:211-222, JitterBuffer.hpp:33-39).
RestartIsHeard ==
    (\E p \in network : p.number = 2 /\ currentSsrc # NoSsrc /\ p.ssrc # currentSsrc) ~> Heard

\* The stream never falls silent for good, whatever the consumer's clock gains
\* on the source and whenever the socket is reopened: on an empty buffer the
\* consumer waits instead of running ahead of the packets.  Excepted is a
\* source that restarts without a reset being requested
\* (LiveEngine.cpp:258-260).
NeverSilentForGood == []<>(cPc = "taken" \/ (life = 2 /\ undisturbed))

=============================================================================
