---------------------------- MODULE ReceivePath ----------------------------
(***************************************************************************)
(* One bank's receive side: LiveEngine::receiveLoop pushes what the        *)
(* network delivers into the bank's JitterBuffer, LiveEngine::consumeLoop  *)
(* takes one packet each millisecond, and the two agree on a reset through *)
(* jitterResetRequested.  The sources and the network are outside: packets *)
(* are lost, duplicated and reordered.                                     *)
(*                                                                         *)
(* Statistics counters steer nothing and are left out, except that         *)
(* skipping a packet (packetsLost) and playing one are visible in `last`.  *)
(* setRxActive is the code TransmitPath models as setTxActive; the rings   *)
(* that take the decoded samples are in SharedAudioRing and FramePath.  A  *)
(* packet that fails to decode, or has the wrong type or size, leaves no   *)
(* trace here and is not sent.                                             *)
(***************************************************************************)
EXTENDS JitterBuffer, Functions

CONSTANTS FirstSequence,  \* [Ssrc -> Sequences]: where each source starts
          MaxNumber,      \* bound: packets each source sends
          MaxSent,        \* bound: packets all sources send together
          MaxInFlight,    \* bound: packets in the network at once
          MaxDuplicates,  \* bound: packets delivered more than once
          MaxTicks        \* bound: milliseconds the consumer lives through

ASSUME FirstSequenceAssumption == FirstSequence \in [Ssrc -> Sequences]
ASSUME BoundsAssumption ==
    /\ MaxNumber \in Nat /\ MaxSent \in Nat /\ MaxInFlight \in Nat \ {0}
    /\ MaxDuplicates \in Nat /\ MaxTicks \in Nat
\* A tick moves the expected sequence number by at most one, so within the run
\* it never comes round to a packet again (65 s at one packet a millisecond).
ASSUME LifetimeAssumption == SequenceRange > MaxNumber + MaxTicks

VARIABLES network,        \* packets on their way
          duplicated,     \* packets delivered again so far
          sent,           \* [Ssrc -> Nat]: packets each source has sent
          resetRequested, \* runtime.jitterResetRequested
          currentSsrc,    \* currentSSRC, or NoSsrc while haveSSRC is false
          lastPacket,     \* "never", "recent", or "old": more than 2 s ago
          ticks,          \* turns of consumeLoop so far
          \* History variables:
          last,           \* what the last tick did
          undisturbed,    \* no reset has been requested so far
          forgotten       \* the socket was reopened since the last reset request

loopVars == <<network, duplicated, sent, resetRequested, currentSsrc, lastPacket>>
historyVars == <<last, undisturbed, forgotten>>
vars == <<bufferVars, pushVars, popVars, loopVars, ticks, historyVars>>

Numbers == 0 .. MaxNumber
Nothing == [kind |-> "none", packet |-> EmptyPacket]
Played(packet) == [kind |-> "played", packet |-> packet]

Init ==
    /\ BufferInit
    /\ network = {} /\ duplicated = 0 /\ sent = [s \in Ssrc |-> 0]
    /\ resetRequested = FALSE
    /\ currentSsrc = NoSsrc /\ lastPacket = "never"
    /\ ticks = 0
    /\ last = Nothing /\ undisturbed = TRUE /\ forgotten = FALSE

----------------------------------------------------------------------------
(* The sources and the network.                                            *)

SequenceOf(s, number) == (FirstSequence[s] + number - 1) % SequenceRange

Send(s) ==
    /\ sent[s] < MaxNumber /\ SumFunction(sent) < MaxSent
    /\ Cardinality(network) < MaxInFlight
    /\ sent' = [sent EXCEPT ![s] = @ + 1]
    /\ network' = network \cup
          {[ssrc |-> s, sequence |-> SequenceOf(s, sent[s] + 1), number |-> sent[s] + 1]}
    /\ UNCHANGED <<bufferVars, pushVars, popVars, duplicated, resetRequested, currentSsrc, lastPacket, ticks, historyVars>>

Lose ==
    /\ \E p \in network : network' = network \ {p}
    /\ UNCHANGED <<bufferVars, pushVars, popVars, duplicated, sent, resetRequested, currentSsrc, lastPacket, ticks, historyVars>>

\* What receive() returns: a packet, which the network may deliver again.
Deliver(p) ==
    /\ p \in network
    /\ \/ network' = network \ {p} /\ UNCHANGED duplicated
       \/ /\ duplicated < MaxDuplicates
          /\ duplicated' = duplicated + 1 /\ UNCHANGED network

----------------------------------------------------------------------------
(* receiveLoop                                                             *)

\* Mutant of SourceChanged: the SSRC of a packet is not looked at.
SourceChangeIgnored(p) == FALSE

SourceChanged(p) == currentSsrc # NoSsrc /\ p.ssrc # currentSsrc
ResumedAfterGap == lastPacket = "old"

\* More than two seconds pass without an accepted packet.
Silence ==
    /\ lastPacket = "recent" /\ pPc = "idle"
    /\ lastPacket' = "old"
    /\ UNCHANGED <<bufferVars, pushVars, popVars, network, duplicated, sent, resetRequested, currentSsrc, ticks, historyVars>>

\* A new source, or the first packet after a gap: a reset is requested and the
\* packet is dropped.
ReceiveRestart ==
    /\ pPc = "idle"
    /\ \E p \in network :
          /\ Deliver(p)
          /\ SourceChanged(p) \/ ResumedAfterGap
          /\ resetRequested' = TRUE
          /\ currentSsrc' = p.ssrc
          /\ lastPacket' = "recent"
    /\ undisturbed' = FALSE /\ forgotten' = FALSE
    /\ UNCHANGED <<bufferVars, pushVars, popVars, sent, ticks, last>>

\* The reset has not been taken up yet: the packet is dropped.
ReceiveWhileResetting ==
    /\ pPc = "idle"
    /\ resetRequested
    /\ \E p \in network : Deliver(p) /\ ~SourceChanged(p) /\ ~ResumedAfterGap
    /\ UNCHANGED <<bufferVars, pushVars, popVars, sent, resetRequested, currentSsrc, lastPacket, ticks, historyVars>>

\* push() is entered, or refuses the packet (ringOverruns).
ReceivePush ==
    /\ pPc = "idle"
    /\ ~resetRequested
    /\ \E p \in network :
          /\ Deliver(p) /\ ~SourceChanged(p) /\ ~ResumedAfterGap
          /\ PushClaim(p) \/ PushRefused(p)
    /\ UNCHANGED <<popVars, sent, resetRequested, currentSsrc, lastPacket, ticks, historyVars>>

\* push() has returned true.
ReceiveAccepted ==
    /\ pPc = "done"
    /\ pPc' = "idle"
    /\ currentSsrc' = pPacket.ssrc
    /\ lastPacket' = "recent"
    /\ UNCHANGED <<bufferVars, pPacket, popVars, network, duplicated, sent, resetRequested, ticks, historyVars>>

\* receive() fails: the socket is reopened and the loop's locals start afresh.
ReceiveError ==
    /\ pPc = "idle"
    /\ currentSsrc # NoSsrc \/ lastPacket # "never"
    /\ currentSsrc' = NoSsrc /\ lastPacket' = "never"
    /\ forgotten' = TRUE
    /\ UNCHANGED <<bufferVars, pushVars, popVars, network, duplicated, sent, resetRequested, ticks,
                   last, undisturbed>>

ReceivePushStep == PushStep /\ UNCHANGED <<popVars, loopVars, ticks, historyVars>>

Receiver == ReceiveRestart \/ ReceiveWhileResetting \/ ReceivePush
            \/ ReceivePushStep \/ ReceiveAccepted

----------------------------------------------------------------------------
(* consumeLoop                                                             *)

\* One turn of the loop begins: jitterResetRequested.exchange(false)
ConsumeTurn ==
    /\ cPc = "top"
    /\ resetRequested' = FALSE
    /\ cPc' = IF resetRequested THEN "resetSlots" ELSE "pop"
    /\ last' = IF resetRequested THEN Nothing ELSE last
    /\ UNCHANGED <<bufferVars, pushVars, cSequence, cSlot, network, duplicated, sent, currentSsrc, lastPacket,
                   undisturbed, forgotten>>

ConsumeTop == ticks < MaxTicks /\ ticks' = ticks + 1 /\ ConsumeTurn

ConsumeReset == ResetStep /\ UNCHANGED <<pushVars, loopVars, ticks, historyVars>>

\* pop() has copied out the packet that was due.
Plays == cPc = "read" /\ cPc' = "taken"

\* pop(), and what the loop does with a packet it returned: decode it and write
\* its channels to their rings.
ConsumePop ==
    /\ PopStep
    /\ last' = IF Plays THEN Played(slotPacket[SlotOf(cSequence)]) ELSE last
    /\ UNCHANGED <<pushVars, loopVars, ticks, undisturbed, forgotten>>

\* pop() returned false: ready() && buffered() > 0, then skipMissing().
ConsumeMissed ==
    /\ cPc = "missed"
    /\ cPc' = IF started THEN "ready" ELSE "top"
    /\ UNCHANGED <<bufferVars, pushVars, cSequence, cSlot, loopVars, ticks, historyVars>>

\* Mutant of ConsumeReady: the loop skips on an empty buffer too.
ConsumeReadyAlways ==
    /\ cPc = "ready"
    /\ cPc' = "skip"
    /\ UNCHANGED <<bufferVars, pushVars, cSequence, cSlot, loopVars, ticks, historyVars>>

ConsumeReady ==
    /\ cPc = "ready"
    /\ cPc' = IF buffered > 0 THEN "skip" ELSE "top"
    /\ UNCHANGED <<bufferVars, pushVars, cSequence, cSlot, loopVars, ticks, historyVars>>

ConsumeSkip ==
    /\ cPc = "skip"
    /\ SkipMissing
    /\ cPc' = "top"
    /\ UNCHANGED <<pushVars, cSequence, cSlot, loopVars, ticks, historyVars>>

Consumer == ConsumeTop \/ ConsumeReset \/ ConsumePop \/ ConsumeMissed \/ ConsumeReady \/ ConsumeSkip

----------------------------------------------------------------------------
Sending == \E s \in Ssrc : Send(s)

Next == Sending \/ Lose \/ Silence \/ Receiver \/ ReceiveError \/ Consumer

Spec == Init /\ [][Next]_vars

----------------------------------------------------------------------------
(* Properties.                                                             *)

\* Every variable has its type; sequence numbers wrap at their 16 bits.
TypeOK ==
    /\ BufferTypeOK(Numbers)
    /\ network \subseteq Packets(Numbers)
    /\ sent \in [Ssrc -> Numbers] /\ duplicated \in 0 .. MaxDuplicates
    /\ resetRequested \in BOOLEAN
    /\ currentSsrc \in Ssrc \cup {NoSsrc}
    /\ lastPacket \in {"never", "recent", "old"}
    /\ ticks \in 0 .. MaxTicks
    /\ last.kind \in {"none", "played"} /\ last.packet \in Packets(Numbers)
    /\ undisturbed \in BOOLEAN /\ forgotten \in BOOLEAN

\* push() and pop() never handle the plain members of one slot at once, also
\* when reset() forces states to empty under a push() that is writing
\* (JitterBuffer.hpp:28-31, :52-58, :76).
NoPayloadRace ==
    pPc = "store" /\ cPc = "read" => SlotOf(pPacket.sequence) # SlotOf(cSequence)

\* Between two resets the packets of a source are played in the order they
\* were sent, each at most once, however the network reorders and duplicates
\* them and across the wrap of the sequence number: every packet that is played
\* was sent later than the one played before it, a repeated one too.  A slot
\* whose packet is not the one that is due is never played
\* (JitterBuffer.hpp:51-60).
PlayedInOrder ==
    [][ Plays /\ last.kind = "played" /\ last'.packet.ssrc = last.packet.ssrc
          => last'.packet.number > last.packet.number ]_vars

\* As long as no reset is requested buffered_ is the number of packets held: the
\* ready slots and the one being read, corrected for the thread that is between
\* changing a slot and changing the count.  pop() may take a packet push() has
\* not counted yet; the count is then below zero for a moment, which an
\* unsigned counter shows as a very large value (JitterBuffer.hpp:31-32, :57-58).
BufferedExact ==
    undisturbed =>
    (buffered + (IF pPc = "count" THEN 1 ELSE 0)) % CountRange
        = Cardinality({i \in SlotIds : slotState[i] \in {"ready", "reading"}})
          + (IF cPc \in {"taken", "wrong"} THEN 1 ELSE 0)

\* Once the reset for a new source has been carried out, the buffer holds
\* packets of that source only, however pushes, the request and the slot by slot
\* reset cross: none of the old source survives it (LiveEngine.cpp:213-222,
\* :249; JitterBuffer.hpp:75-78).
SourcesNotMixed ==
    /\ currentSsrc # NoSsrc /\ ~resetRequested /\ ~forgotten
    /\ cPc \notin {"resetSlots", "resetCount", "resetFirst", "resetStarted"}
    => \A i \in ReadySlots : slotPacket[i].ssrc = currentSsrc
=============================================================================
