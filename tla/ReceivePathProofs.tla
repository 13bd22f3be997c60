-------------------------- MODULE ReceivePathProofs --------------------------
(***************************************************************************)
(* For a jitter buffer of any size, any sources and any bounds on what the *)
(* network does: push() and pop() never handle one slot at once, buffered_ *)
(* counts the packets held, the packets of a source are played in order    *)
(* across the wrap of the sequence number, and no packet of an earlier     *)
(* source survives the reset for a new one.                                *)
(*                                                                         *)
(* The invariant is built in layers, each proved from those before it: the *)
(* types; who owns a slot (SlotsOwned); that every packet held is one its  *)
(* source sent (PacketsGood); what the reset handshake keeps apart         *)
(* (SourceMeans); that only the consumer moves the expected sequence number*)
(* once playing has started (StartMeans); how far that number is ahead of  *)
(* the last packet played (OrderMeans); and the count (BufferedExact).     *)
(***************************************************************************)
EXTENDS ReceivePath, FiniteSetTheorems, TLAPS

Resetting == {"resetSlots", "resetCount", "resetFirst", "resetStarted"}

\* A push() that is storing found its slot empty, and nobody fills it
\* meanwhile; a slot pop() reads stays claimed.
SlotsOwned ==
    /\ pPc = "store" => slotState[SlotOf(pPacket.sequence)] \in {"writing", "empty"}
    /\ cPc = "read" => slotState[SlotOf(cSequence)] = "reading"

\* A packet a source has sent.
Sent(p) ==
    /\ p \in Packets(Numbers) /\ p.ssrc \in Ssrc /\ p.number \in 1 .. MaxNumber
    /\ p.sequence = SequenceOf(p.ssrc, p.number)

PacketsGood ==
    /\ \A p \in network : Sent(p)
    /\ pPc # "idle" => Sent(pPacket)
    /\ \A i \in SlotIds : slotState[i] \in {"ready", "reading"} => Sent(slotPacket[i])
    /\ last.kind = "played" => Sent(last.packet)

\* No push() is in progress while a reset is requested, and one that is belongs
\* to the current source; a slot with a packet of another source has not been
\* reached by the reset yet.
SourceMeans ==
    /\ resetRequested => pPc = "idle"
    /\ cPc # "resetSlots" => cSlot = 0
    /\ pPc # "idle" /\ currentSsrc # NoSsrc => pPacket.ssrc = currentSsrc
    /\ ~forgotten /\ ~resetRequested /\ currentSsrc # NoSsrc =>
          \A i \in ReadySlots :
             slotPacket[i].ssrc = currentSsrc \/ (cPc = "resetSlots" /\ i >= cSlot)
    /\ ~forgotten /\ currentSsrc = NoSsrc =>
          /\ ~resetRequested
          /\ \A i \in ReadySlots : pPc # "idle" /\ slotPacket[i].ssrc = pPacket.ssrc

\* push() stores the expected sequence number only while playing has not
\* started, which a reset brings about after what was played is forgotten.
StartMeans ==
    /\ pPc \in {"first", "storeFirst", "target", "begin", "start"} => ~started
    /\ cPc \in {"claim", "read", "taken", "wrong", "advance"} =>
          started /\ cSequence = expectedSequence
    /\ ~started \/ cPc \in Resetting => last.kind = "none"

\* Between the beginning of a turn and the end of it, when the expected
\* sequence number has not been moved in this turn.
InTurn == cPc \in {"pop", "claim", "read", "wrong", "missed", "ready", "skip"}

\* The packet played in this turn is the one that was due; after that turn the
\* expected sequence number is ahead of it, by at most one for each turn.
OrderMeans ==
    /\ cPc # "top" => ticks >= 1
    /\ cPc \in {"taken", "advance"} => last.kind = "played" /\ last.packet.sequence = cSequence
    /\ last.kind = "played" /\ cPc \notin {"taken", "advance"} =>
          \E d \in 1 .. MaxTicks :
             /\ d <= ticks - (IF InTurn THEN 1 ELSE 0)
             /\ expectedSequence = (last.packet.sequence + d) % SequenceRange

\* As long as no reset was requested there is none under way.
CountMeans == (undisturbed => ~resetRequested /\ cPc \notin Resetting) /\ BufferedExact

\* The inductive invariant.
IInv == /\ TypeOK /\ SlotsOwned /\ PacketsGood /\ SourceMeans /\ StartMeans /\ OrderMeans
        /\ CountMeans
----------------------------------------------------------------------------
(* The numbers.                                                            *)

\* What the assumptions on the constants say, in the form used below.
LEMMA Constants ==
  /\ SlotCount \in Nat \ {0} /\ SequenceRange \in Nat \ {0} /\ CountRange \in Nat \ {0}
  /\ CountRange > SlotCount + 3
  /\ MaxNumber \in Nat /\ MaxTicks \in Nat /\ MaxDuplicates \in Nat
  /\ SequenceRange > MaxNumber + MaxTicks
  /\ FirstSequence \in [Ssrc -> Sequences] /\ NoSsrc \notin Ssrc
  <1>1. SequenceRange \in Nat \ {0}
    BY SequenceAssumption DEF SequenceAssumption
  <1> QED
    BY <1>1, SlotAssumption, CountAssumption, BoundsAssumption, LifetimeAssumption,
       FirstSequenceAssumption, NoSsrcAssumption
       DEF SlotAssumption, CountAssumption, BoundsAssumption, LifetimeAssumption,
           FirstSequenceAssumption, NoSsrcAssumption

\* Where % stays.
LEMMA Remainders ==
  /\ \A n \in Int : /\ n % SlotCount \in SlotIds /\ n % SequenceRange \in Sequences
                    /\ n % CountRange \in 0 .. CountRange - 1
  /\ 0 \in SlotIds /\ 0 \in Sequences /\ 0 \in 0 .. CountRange - 1
  BY Constants DEF SlotIds, Sequences

\* A sequence number has a slot.
LEMMA SlotOfIsSlot == \A n \in Sequences : SlotOf(n) \in SlotIds
  BY Remainders DEF SlotOf, Sequences

\* A remainder differs from the number by a multiple of the divisor.
LEMMA MultipleApart ==
  ASSUME NEW n \in Nat, NEW R \in Nat \ {0}
  PROVE  \E k \in Int : n % R = n - k * R
  <1>1. n \div R \in Int /\ n = R * (n \div R) + (n % R) /\ n % R \in 0 .. R - 1
    OBVIOUS
  <1>2. PICK k \in Int : k = n \div R
    BY <1>1
  <1>3. n = R * k + (n % R)
    BY <1>1, <1>2, Zenon
  <1>4. n % R = n - k * R
    BY <1>1, <1>3
  <1> QED
    BY <1>4

\* Two numbers less than R apart with the same remainder are the same.
LEMMA SameRemainder ==
  ASSUME NEW R \in Nat \ {0}, NEW m \in Nat, NEW n \in Nat, m % R = n % R,
         m - n < R, n - m < R
  PROVE  m = n
  <1>1. PICK j \in Int : m % R = m - j * R
    BY MultipleApart
  <1>2. PICK k \in Int : n % R = n - k * R
    BY MultipleApart
  <1>3. PICK h \in Int : h = j - k
    OBVIOUS
  <1>4. m - n = h * R
    BY <1>1, <1>2, <1>3
  <1>5. h < 1 /\ h > -1
    BY <1>4
  <1> QED
    BY <1>4, <1>5

\* The remainder of a sum.
LEMMA RemainderOfSum ==
  ASSUME NEW R \in Nat \ {0}, NEW n \in Nat, NEW d \in Nat
  PROVE  ((n % R) + d) % R = (n + d) % R
  <1>1. n % R \in 0 .. R - 1
    OBVIOUS
  <1>2. PICK k \in Int : n % R = n - k * R
    BY MultipleApart
  <1>3. PICK a \in Nat : a = (n % R) + d
    BY <1>1
  <1>4. PICK j \in Int : a % R = a - j * R
    BY MultipleApart
  <1>5. PICK b \in Nat : b = n + d
    OBVIOUS
  <1>6. PICK i \in Int : b % R = b - i * R
    BY MultipleApart
  <1>7. a % R \in 0 .. R - 1 /\ b % R \in 0 .. R - 1
    BY <1>3, <1>5
  <1>8. PICK h \in Int : h = i - k - j
    OBVIOUS
  <1>9. (a % R) - (b % R) = h * R
    BY <1>2, <1>3, <1>4, <1>5, <1>6, <1>8
  <1>10. h < 1 /\ h > -1
    BY <1>7, <1>9
  <1>11. a % R = b % R
    BY <1>7, <1>9, <1>10
  <1> QED
    BY <1>3, <1>5, <1>11

----------------------------------------------------------------------------
(* The steps in groups: what the receiving thread and the network do       *)
(* outside push(), what push() does, and the consuming thread.             *)

Outside == Sending \/ Lose \/ Silence \/ ReceiveRestart \/ ReceiveWhileResetting
           \/ ReceiveError \/ ReceiveAccepted

\* A packet that is delivered was in the network, and none comes into it.
LEMMA DeliverMeans ==
  ASSUME NEW p, Deliver(p)
  PROVE  /\ p \in network /\ network' \subseteq network
         /\ duplicated' = duplicated \/ (duplicated < MaxDuplicates /\ duplicated' = duplicated + 1)
  BY DEF Deliver

\* What the steps outside push() leave alone.
LEMMA OutsideFrame ==
  ASSUME Outside
  PROVE  /\ UNCHANGED <<bufferVars, popVars, pPacket, ticks, last>>
         /\ pPc' = pPc \/ (pPc = "done" /\ pPc' = "idle")
  BY DEF Outside, Sending, Send, Lose, Silence, ReceiveRestart, ReceiveWhileResetting,
         ReceiveError, ReceiveAccepted, pushVars, historyVars

\* push() is entered, or refuses the packet.
LEMMA PushFrame ==
  ASSUME ReceivePush
  PROVE  \E p \in network :
            /\ ~SourceChanged(p) /\ ~resetRequested /\ network' \subseteq network
            /\ duplicated' = duplicated \/ (duplicated < MaxDuplicates /\ duplicated' = duplicated + 1)
            /\ PushClaim(p) \/ PushRefused(p)
            /\ UNCHANGED <<popVars, sent, resetRequested, currentSsrc, lastPacket, ticks, historyVars>>
  BY DeliverMeans DEF ReceivePush

\* Every step is one of them.
LEMMA StepCases ==
  ASSUME [Next]_vars
  PROVE  \/ UNCHANGED vars
         \/ Outside \/ ReceivePush
         \/ PushStep /\ UNCHANGED <<popVars, loopVars, ticks, historyVars>>
         \/ ConsumeTop \/ ConsumeReset \/ ConsumePop \/ ConsumeMissed \/ ConsumeReady
         \/ ConsumeSkip
  BY DEF Next, Receiver, Consumer, Outside, ReceivePushStep

----------------------------------------------------------------------------
(* The types.                                                              *)

\* A slot that was never filled holds a packet too.
LEMMA EmptyPacketType == EmptyPacket \in Packets(Numbers)
  <1>1. 0 \in Sequences /\ 0 \in Numbers
    BY Remainders, Constants DEF Numbers
  <1> QED
    BY <1>1 DEF EmptyPacket, Packets

\* The buffer is empty at first and the threads are at the top of their loops.
LEMMA InitType == Init => TypeOK
  <1> SUFFICES ASSUME Init PROVE TypeOK
    OBVIOUS
  <1>1. BufferTypeOK(Numbers)
    BY Remainders, EmptyPacketType DEF Init, BufferInit, BufferTypeOK, PushPcs, PopPcs
  <1>2. sent \in [Ssrc -> Numbers] /\ duplicated \in 0 .. MaxDuplicates /\ ticks \in 0 .. MaxTicks
    BY Constants DEF Init, Numbers
  <1> QED
    BY <1>1, <1>2, EmptyPacketType DEF Init, TypeOK, Nothing

\* A packet that is sent.
LEMMA SendMeans ==
  ASSUME TypeOK, NEW s \in Ssrc, Send(s)
  PROVE  /\ sent' \in [Ssrc -> Numbers]
         /\ \E p : Sent(p) /\ network' = network \cup {p}
  <1>1. sent[s] \in Nat /\ sent[s] < MaxNumber /\ sent \in [Ssrc -> Numbers]
    BY DEF TypeOK, Numbers, Send
  <1>2. sent[s] + 1 \in Numbers /\ sent[s] + 1 \in 1 .. MaxNumber
    BY <1>1, Constants DEF Numbers
  <1>3. SequenceOf(s, sent[s] + 1) \in Sequences
    <2>1. FirstSequence[s] \in Int
      BY Constants DEF Sequences
    <2>2. FirstSequence[s] + (sent[s] + 1) - 1 \in Int
      BY <1>1, <2>1
    <2> QED
      BY <2>2, Remainders DEF SequenceOf
  <1>4. PICK p : p = [ssrc |-> s, sequence |-> SequenceOf(s, sent[s] + 1), number |-> sent[s] + 1]
    OBVIOUS
  <1>5. Sent(p)
    BY <1>2, <1>3, <1>4 DEF Sent, Packets
  <1>6. network' = network \cup {p}
    BY <1>4 DEF Send
  <1>7. sent' \in [Ssrc -> Numbers]
    BY <1>1, <1>2 DEF Send
  <1> QED
    BY <1>5, <1>6, <1>7

\* Steps outside push() and the consumer keep the types.
LEMMA OutsideType == TypeOK /\ Outside => TypeOK'
  <1> SUFFICES ASSUME TypeOK, Outside PROVE TypeOK'
    OBVIOUS
  <1>1. BufferTypeOK(Numbers)'
    BY OutsideFrame DEF TypeOK, BufferTypeOK, bufferVars, popVars, PushPcs
  <1>2. network' \subseteq Packets(Numbers) /\ sent' \in [Ssrc -> Numbers]
    <2>1. CASE Sending
      BY <2>1, SendMeans DEF Sending, Sent, TypeOK
    <2>2. CASE ~Sending
      BY <2>2, DeliverMeans DEF Outside, Lose, Silence, ReceiveRestart, ReceiveWhileResetting,
                  ReceiveError, ReceiveAccepted, TypeOK
    <2> QED
      BY <2>1, <2>2
  <1>3. duplicated' \in 0 .. MaxDuplicates
    <2>1. duplicated' = duplicated \/ (duplicated < MaxDuplicates /\ duplicated' = duplicated + 1)
      BY DEF Outside, Sending, Send, Lose, Silence, ReceiveRestart, ReceiveWhileResetting,
             ReceiveError, ReceiveAccepted, Deliver
    <2>2. duplicated \in 0 .. MaxDuplicates
      BY DEF TypeOK
    <2> QED
      BY <2>1, <2>2, Constants
  <1>4. /\ resetRequested' \in BOOLEAN /\ currentSsrc' \in Ssrc \cup {NoSsrc}
        /\ lastPacket' \in {"never", "recent", "old"}
    <2>1. \A p \in network : p.ssrc \in Ssrc \cup {NoSsrc}
      BY DEF TypeOK, Packets
    <2>2. pPacket.ssrc \in Ssrc \cup {NoSsrc}
      BY DEF TypeOK, BufferTypeOK, Packets
    <2> QED
      BY <2>1, <2>2 DEF Outside, Sending, Send, Lose, Silence, ReceiveRestart,
             ReceiveWhileResetting, ReceiveError, ReceiveAccepted, TypeOK
  <1>5. undisturbed' \in BOOLEAN /\ forgotten' \in BOOLEAN
    BY DEF Outside, Sending, Send, Lose, Silence, ReceiveRestart, ReceiveWhileResetting,
           ReceiveError, ReceiveAccepted, TypeOK, historyVars
  <1> QED
    BY <1>1, <1>2, <1>3, <1>4, <1>5, OutsideFrame DEF TypeOK

\* push() keeps the types.
LEMMA PushType ==
  ASSUME TypeOK,
         \/ ReceivePush
         \/ PushStep /\ UNCHANGED <<popVars, loopVars, ticks, historyVars>>
  PROVE  TypeOK'
  <1>1. pPacket \in Packets(Numbers) /\ pPacket.sequence \in Sequences
    BY DEF TypeOK, BufferTypeOK, Packets
  <1>2. CASE ReceivePush
    <2>1. PICK p \in network :
            /\ ~SourceChanged(p) /\ ~resetRequested /\ network' \subseteq network
            /\ duplicated' = duplicated \/ (duplicated < MaxDuplicates /\ duplicated' = duplicated + 1)
            /\ PushClaim(p) \/ PushRefused(p)
            /\ UNCHANGED <<popVars, sent, resetRequested, currentSsrc, lastPacket, ticks, historyVars>>
      BY <1>2, PushFrame
    <2>2. p \in Packets(Numbers)
      BY DEF TypeOK
    <2>3. duplicated' \in 0 .. MaxDuplicates
      <3>1. duplicated \in 0 .. MaxDuplicates
        BY DEF TypeOK
      <3> QED
        BY <2>1, <3>1, Constants
    <2>4. BufferTypeOK(Numbers)'
      BY <2>1, <2>2 DEF TypeOK, BufferTypeOK, PushClaim, PushRefused, bufferVars, pushVars,
                        popVars, PushPcs
    <2> QED
      BY <2>1, <2>3, <2>4 DEF TypeOK, historyVars
  <1>3. CASE PushStep /\ UNCHANGED <<popVars, loopVars, ticks, historyVars>>
    <2>1. /\ slotState' \in [SlotIds -> {"empty", "writing", "ready", "reading"}]
          /\ slotPacket' \in [SlotIds -> Packets(Numbers)]
      BY <1>1, <1>3 DEF TypeOK, BufferTypeOK, PushStep, PushStore, PushCount, PushCheckStarted,
           PushClaimFirst, PushStoreFirst, PushCheckTarget, PushStoreExpected, PushStart, bufferVars
    <2>2. buffered' \in 0 .. CountRange - 1
      <3>1. buffered \in 0 .. CountRange - 1
        BY DEF TypeOK, BufferTypeOK
      <3>2. buffered' = buffered \/ buffered' = (buffered + 1) % CountRange
        BY <1>3 DEF PushStep, PushStore, PushCount, PushCheckStarted,
             PushClaimFirst, PushStoreFirst, PushCheckTarget, PushStoreExpected, PushStart, bufferVars
      <3>3. buffered + 1 \in Int
        BY <3>1, Constants
      <3> QED
        BY <3>1, <3>2, <3>3, Remainders
    <2>3. /\ firstSequence' \in Sequences /\ expectedSequence' \in Sequences
          /\ hasFirst' \in BOOLEAN /\ started' \in BOOLEAN
          /\ pPc' \in PushPcs /\ pPacket' = pPacket
      BY <1>1, <1>3 DEF TypeOK, BufferTypeOK, PushStep, PushStore, PushCount, PushCheckStarted,
           PushClaimFirst, PushStoreFirst, PushCheckTarget, PushStoreExpected, PushStart, bufferVars,
           PushPcs
    <2>4. BufferTypeOK(Numbers)'
      BY <1>3, <2>1, <2>2, <2>3 DEF TypeOK, BufferTypeOK, popVars
    <2> QED
      BY <1>3, <2>4 DEF TypeOK, loopVars, historyVars
  <1> QED
    BY <1>2, <1>3

\* consumeLoop, with pop(), skipMissing() and reset(), keeps the types.
LEMMA ConsumeType ==
  ASSUME TypeOK,
         ConsumeTop \/ ConsumeReset \/ ConsumePop \/ ConsumeMissed \/ ConsumeReady \/ ConsumeSkip
  PROVE  TypeOK'
  <1> USE DEF ResetStep, PopStep
  <1>1. /\ UNCHANGED <<pushVars, network, duplicated, sent, currentSsrc, lastPacket, undisturbed,
                       forgotten>>
        /\ UNCHANGED <<slotPacket, firstSequence>>
    BY DEF ConsumeTop, ConsumeTurn, ConsumeReset, ConsumePop, ConsumeMissed, ConsumeReady,
           ConsumeSkip, ResetSlot, ResetCount, ResetFirst, ResetStarted, PopLoad, PopClaim, PopRead,
           PopUncount, PopAdvance, SkipMissing, loopVars, historyVars, bufferVars
  <1>2. slotState' \in [SlotIds -> {"empty", "writing", "ready", "reading"}]
    BY DEF TypeOK, BufferTypeOK, ConsumeTop, ConsumeTurn, ConsumeReset, ConsumePop, ConsumeMissed,
           ConsumeReady, ConsumeSkip, ResetSlot, ResetCount, ResetFirst, ResetStarted, PopLoad,
           PopClaim, PopRead, PopUncount, PopAdvance, SkipMissing, bufferVars
  <1>3. buffered' \in 0 .. CountRange - 1
    <2>1. buffered \in 0 .. CountRange - 1
      BY DEF TypeOK, BufferTypeOK
    <2>2. buffered' = buffered \/ buffered' = 0 \/ buffered' = Decrement(buffered)
      BY DEF ConsumeTop, ConsumeTurn, ConsumeReset, ConsumePop, ConsumeMissed, ConsumeReady,
             ConsumeSkip, ResetSlot, ResetCount, ResetFirst, ResetStarted, PopLoad, PopClaim, PopRead,
             PopUncount, PopAdvance, SkipMissing, bufferVars
    <2>3. buffered + CountRange - 1 \in Int
      BY <2>1, Constants
    <2> QED
      BY <2>1, <2>2, <2>3, Remainders DEF Decrement
  <1>4. expectedSequence' \in Sequences /\ cSequence' \in Sequences
    <2>1. expectedSequence \in Sequences /\ cSequence \in Sequences
      BY DEF TypeOK, BufferTypeOK
    <2>2. \A n \in Sequences : After(n) \in Sequences
      <3>1. \A n \in Sequences : n + 1 \in Int
        BY DEF Sequences
      <3> QED
        BY <3>1, Remainders DEF After
    <2>3. /\ expectedSequence' \in {expectedSequence, After(cSequence), After(expectedSequence)}
          /\ cSequence' \in {cSequence, expectedSequence}
      BY DEF ConsumeTop, ConsumeTurn, ConsumeReset, ConsumePop, ConsumeMissed, ConsumeReady,
             ConsumeSkip, ResetSlot, ResetCount, ResetFirst, ResetStarted, PopLoad, PopClaim, PopRead,
             PopUncount, PopAdvance, SkipMissing, bufferVars
    <2> QED
      BY <2>1, <2>2, <2>3
  <1>5. hasFirst' \in BOOLEAN /\ started' \in BOOLEAN /\ cPc' \in PopPcs /\ resetRequested' \in BOOLEAN
    BY DEF TypeOK, BufferTypeOK, PopPcs, ConsumeTop, ConsumeTurn, ConsumeReset, ConsumePop,
           ConsumeMissed, ConsumeReady, ConsumeSkip, ResetSlot, ResetCount, ResetFirst, ResetStarted,
           PopLoad, PopClaim, PopRead, PopUncount, PopAdvance, SkipMissing, loopVars, bufferVars
  <1>6. cSlot' \in SlotIds
    <2>1. cSlot \in SlotIds
      BY DEF TypeOK, BufferTypeOK
    <2>2. cSlot' = cSlot \/ cSlot' = 0 \/ (cSlot + 1 < SlotCount /\ cSlot' = cSlot + 1)
      BY DEF ConsumeTop, ConsumeTurn, ConsumeReset, ConsumePop, ConsumeMissed, ConsumeReady,
             ConsumeSkip, ResetSlot, ResetCount, ResetFirst, ResetStarted, PopLoad, PopClaim, PopRead,
             PopUncount, PopAdvance, SkipMissing
    <2> QED
      BY <2>1, <2>2, Constants DEF SlotIds
  <1>7. ticks' \in 0 .. MaxTicks
    <2>1. ticks \in 0 .. MaxTicks
      BY DEF TypeOK
    <2>2. ticks' = ticks \/ (ticks < MaxTicks /\ ticks' = ticks + 1)
      BY DEF ConsumeTop, ConsumeReset, ConsumePop, ConsumeMissed, ConsumeReady, ConsumeSkip
    <2> QED
      BY <2>1, <2>2, Constants
  <1>8. last'.kind \in {"none", "played"} /\ last'.packet \in Packets(Numbers)
    <2>1. last' = last \/ last' = Nothing \/ last' = Played(slotPacket[SlotOf(cSequence)])
      BY DEF ConsumeTop, ConsumeTurn, ConsumeReset, ConsumePop, ConsumeMissed, ConsumeReady,
             ConsumeSkip, historyVars
    <2>2. slotPacket[SlotOf(cSequence)] \in Packets(Numbers)
      BY SlotOfIsSlot DEF TypeOK, BufferTypeOK
    <2> QED
      BY <2>1, <2>2, EmptyPacketType DEF Nothing, Played, TypeOK
  <1>9. BufferTypeOK(Numbers)'
    BY <1>1, <1>2, <1>3, <1>4, <1>5, <1>6 DEF TypeOK, BufferTypeOK, pushVars
  <1> QED
    BY <1>1, <1>5, <1>7, <1>8, <1>9 DEF TypeOK

\* Every step keeps the types.
LEMMA NextType == TypeOK /\ [Next]_vars => TypeOK'
  <1>1. ASSUME TypeOK, UNCHANGED vars PROVE TypeOK'
    BY <1>1 DEF TypeOK, BufferTypeOK, vars, bufferVars, pushVars, popVars, loopVars, historyVars
  <1> QED
    BY <1>1, StepCases, OutsideType, PushType, ConsumeType

----------------------------------------------------------------------------
(* Who owns a slot.                                                        *)

\* A slot stays with the thread that claimed it.
LEMMA NextOwned == TypeOK /\ SlotsOwned /\ [Next]_vars => SlotsOwned'
  <1> SUFFICES ASSUME TypeOK, SlotsOwned, [Next]_vars PROVE SlotsOwned'
    OBVIOUS
  <1>1. /\ pPacket.sequence \in Sequences /\ cSequence \in Sequences
        /\ slotState \in [SlotIds -> {"empty", "writing", "ready", "reading"}]
        /\ SlotOf(pPacket.sequence) \in SlotIds /\ SlotOf(cSequence) \in SlotIds /\ cSlot \in SlotIds
    BY SlotOfIsSlot DEF TypeOK, BufferTypeOK, Packets
  <1>2. CASE UNCHANGED vars
    BY <1>2 DEF SlotsOwned, vars, bufferVars, pushVars, popVars
  <1>3. CASE Outside
    BY <1>3, OutsideFrame DEF SlotsOwned, bufferVars, popVars
  <1>4. CASE ReceivePush
    <2>1. PICK p \in network : (PushClaim(p) \/ PushRefused(p)) /\ UNCHANGED popVars
      BY <1>4, PushFrame
    <2>2. SlotOf(p.sequence) \in SlotIds
      BY SlotOfIsSlot DEF TypeOK, Packets
    <2> QED
      BY <1>1, <2>1, <2>2 DEF SlotsOwned, PushClaim, PushRefused, bufferVars, pushVars, popVars
  <1>5. CASE PushStep /\ UNCHANGED <<popVars, loopVars, ticks, historyVars>>
    BY <1>1, <1>5 DEF SlotsOwned, PushStep, PushStore, PushCount, PushCheckStarted, PushClaimFirst,
           PushStoreFirst, PushCheckTarget, PushStoreExpected, PushStart, bufferVars, popVars
  <1>6. CASE ConsumeReset
    BY <1>1, <1>6 DEF SlotsOwned, ConsumeReset, ResetStep, ResetSlot, ResetCount, ResetFirst,
           ResetStarted, pushVars
  <1>7. CASE ConsumePop
    BY <1>1, <1>7 DEF SlotsOwned, ConsumePop, PopStep, PopLoad, PopClaim, PopRead, PopUncount,
           PopAdvance, pushVars, bufferVars
  <1>8. CASE ConsumeTop \/ ConsumeMissed \/ ConsumeReady \/ ConsumeSkip
    BY <1>1, <1>8 DEF SlotsOwned, ConsumeTop, ConsumeTurn, ConsumeMissed, ConsumeReady, ConsumeSkip,
           SkipMissing, pushVars, bufferVars
  <1> QED
    BY <1>2, <1>3, <1>4, <1>5, <1>6, <1>7, <1>8, StepCases

----------------------------------------------------------------------------
(* What the packets held are.                                              *)

\* What is held was sent: a packet only moves from the network to a slot to
\* the output.
LEMMA NextPackets == TypeOK /\ SlotsOwned /\ PacketsGood /\ [Next]_vars => PacketsGood'
  <1> SUFFICES ASSUME TypeOK, SlotsOwned, PacketsGood, [Next]_vars PROVE PacketsGood'
    OBVIOUS
  <1>1. /\ slotState \in [SlotIds -> {"empty", "writing", "ready", "reading"}]
        /\ DOMAIN slotPacket = SlotIds
        /\ SlotOf(pPacket.sequence) \in SlotIds /\ SlotOf(cSequence) \in SlotIds /\ cSlot \in SlotIds
    BY SlotOfIsSlot DEF TypeOK, BufferTypeOK, Packets
  <1>2. CASE UNCHANGED vars
    BY <1>2 DEF PacketsGood, vars, bufferVars, pushVars, loopVars, historyVars
  <1>3. CASE Outside
    <2>1. \A p \in network' : Sent(p)
      <3>1. CASE Sending
        BY <3>1, SendMeans DEF Sending, PacketsGood
      <3>2. CASE ~Sending
        BY <1>3, <3>2, DeliverMeans DEF Outside, Lose, Silence, ReceiveRestart,
                  ReceiveWhileResetting, ReceiveError, ReceiveAccepted, PacketsGood
      <3> QED
        BY <3>1, <3>2
    <2> QED
      BY <1>3, <2>1, OutsideFrame DEF PacketsGood, bufferVars
  <1>4. CASE ReceivePush
    <2>1. PICK p \in network : /\ PushClaim(p) \/ PushRefused(p)
                               /\ network' \subseteq network /\ UNCHANGED historyVars
      BY <1>4, PushFrame
    <2>2. SlotOf(p.sequence) \in SlotIds
      BY SlotOfIsSlot DEF TypeOK, Packets
    <2> QED
      BY <1>1, <2>1, <2>2 DEF PacketsGood, PushClaim, PushRefused, bufferVars, pushVars, historyVars
  <1>5. CASE PushStep /\ UNCHANGED <<popVars, loopVars, ticks, historyVars>>
    <2>1. network' = network /\ last' = last /\ pPacket' = pPacket /\ pPc # "idle" /\ Sent(pPacket)
      BY <1>5 DEF PacketsGood, PushStep, PushStore, PushCount, PushCheckStarted, PushClaimFirst,
           PushStoreFirst, PushCheckTarget, PushStoreExpected, PushStart, loopVars, historyVars
    <2>2. \A i \in SlotIds : slotState'[i] \in {"ready", "reading"} => Sent(slotPacket'[i])
      BY <1>1, <1>5, <2>1 DEF PacketsGood, PushStep, PushStore, PushCount, PushCheckStarted,
           PushClaimFirst, PushStoreFirst, PushCheckTarget, PushStoreExpected, PushStart, bufferVars
    <2> QED
      BY <2>1, <2>2 DEF PacketsGood
  <1>6. CASE ConsumeReset
    BY <1>1, <1>6 DEF PacketsGood, ConsumeReset, ResetStep, ResetSlot, ResetCount, ResetFirst,
           ResetStarted, pushVars, loopVars, historyVars
  <1>7. CASE ConsumePop
    <2>1. /\ UNCHANGED <<network, pPc, pPacket, slotPacket>>
          /\ \A i \in SlotIds : slotState'[i] \in {"ready", "reading"} =>
                                   slotState[i] \in {"ready", "reading"}
      BY <1>1, <1>7 DEF ConsumePop, PopStep, PopLoad, PopClaim, PopRead, PopUncount, PopAdvance,
           pushVars, bufferVars, loopVars
    <2>2. last' = last \/ (cPc = "read" /\ last' = Played(slotPacket[SlotOf(cSequence)]))
      BY <1>7 DEF ConsumePop, Plays
    <2> QED
      BY <1>1, <2>1, <2>2 DEF PacketsGood, SlotsOwned, Played
  <1>8. CASE ConsumeTop \/ ConsumeMissed \/ ConsumeReady \/ ConsumeSkip
    BY <1>8 DEF PacketsGood, ConsumeTop, ConsumeTurn, ConsumeMissed, ConsumeReady, ConsumeSkip,
           SkipMissing, pushVars, bufferVars, loopVars, historyVars, Nothing
  <1> QED
    BY <1>2, <1>3, <1>4, <1>5, <1>6, <1>7, <1>8, StepCases

----------------------------------------------------------------------------
(* The sources.                                                            *)

\* The handshake: no push() during a request, and a reset goes through all the
\* slots before a packet of the new source is looked for.
LEMMA NextSource ==
  TypeOK /\ SlotsOwned /\ PacketsGood /\ SourceMeans /\ [Next]_vars => SourceMeans'
  <1> SUFFICES ASSUME TypeOK, SlotsOwned, PacketsGood, SourceMeans, [Next]_vars PROVE SourceMeans'
    OBVIOUS
  <1>1. /\ slotState \in [SlotIds -> {"empty", "writing", "ready", "reading"}]
        /\ DOMAIN slotPacket = SlotIds
        /\ SlotOf(pPacket.sequence) \in SlotIds /\ SlotOf(cSequence) \in SlotIds /\ cSlot \in SlotIds
        /\ resetRequested \in BOOLEAN /\ forgotten \in BOOLEAN
    BY SlotOfIsSlot DEF TypeOK, BufferTypeOK, Packets
  <1>2. CASE UNCHANGED vars
    BY <1>2 DEF SourceMeans, ReadySlots, vars, bufferVars, pushVars, popVars, loopVars, historyVars
  <1>3. CASE Outside
    <2>1. CASE Sending \/ Lose \/ Silence \/ ReceiveWhileResetting
      BY <2>1 DEF Sending, Send, Lose, Silence, ReceiveWhileResetting, SourceMeans, ReadySlots,
                  bufferVars, pushVars, popVars, historyVars
    <2>2. CASE ReceiveRestart
      <3>1. resetRequested' /\ currentSsrc' \in Ssrc /\ pPc' = "idle" /\ UNCHANGED popVars
        BY <2>2, DeliverMeans DEF ReceiveRestart, PacketsGood, Sent, pushVars
      <3> QED
        BY <3>1, Constants DEF SourceMeans, popVars
    <2>3. CASE ReceiveError
      BY <2>3 DEF ReceiveError, SourceMeans, popVars, pushVars
    <2>4. CASE ReceiveAccepted
      <3>1. pPacket.ssrc \in Ssrc /\ pPc = "done" /\ ~resetRequested
        BY <2>4 DEF ReceiveAccepted, PacketsGood, Sent, SourceMeans
      <3> QED
        BY <2>4, <3>1, Constants DEF ReceiveAccepted, SourceMeans, ReadySlots, bufferVars, popVars,
                                     historyVars
    <2> QED
      BY <1>3, <2>1, <2>2, <2>3, <2>4 DEF Outside
  <1>4. CASE ReceivePush
    <2>1. PICK p \in network :
            /\ ~SourceChanged(p) /\ ~resetRequested
            /\ PushClaim(p) \/ PushRefused(p)
            /\ UNCHANGED <<popVars, sent, resetRequested, currentSsrc, lastPacket, ticks, historyVars>>
      BY <1>4, PushFrame
    <2>2. SlotOf(p.sequence) \in SlotIds
      BY SlotOfIsSlot DEF TypeOK, Packets
    <2>3. CASE PushRefused(p)
      BY <2>1, <2>3 DEF PushRefused, SourceMeans, ReadySlots, bufferVars, pushVars, popVars,
                        historyVars
    <2>4. CASE PushClaim(p)
      <3>1. ReadySlots' = ReadySlots /\ slotPacket' = slotPacket
        BY <1>1, <2>2, <2>4 DEF PushClaim, ReadySlots
      <3> QED
        BY <2>1, <2>4, <3>1 DEF PushClaim, SourceMeans, SourceChanged, popVars, historyVars
    <2> QED
      BY <2>1, <2>3, <2>4
  <1>5. CASE PushStep /\ UNCHANGED <<popVars, loopVars, ticks, historyVars>>
    <2>1. /\ pPc # "idle" /\ pPc' # "idle" /\ pPacket' = pPacket
          /\ UNCHANGED <<cPc, cSlot, resetRequested, currentSsrc, forgotten>>
      BY <1>5 DEF PushStep, PushStore, PushCount, PushCheckStarted, PushClaimFirst,
           PushStoreFirst, PushCheckTarget, PushStoreExpected, PushStart, loopVars, historyVars,
           popVars
    <2>2. \A i \in ReadySlots' : \/ i \in ReadySlots /\ slotPacket'[i] = slotPacket[i]
                                 \/ slotPacket'[i] = pPacket
      BY <1>1, <1>5 DEF ReadySlots, PushStep, PushStore, PushCount, PushCheckStarted,
           PushClaimFirst, PushStoreFirst, PushCheckTarget, PushStoreExpected, PushStart, bufferVars
    <2> QED
      BY <2>1, <2>2 DEF SourceMeans
  <1>6. CASE ConsumeReset
    <2>1. /\ UNCHANGED <<pPc, pPacket, resetRequested, currentSsrc, forgotten, slotPacket>>
      BY <1>6 DEF ConsumeReset, ResetStep, ResetSlot, ResetCount, ResetFirst, ResetStarted,
                  pushVars, loopVars, historyVars
    <2>2. CASE ResetSlot
      <3>1. /\ ReadySlots' = ReadySlots \ {cSlot}
            /\ \/ cSlot + 1 < SlotCount /\ cSlot' = cSlot + 1 /\ cPc' = "resetSlots"
               \/ ~(cSlot + 1 < SlotCount) /\ cSlot' = 0 /\ cPc' = "resetCount"
            /\ cPc = "resetSlots"
        BY <1>1, <2>2 DEF ResetSlot, ReadySlots
      <3>2. \A i \in SlotIds \ {cSlot} : i >= cSlot =>
               cSlot + 1 < SlotCount /\ i >= cSlot + 1
        BY <1>1, Constants DEF SlotIds
      <3>3. ReadySlots \subseteq SlotIds
        BY DEF ReadySlots
      <3> QED
        BY <2>1, <3>1, <3>2, <3>3 DEF SourceMeans
    <2>3. CASE ResetCount \/ ResetFirst \/ ResetStarted
      BY <2>1, <2>3 DEF ResetCount, ResetFirst, ResetStarted, SourceMeans, ReadySlots
    <2> QED
      BY <1>6, <2>2, <2>3 DEF ConsumeReset, ResetStep
  <1>7. CASE ConsumePop
    <2>1. /\ UNCHANGED <<pPc, pPacket, resetRequested, currentSsrc, forgotten, slotPacket, cSlot>>
          /\ ReadySlots' \subseteq ReadySlots /\ cPc # "resetSlots" /\ cPc' # "resetSlots"
      BY <1>1, <1>7 DEF ConsumePop, PopStep, PopLoad, PopClaim, PopRead, PopUncount, PopAdvance,
           pushVars, bufferVars, loopVars, ReadySlots
    <2> QED
      BY <2>1 DEF SourceMeans
  <1>8. CASE ConsumeTop
    <2>1. cSlot = 0 /\ \A i \in ReadySlots : i >= 0
      BY <1>8 DEF ConsumeTop, ConsumeTurn, SourceMeans, ReadySlots, SlotIds
    <2>2. /\ ~resetRequested' /\ ReadySlots' = ReadySlots /\ cPc = "top"
          /\ cPc' = (IF resetRequested THEN "resetSlots" ELSE "pop")
          /\ UNCHANGED <<pPc, pPacket, currentSsrc, forgotten, slotPacket, cSlot>>
      BY <1>8 DEF ConsumeTop, ConsumeTurn, ReadySlots, bufferVars, pushVars
    <2> QED
      BY <1>1, <2>1, <2>2 DEF SourceMeans
  <1>9. CASE ConsumeMissed \/ ConsumeReady \/ ConsumeSkip
    BY <1>9 DEF SourceMeans, ConsumeMissed, ConsumeReady, ConsumeSkip, ReadySlots,
           SkipMissing, pushVars, bufferVars, loopVars, historyVars
  <1> QED
    BY <1>2, <1>3, <1>4, <1>5, <1>6, <1>7, <1>8, <1>9, StepCases

----------------------------------------------------------------------------
(* Who moves the expected sequence number.                                 *)

\* While playing, only consumeLoop stores the expected sequence number.
LEMMA NextStart == TypeOK /\ StartMeans /\ [Next]_vars => StartMeans'
  <1> SUFFICES ASSUME TypeOK, StartMeans, [Next]_vars PROVE StartMeans'
    OBVIOUS
  <1> USE DEF Resetting
  <1>1. started \in BOOLEAN
    BY DEF TypeOK, BufferTypeOK
  <1>2. CASE UNCHANGED vars
    BY <1>2 DEF StartMeans, vars, bufferVars, pushVars, popVars, historyVars
  <1>3. CASE Outside
    BY <1>3, OutsideFrame DEF StartMeans, bufferVars, popVars
  <1>4. CASE ReceivePush
    <2>1. PICK p \in network : /\ PushClaim(p) \/ PushRefused(p)
                               /\ UNCHANGED <<popVars, historyVars>>
      BY <1>4, PushFrame
    <2> QED
      BY <2>1 DEF StartMeans, PushClaim, PushRefused, bufferVars, pushVars, popVars, historyVars
  <1>5. CASE PushStep /\ UNCHANGED <<popVars, loopVars, ticks, historyVars>>
    BY <1>1, <1>5 DEF StartMeans, PushStep, PushStore, PushCount, PushCheckStarted, PushClaimFirst,
           PushStoreFirst, PushCheckTarget, PushStoreExpected, PushStart, bufferVars, popVars,
           historyVars
  <1>6. CASE ConsumeReset
    BY <1>6 DEF StartMeans, ConsumeReset, ResetStep, ResetSlot, ResetCount, ResetFirst,
           ResetStarted, pushVars, historyVars
  <1>7. CASE ConsumePop
    BY <1>1, <1>7 DEF StartMeans, ConsumePop, Plays, PopStep, PopLoad, PopClaim, PopRead, PopUncount,
           PopAdvance, pushVars, bufferVars, historyVars
  <1>8. CASE ConsumeTop \/ ConsumeMissed \/ ConsumeReady \/ ConsumeSkip
    BY <1>1, <1>8 DEF StartMeans, ConsumeTop, ConsumeTurn, ConsumeMissed, ConsumeReady, ConsumeSkip,
           SkipMissing, pushVars, bufferVars, historyVars, Nothing
  <1> QED
    BY <1>2, <1>3, <1>4, <1>5, <1>6, <1>7, <1>8, StepCases

----------------------------------------------------------------------------
(* How far it has moved.                                                   *)

\* One turn further.
LEMMA OneFurther ==
  ASSUME NEW q \in Sequences, NEW d \in Nat
  PROVE  After((q + d) % SequenceRange) = (q + (d + 1)) % SequenceRange
  <1>1. q \in Nat /\ q + d \in Nat
    BY DEF Sequences
  <1>2. (((q + d) % SequenceRange) + 1) % SequenceRange = ((q + d) + 1) % SequenceRange
    BY <1>1, Constants, RemainderOfSum
  <1>3. (q + d) + 1 = q + (d + 1)
    BY <1>1
  <1> QED
    BY <1>2, <1>3 DEF After

\* A turn moves the expected sequence number by at most one, forwards.
LEMMA NextOrder ==
  TypeOK /\ StartMeans /\ OrderMeans /\ [Next]_vars => OrderMeans'
  <1> SUFFICES ASSUME TypeOK, StartMeans, OrderMeans, [Next]_vars PROVE OrderMeans'
    OBVIOUS
  <1>1. ticks \in Nat /\ ticks <= MaxTicks /\ MaxTicks \in Nat
    BY Constants DEF TypeOK
  <1>2. CASE UNCHANGED vars
    BY <1>2 DEF OrderMeans, InTurn, vars, bufferVars, popVars, historyVars
  <1>3. CASE Outside
    BY <1>3, OutsideFrame DEF OrderMeans, InTurn, bufferVars, popVars
  <1>4. CASE ReceivePush
    <2>1. PICK p \in network : /\ PushClaim(p) \/ PushRefused(p)
                               /\ UNCHANGED <<popVars, ticks, historyVars>>
      BY <1>4, PushFrame
    <2>2. UNCHANGED <<cPc, cSequence, expectedSequence, ticks, last>>
      BY <2>1 DEF PushClaim, PushRefused, bufferVars, popVars, historyVars
    <2> QED
      BY <2>2 DEF OrderMeans, InTurn
  <1>5. CASE PushStep /\ UNCHANGED <<popVars, loopVars, ticks, historyVars>>
    <2>1. UNCHANGED <<cPc, cSequence, ticks, last>>
      BY <1>5 DEF popVars, historyVars
    <2>2. CASE PushStoreExpected
      <3>1. last.kind # "played"
        BY <2>2 DEF PushStoreExpected, StartMeans
      <3> QED
        BY <2>1, <3>1 DEF OrderMeans
    <2>3. CASE expectedSequence' = expectedSequence
      BY <2>1, <2>3 DEF OrderMeans, InTurn
    <2> QED
      BY <1>5, <2>2, <2>3 DEF PushStep, PushStore, PushCount, PushCheckStarted, PushClaimFirst,
           PushStoreFirst, PushCheckTarget, PushStart, bufferVars
  <1>6. CASE ConsumeReset
    <2>1. /\ cPc # "top" /\ ticks' = ticks /\ last' = last /\ last.kind # "played"
          /\ cPc' \in {"resetSlots", "resetCount", "resetFirst", "resetStarted", "pop"}
      BY <1>6 DEF ConsumeReset, ResetStep, ResetSlot, ResetCount, ResetFirst, ResetStarted,
                  historyVars, StartMeans, Resetting
    <2> QED
      BY <2>1 DEF OrderMeans
  <1>7. CASE ConsumeTop
    <2>1. /\ ticks' = ticks + 1 /\ cPc = "top" /\ cPc' \in {"resetSlots", "pop"}
          /\ expectedSequence' = expectedSequence /\ (last' = last \/ last'.kind = "none")
          /\ ticks' <= MaxTicks
          /\ cPc' = "resetSlots" => last'.kind = "none"
      BY <1>1, <1>7 DEF ConsumeTop, ConsumeTurn, bufferVars, Nothing
    <2>2. ASSUME last'.kind = "played"
          PROVE  \E d \in 1 .. MaxTicks :
                   /\ d <= ticks' - (IF InTurn' THEN 1 ELSE 0)
                   /\ expectedSequence' = (last'.packet.sequence + d) % SequenceRange
      <3>1. last' = last /\ cPc' = "pop"
        BY <2>1, <2>2
      <3>2. PICK d \in 1 .. MaxTicks :
              /\ d <= ticks - (IF InTurn THEN 1 ELSE 0)
              /\ expectedSequence = (last.packet.sequence + d) % SequenceRange
        BY <2>1, <2>2, <3>1 DEF OrderMeans
      <3>3. d <= ticks' - (IF InTurn' THEN 1 ELSE 0)
        BY <1>1, <2>1, <3>1, <3>2 DEF InTurn
      <3> QED
        BY <2>1, <3>1, <3>2, <3>3
    <2>3. ticks' >= 1
      BY <1>1, <2>1
    <2> QED
      BY <2>1, <2>2, <2>3 DEF OrderMeans
  <1>8. CASE ConsumePop
    <2>1. ticks' = ticks
      BY <1>8 DEF ConsumePop
    <2>2. CASE PopAdvance
      <3>1. /\ cPc = "advance" /\ cPc' = "top" /\ last' = last /\ expectedSequence' = After(cSequence)
            /\ last.packet.sequence = cSequence /\ ticks >= 1
        BY <1>8, <2>2 DEF ConsumePop, Plays, PopAdvance, OrderMeans
      <3>2. ~InTurn'
        BY <3>1 DEF InTurn
      <3>3. expectedSequence' = (last'.packet.sequence + 1) % SequenceRange
        BY <3>1 DEF After
      <3>4. 1 \in 1 .. MaxTicks /\ 1 <= ticks' - (IF InTurn' THEN 1 ELSE 0)
        BY <1>1, <2>1, <3>1, <3>2
      <3> QED
        BY <3>1, <3>3, <3>4 DEF OrderMeans
    <2>3. CASE PopRead
      <3>1. /\ cPc = "read" /\ UNCHANGED <<cSequence, expectedSequence>>
            /\ \/ /\ cPc' = "taken" /\ last' = Played(slotPacket[SlotOf(cSequence)])
                  /\ slotPacket[SlotOf(cSequence)].sequence = cSequence
               \/ cPc' = "wrong" /\ last' = last
        BY <1>8, <2>3 DEF ConsumePop, Plays, PopRead
      <3>2. CASE cPc' = "taken"
        BY <2>1, <3>1, <3>2 DEF OrderMeans, Played
      <3>3. CASE cPc' = "wrong"
        BY <2>1, <3>1, <3>3 DEF OrderMeans, InTurn
      <3> QED
        BY <3>1, <3>2, <3>3
    <2>4. CASE PopUncount
      <3>1. /\ cPc \in {"taken", "wrong"} /\ cPc' = (IF cPc = "taken" THEN "advance" ELSE "missed")
            /\ UNCHANGED <<cSequence, expectedSequence, last>>
        BY <1>8, <2>4 DEF ConsumePop, Plays, PopUncount
      <3> QED
        BY <2>1, <3>1 DEF OrderMeans, InTurn
    <2>5. CASE PopLoad \/ PopClaim
      <3>1. /\ cPc \in {"pop", "claim"} /\ cPc' \in {"claim", "read", "missed"}
            /\ UNCHANGED <<expectedSequence, last>>
        BY <1>8, <2>5 DEF ConsumePop, Plays, PopLoad, PopClaim, bufferVars
      <3> QED
        BY <2>1, <3>1 DEF OrderMeans, InTurn
    <2> QED
      BY <1>8, <2>2, <2>3, <2>4, <2>5 DEF ConsumePop, PopStep
  <1>9. CASE ConsumeMissed \/ ConsumeReady
    <2>1. /\ cPc \in {"missed", "ready"} /\ cPc' \in {"ready", "skip", "top"}
          /\ UNCHANGED <<expectedSequence, last, ticks>>
      BY <1>9 DEF ConsumeMissed, ConsumeReady, bufferVars, historyVars
    <2>2. InTurn /\ cPc # "top"
      BY <2>1 DEF InTurn
    <2>3. ASSUME last.kind = "played"
          PROVE  \E d \in 1 .. MaxTicks :
                   /\ d <= ticks - (IF InTurn' THEN 1 ELSE 0)
                   /\ expectedSequence = (last.packet.sequence + d) % SequenceRange
      <3>1. PICK d \in 1 .. MaxTicks :
              /\ d <= ticks - (IF InTurn THEN 1 ELSE 0)
              /\ expectedSequence = (last.packet.sequence + d) % SequenceRange
        BY <2>1, <2>3 DEF OrderMeans
      <3>2. d <= ticks - (IF InTurn' THEN 1 ELSE 0)
        BY <1>1, <2>2, <3>1
      <3> QED
        BY <3>1, <3>2
    <2> QED
      BY <2>1, <2>2, <2>3 DEF OrderMeans
  <1>10. CASE ConsumeSkip
    <2>1. /\ cPc = "skip" /\ cPc' = "top" /\ UNCHANGED <<last, ticks>>
          /\ expectedSequence' = (IF started THEN After(expectedSequence) ELSE expectedSequence)
      BY <1>10 DEF ConsumeSkip, SkipMissing, historyVars
    <2>2. InTurn /\ ~InTurn'
      BY <2>1 DEF InTurn
    <2>3. ASSUME last.kind = "played"
          PROVE  \E d \in 1 .. MaxTicks :
                   /\ d <= ticks - (IF InTurn' THEN 1 ELSE 0)
                   /\ expectedSequence' = (last.packet.sequence + d) % SequenceRange
      <3>1. PICK d \in 1 .. MaxTicks :
              /\ d <= ticks - (IF InTurn THEN 1 ELSE 0)
              /\ expectedSequence = (last.packet.sequence + d) % SequenceRange
        BY <2>1, <2>3 DEF OrderMeans
      <3>2. started /\ last.packet.sequence \in Sequences
        BY <2>3 DEF StartMeans, TypeOK, Packets
      <3>3. d + 1 \in 1 .. MaxTicks /\ d + 1 <= ticks - (IF InTurn' THEN 1 ELSE 0) /\ d \in Nat
        BY <1>1, <2>2, <3>1
      <3>4. expectedSequence' = (last.packet.sequence + (d + 1)) % SequenceRange
        BY <2>1, <3>1, <3>2, <3>3, OneFurther
      <3> QED
        BY <3>3, <3>4
    <2> QED
      BY <2>1, <2>3 DEF OrderMeans
  <1> QED
    BY <1>2, <1>3, <1>4, <1>5, <1>6, <1>7, <1>8, <1>9, <1>10, StepCases

----------------------------------------------------------------------------
(* The count.                                                              *)

\* The remainder of a number below the divisor, and of the divisor.
LEMMA SmallRemainder ==
  ASSUME NEW R \in Nat \ {0}
  PROVE  R % R = 0 /\ \A n \in 0 .. R - 1 : n % R = n
  <1>1. ASSUME NEW n \in 0 .. R - 1 PROVE n % R = n
    <2>1. n \in Nat
      OBVIOUS
    <2>2. PICK k \in Int : n % R = n - k * R
      BY <2>1, MultipleApart
    <2>3. n % R \in 0 .. R - 1
      OBVIOUS
    <2>4. k < 1 /\ k > -1
      BY <2>2, <2>3
    <2> QED
      BY <2>2, <2>4
  <1>2. R % R = 0
    <2>1. PICK k \in Int : R % R = R - k * R
      BY MultipleApart
    <2>2. R % R \in 0 .. R - 1
      OBVIOUS
    <2>3. k < 2 /\ k > 0
      BY <2>1, <2>2
    <2> QED
      BY <2>1, <2>3
  <1> QED
    BY <1>1, <1>2

\* The slots with a packet.
HeldIn(states) == {i \in SlotIds : states[i] \in {"ready", "reading"}}

\* The number of packets held is a natural number, at most one for each slot.
LEMMA HeldBounds ==
  ASSUME NEW f
  PROVE  /\ IsFiniteSet(HeldIn(f)) /\ Cardinality(HeldIn(f)) \in Nat
         /\ Cardinality(HeldIn(f)) <= SlotCount
  <1>1. IsFiniteSet(SlotIds) /\ Cardinality(SlotIds) = SlotCount
    <2>1. SlotCount - 1 \in Int /\ 0 <= SlotCount - 1 /\ SlotCount - 1 - 0 + 1 = SlotCount
      BY Constants
    <2>2. /\ IsFiniteSet(0 .. SlotCount - 1)
          /\ Cardinality(0 .. SlotCount - 1)
               = (IF 0 > SlotCount - 1 THEN 0 ELSE SlotCount - 1 - 0 + 1)
      BY <2>1, FS_Interval
    <2> QED
      BY <2>1, <2>2 DEF SlotIds
  <1>2. HeldIn(f) \subseteq SlotIds
    BY DEF HeldIn
  <1>3. IsFiniteSet(HeldIn(f)) /\ Cardinality(HeldIn(f)) <= Cardinality(SlotIds)
    BY <1>1, <1>2, FS_Subset
  <1> QED
    BY <1>1, <1>3, FS_CardinalityType

\* What one change of a slot does to their number.
LEMMA HeldChange ==
  ASSUME NEW f \in [SlotIds -> {"empty", "writing", "ready", "reading"}], NEW i \in SlotIds
  PROVE  /\ f[i] \in {"empty", "writing"} =>
              /\ Cardinality(HeldIn([f EXCEPT ![i] = "ready"])) = Cardinality(HeldIn(f)) + 1
              /\ HeldIn([f EXCEPT ![i] = "writing"]) = HeldIn(f)
         /\ f[i] \in {"ready", "reading"} =>
              /\ Cardinality(HeldIn([f EXCEPT ![i] = "empty"])) = Cardinality(HeldIn(f)) - 1
              /\ HeldIn([f EXCEPT ![i] = "reading"]) = HeldIn(f)
  <1>1. IsFiniteSet(HeldIn(f)) /\ Cardinality(HeldIn(f)) \in Nat
    BY HeldBounds
  <1>2. CASE f[i] \in {"empty", "writing"}
    <2>1. \A j : j \in HeldIn([f EXCEPT ![i] = "ready"]) <=> j \in HeldIn(f) \cup {i}
      BY <1>2 DEF HeldIn
    <2>2. \A j : j \in HeldIn([f EXCEPT ![i] = "writing"]) <=> j \in HeldIn(f)
      BY <1>2 DEF HeldIn
    <2>3. /\ HeldIn([f EXCEPT ![i] = "ready"]) = HeldIn(f) \cup {i}
          /\ HeldIn([f EXCEPT ![i] = "writing"]) = HeldIn(f)
      BY <2>1, <2>2
    <2>4. i \notin HeldIn(f)
      BY <1>2 DEF HeldIn
    <2>5. Cardinality(HeldIn(f) \cup {i}) = Cardinality(HeldIn(f)) + 1
      BY <1>1, <2>4, FS_AddElement
    <2> QED
      BY <1>2, <2>3, <2>5, Zenon
  <1>3. CASE f[i] \in {"ready", "reading"}
    <2>1. \A j : j \in HeldIn([f EXCEPT ![i] = "empty"]) <=> j \in HeldIn(f) \ {i}
      BY <1>3 DEF HeldIn
    <2>2. \A j : j \in HeldIn([f EXCEPT ![i] = "reading"]) <=> j \in HeldIn(f)
      BY <1>3 DEF HeldIn
    <2>3. /\ HeldIn([f EXCEPT ![i] = "empty"]) = HeldIn(f) \ {i}
          /\ HeldIn([f EXCEPT ![i] = "reading"]) = HeldIn(f)
      BY <2>1, <2>2
    <2>4. i \in HeldIn(f)
      BY <1>3 DEF HeldIn
    <2>5. Cardinality(HeldIn(f) \ {i}) = Cardinality(HeldIn(f)) - 1
      BY <1>1, <2>4, FS_RemoveElement
    <2> QED
      BY <1>3, <2>3, <2>5, Zenon
  <1> QED
    BY <1>2, <1>3

\* The count, what push() has still to add to it, what pop() has still to take
\* from it, and the slots with a packet.
Exact(count, x, held, y) == (count + x) % CountRange = held + y

\* How the exact count is kept, modulo the range of a size_t, by each of the
\* five changes: counting and taking, before and after the slot's state.
LEMMA CountArithmetic ==
  ASSUME NEW b \in 0 .. CountRange - 1, NEW n \in Nat, n <= SlotCount
  PROVE  /\ \A y \in {0, 1} : Exact(b, 0, n, y) <=> b = n + y
         /\ \A y \in {0, 1} : Exact(b, 0, n, y) => Exact(b, 1, n + 1, y)
         /\ \A y \in {0, 1} : Exact(b, 1, n, y) => Exact((b + 1) % CountRange, 0, n, y)
         /\ \A x \in {0, 1} : Exact(b, x, n, 1) => Exact(Decrement(b), x, n, 0)
         /\ \A x \in {0, 1} : Exact(b, x, n, 0) /\ n >= 1 => Exact(b, x, n - 1, 1)
  <1>1. /\ CountRange \in Nat \ {0} /\ CountRange > SlotCount + 3 /\ SlotCount \in Nat
        /\ CountRange % CountRange = 0 /\ \A k \in 0 .. CountRange - 1 : k % CountRange = k
    BY Constants, SmallRemainder
  <1>2. b % CountRange = b /\ b + 0 = b /\ b \in Nat
    BY <1>1
  <1>3. \A y \in {0, 1} : Exact(b, 0, n, y) <=> b = n + y
    BY <1>2 DEF Exact
  <1>4. \/ b + 1 < CountRange /\ (b + 1) % CountRange = b + 1
        \/ b + 1 = CountRange /\ (b + 1) % CountRange = 0
    BY <1>1, <1>2
  <1>5. ASSUME NEW y \in {0, 1}, Exact(b, 0, n, y) PROVE Exact(b, 1, n + 1, y)
    BY <1>1, <1>3, <1>4, <1>5 DEF Exact
  <1>6. ASSUME NEW y \in {0, 1}, Exact(b, 1, n, y)
        PROVE  Exact((b + 1) % CountRange, 0, n, y)
    <2>1. (b + 1) % CountRange = n + y
      BY <1>6 DEF Exact
    <2>2. (b + 1) % CountRange \in 0 .. CountRange - 1
      BY <1>1, <1>2, <1>4
    <2>3. ((b + 1) % CountRange) % CountRange = (b + 1) % CountRange
      BY <1>1, <2>2
    <2>4. ((b + 1) % CountRange) + 0 = (b + 1) % CountRange
      BY <2>2, <1>1
    <2> QED
      BY <2>1, <2>3, <2>4 DEF Exact
  <1>7. ASSUME NEW x \in {0, 1}, Exact(b, x, n, 1) PROVE Exact(Decrement(b), x, n, 0)
    <2>1. \/ b >= 1 /\ Decrement(b) = b - 1
          \/ b = 0 /\ Decrement(b) = CountRange - 1
      <3>1. CASE b >= 1
        <4>1. b - 1 \in Nat /\ b + CountRange - 1 = CountRange + (b - 1)
          BY <1>1, <1>2, <3>1
        <4>2. ((CountRange % CountRange) + (b - 1)) % CountRange = (CountRange + (b - 1)) % CountRange
          BY <1>1, <4>1, RemainderOfSum
        <4>3. (CountRange % CountRange) + (b - 1) = b - 1 /\ b - 1 \in 0 .. CountRange - 1
          BY <1>1, <1>2, <4>1
        <4> QED
          BY <1>1, <3>1, <4>1, <4>2, <4>3 DEF Decrement
      <3>2. CASE b = 0
        <4>1. b + CountRange - 1 = CountRange - 1 /\ CountRange - 1 \in 0 .. CountRange - 1
          BY <1>1, <3>2
        <4> QED
          BY <1>1, <3>2, <4>1 DEF Decrement
      <3> QED
        BY <1>2, <3>1, <3>2
    <2>2. CASE x = 0
      <3>1. b = n + 1
        BY <1>3, <1>7, <2>2
      <3>2. Decrement(b) = n /\ n \in 0 .. CountRange - 1
        BY <1>1, <2>1, <3>1
      <3> QED
        BY <1>1, <2>2, <3>2 DEF Exact
    <2>3. CASE x = 1
      <3>1. (b + 1) % CountRange = n + 1
        BY <1>7, <2>3 DEF Exact
      <3>2. b = n
        BY <1>2, <1>4, <3>1
      <3>3. CASE b >= 1
        <4>1. Decrement(b) + 1 = n /\ n \in 0 .. CountRange - 1
          BY <1>1, <1>2, <2>1, <3>2, <3>3
        <4> QED
          BY <1>1, <2>3, <4>1 DEF Exact
      <3>4. CASE b = 0
        <4>1. Decrement(b) + 1 = CountRange /\ n = 0
          BY <1>1, <2>1, <3>2, <3>4
        <4> QED
          BY <1>1, <2>3, <4>1 DEF Exact
      <3> QED
        BY <1>2, <3>3, <3>4
    <2> QED
      BY <2>2, <2>3
  <1>8. ASSUME NEW x \in {0, 1}, Exact(b, x, n, 0), n >= 1 PROVE Exact(b, x, n - 1, 1)
    <2>1. n + 0 = (n - 1) + 1
      OBVIOUS
    <2> QED
      BY <1>8, <2>1 DEF Exact
  <1> QED
    BY <1>3, <1>5, <1>6, <1>7, <1>8

ToAdd == IF pPc = "count" THEN 1 ELSE 0
ToTake == IF cPc \in {"taken", "wrong"} THEN 1 ELSE 0
HeldCount == Cardinality(HeldIn(slotState))

\* BufferedExact in these terms.
LEMMA ExactForm ==
  /\ BufferedExact <=> (undisturbed => Exact(buffered, ToAdd, HeldCount, ToTake))
  /\ BufferedExact' <=> (undisturbed' => Exact(buffered', ToAdd', HeldCount', ToTake'))
  BY DEF BufferedExact, Exact, ToAdd, ToTake, HeldCount, HeldIn

\* A slot becomes ready or empty together with what is still to be counted.
LEMMA NextCount == TypeOK /\ SlotsOwned /\ CountMeans /\ [Next]_vars => CountMeans'
  <1> SUFFICES ASSUME TypeOK, SlotsOwned, CountMeans, [Next]_vars PROVE CountMeans'
    OBVIOUS
  <1> USE DEF Resetting
  <1>1. /\ slotState \in [SlotIds -> {"empty", "writing", "ready", "reading"}]
        /\ SlotOf(pPacket.sequence) \in SlotIds /\ SlotOf(cSequence) \in SlotIds
        /\ buffered \in 0 .. CountRange - 1 /\ undisturbed \in BOOLEAN
    BY SlotOfIsSlot DEF TypeOK, BufferTypeOK, Packets
  <1>2. HeldCount \in Nat /\ HeldCount <= SlotCount
    BY HeldBounds DEF HeldCount
  <1>3. ToAdd \in {0, 1} /\ ToTake \in {0, 1}
    BY DEF ToAdd, ToTake
  <1>4. ASSUME undisturbed
        PROVE  /\ ~resetRequested /\ cPc \notin Resetting
               /\ Exact(buffered, ToAdd, HeldCount, ToTake)
    BY <1>4, ExactForm DEF CountMeans
  \* Steps that leave alone what is counted.
  <1>5. ASSUME UNCHANGED <<buffered, ToAdd, HeldCount, ToTake>>, undisturbed' => undisturbed,
               undisturbed' => ~resetRequested' /\ cPc' \notin Resetting
        PROVE  CountMeans'
    BY <1>4, <1>5, ExactForm DEF CountMeans
  <1>6. CASE UNCHANGED vars
    BY <1>6, <1>4, <1>5 DEF vars, bufferVars, pushVars, popVars, loopVars, historyVars, ToAdd,
                            HeldCount, ToTake
  <1>7. CASE Outside
    <2>1. UNCHANGED <<buffered, ToAdd, HeldCount, ToTake, cPc>>
      BY <1>7, OutsideFrame DEF bufferVars, popVars, ToAdd, HeldCount, ToTake
    <2>2. undisturbed' => undisturbed /\ ~resetRequested'
      BY <1>4, <1>7 DEF Outside, Sending, Send, Lose, Silence, ReceiveRestart,
             ReceiveWhileResetting, ReceiveError, ReceiveAccepted, historyVars
    <2> QED
      BY <1>4, <1>5, <2>1, <2>2
  <1>8. CASE ReceivePush
    <2>1. PICK p \in network :
            /\ PushClaim(p) \/ PushRefused(p)
            /\ UNCHANGED <<popVars, resetRequested, historyVars>>
      BY <1>8, PushFrame
    <2>2. SlotOf(p.sequence) \in SlotIds
      BY SlotOfIsSlot DEF TypeOK, Packets
    <2>3. HeldIn(slotState') = HeldIn(slotState)
      BY <1>1, <2>1, <2>2, HeldChange, ZenonT(40) DEF PushClaim, PushRefused, bufferVars
    <2>4. UNCHANGED <<buffered, ToAdd, HeldCount, ToTake, cPc, resetRequested, undisturbed>>
      BY <2>1, <2>3 DEF PushClaim, PushRefused, bufferVars, pushVars, popVars, historyVars, ToAdd,
                        ToTake, HeldCount
    <2> QED
      BY <1>4, <1>5, <2>4
  <1>9. CASE PushStep /\ UNCHANGED <<popVars, loopVars, ticks, historyVars>>
    <2>1. UNCHANGED <<cPc, ToTake, resetRequested, undisturbed>>
      BY <1>9 DEF popVars, loopVars, historyVars, ToTake
    <2>2. CASE PushStore
      <3>1. /\ slotState' = [slotState EXCEPT ![SlotOf(pPacket.sequence)] = "ready"]
            /\ slotState[SlotOf(pPacket.sequence)] \in {"empty", "writing"}
            /\ buffered' = buffered /\ ToAdd = 0 /\ ToAdd' = 1
        BY <2>2 DEF PushStore, SlotsOwned, ToAdd
      <3>2. HeldCount' = HeldCount + 1
        BY <1>1, <3>1, HeldChange, Zenon DEF HeldCount
      <3>3. undisturbed => Exact(buffered, 1, HeldCount + 1, ToTake)
        BY <1>1, <1>2, <1>3, <1>4, <3>1, CountArithmetic
      <3> QED
        BY <1>4, <2>1, <3>1, <3>2, <3>3, ExactForm DEF CountMeans
    <2>3. CASE PushCount
      <3>1. /\ slotState' = slotState /\ buffered' = (buffered + 1) % CountRange
            /\ ToAdd = 1 /\ ToAdd' = 0
        BY <2>3 DEF PushCount, ToAdd
      <3>2. HeldCount' = HeldCount
        BY <3>1 DEF HeldCount
      <3>3. undisturbed => Exact(buffered', 0, HeldCount, ToTake)
        BY <1>1, <1>2, <1>3, <1>4, <3>1, CountArithmetic
      <3> QED
        BY <1>4, <2>1, <3>1, <3>2, <3>3, ExactForm DEF CountMeans
    <2>4. CASE ~PushStore /\ ~PushCount
      <3>1. UNCHANGED <<buffered, ToAdd, HeldCount>>
        BY <1>9, <2>4 DEF PushStep, PushCheckStarted, PushClaimFirst, PushStoreFirst,
             PushCheckTarget, PushStoreExpected, PushStart, bufferVars, ToAdd, HeldCount
      <3> QED
        BY <1>4, <1>5, <2>1, <3>1
    <2> QED
      BY <2>2, <2>3, <2>4
  <1>10. CASE ConsumeReset
    <2>1. cPc \in Resetting /\ undisturbed' = undisturbed
      BY <1>10 DEF ConsumeReset, ResetStep, ResetSlot, ResetCount, ResetFirst, ResetStarted,
                   historyVars
    <2> QED
      BY <1>4, <2>1, ExactForm DEF CountMeans
  <1>11. CASE ConsumePop
    <2>1. UNCHANGED <<ToAdd, resetRequested, undisturbed>> /\ cPc' \notin Resetting
      BY <1>11 DEF ConsumePop, PopStep, PopLoad, PopClaim, PopRead, PopUncount, PopAdvance,
                   pushVars, loopVars, ToAdd
    <2>2. CASE PopRead
      <3>1. /\ slotState' = [slotState EXCEPT ![SlotOf(cSequence)] = "empty"]
            /\ slotState[SlotOf(cSequence)] \in {"ready", "reading"}
            /\ buffered' = buffered /\ ToTake = 0 /\ ToTake' = 1
        BY <2>2 DEF PopRead, SlotsOwned, ToTake
      <3>2. HeldCount' = HeldCount - 1
        BY <1>1, <3>1, HeldChange, Zenon DEF HeldCount
      <3>3. HeldCount' \in Nat
        BY HeldBounds DEF HeldCount
      <3>4. HeldCount >= 1
        BY <1>2, <3>2, <3>3
      <3>5. undisturbed => Exact(buffered, ToAdd, HeldCount - 1, 1)
        BY <1>1, <1>2, <1>3, <1>4, <3>1, <3>4, CountArithmetic
      <3> QED
        BY <1>4, <2>1, <3>1, <3>2, <3>5, ExactForm DEF CountMeans
    <2>3. CASE PopUncount
      <3>1. /\ slotState' = slotState /\ buffered' = Decrement(buffered)
            /\ ToTake = 1 /\ ToTake' = 0
        BY <2>3 DEF PopUncount, ToTake
      <3>2. HeldCount' = HeldCount
        BY <3>1 DEF HeldCount
      <3>3. undisturbed => Exact(buffered', ToAdd, HeldCount, 0)
        BY <1>1, <1>2, <1>3, <1>4, <3>1, CountArithmetic
      <3> QED
        BY <1>4, <2>1, <3>1, <3>2, <3>3, ExactForm, ZenonT(40) DEF CountMeans
    <2>4. CASE PopClaim
      <3>1. HeldIn(slotState') = HeldIn(slotState)
        BY <1>1, <2>4, HeldChange DEF PopClaim
      <3>2. UNCHANGED <<buffered, HeldCount, ToTake>>
        BY <2>4, <3>1 DEF PopClaim, HeldCount, ToTake
      <3> QED
        BY <1>4, <1>5, <2>1, <3>2
    <2>5. CASE PopLoad \/ PopAdvance
      <3>1. UNCHANGED <<buffered, HeldCount, ToTake>>
        BY <2>5 DEF PopLoad, PopAdvance, bufferVars, HeldCount, ToTake
      <3> QED
        BY <1>4, <1>5, <2>1, <3>1
    <2> QED
      BY <1>11, <2>2, <2>3, <2>4, <2>5 DEF ConsumePop, PopStep
  <1>12. CASE ConsumeTop \/ ConsumeMissed \/ ConsumeReady \/ ConsumeSkip
    <2>1. UNCHANGED <<buffered, ToAdd, HeldCount, ToTake, undisturbed>>
      BY <1>12 DEF ConsumeTop, ConsumeTurn, ConsumeMissed, ConsumeReady, ConsumeSkip, SkipMissing,
                   bufferVars, pushVars, historyVars, ToAdd, HeldCount, ToTake
    <2>2. undisturbed' => ~resetRequested' /\ cPc' \notin Resetting
      BY <1>4, <1>12, <2>1 DEF ConsumeTop, ConsumeTurn, ConsumeMissed, ConsumeReady, ConsumeSkip,
                   loopVars
    <2> QED
      BY <1>5, <2>1, <2>2
  <1> QED
    BY <1>6, <1>7, <1>8, <1>9, <1>10, <1>11, <1>12, StepCases

----------------------------------------------------------------------------
(* The theorems.                                                           *)

\* The initial state has the invariant.
LEMMA InitInv == Init => IInv
  <1> SUFFICES ASSUME Init PROVE IInv
    OBVIOUS
  <1>1. TypeOK
    BY InitType
  <1>2. SlotsOwned /\ PacketsGood /\ SourceMeans /\ StartMeans /\ OrderMeans
    BY DEF Init, BufferInit, SlotsOwned, PacketsGood, SourceMeans, StartMeans, OrderMeans,
           Resetting, ReadySlots, Nothing
  <1>3. CountMeans
    <2>1. HeldIn(slotState) = {}
      BY DEF Init, BufferInit, HeldIn
    <2>2. HeldCount = 0
      BY <2>1, FS_EmptySet DEF HeldCount
    <2>3. buffered = 0 /\ ToAdd = 0 /\ ToTake = 0 /\ ~resetRequested /\ cPc \notin Resetting
      BY DEF Init, BufferInit, ToAdd, ToTake, Resetting
    <2>4. 0 \in 0 .. CountRange - 1 /\ SlotCount \in Nat
      BY Constants
    <2>5. Exact(0, 0, 0, 0)
      BY <2>4, CountArithmetic
    <2> QED
      BY <2>2, <2>3, <2>5, ExactForm DEF CountMeans
  <1> QED
    BY <1>1, <1>2, <1>3 DEF IInv

\* Every step preserves the invariant, layer by layer.
LEMMA NextInv == IInv /\ [Next]_vars => IInv'
  BY NextType, NextOwned, NextPackets, NextSource, NextStart, NextOrder, NextCount DEF IInv

\* The invariant holds in every reachable state.
LEMMA AlwaysInv == Spec => []IInv
  BY InitInv, NextInv, PTL DEF Spec

\* Every variable of the receive path keeps its type; sequence numbers stay
\* within their 16 bits.
THEOREM ReceiveTypeCorrect == Spec => []TypeOK
  <1>1. IInv => TypeOK
    BY DEF IInv
  <1> QED
    BY <1>1, AlwaysInv, PTL

\* push() and pop() never handle the plain members of one slot at once, for a
\* buffer of any size.
THEOREM SlotHasOneUser == Spec => []NoPayloadRace
  <1>1. IInv => NoPayloadRace
    BY DEF IInv, SlotsOwned, NoPayloadRace
  <1> QED
    BY <1>1, AlwaysInv, PTL

\* Until a reset is requested buffered_ is the number of packets in the buffer,
\* up to what the two threads have still to add and to take.
THEOREM CountIsExact == Spec => []BufferedExact
  <1>1. IInv => BufferedExact
    BY DEF IInv, CountMeans
  <1> QED
    BY <1>1, AlwaysInv, PTL

\* No packet of an earlier source survives the reset for a new one.
THEOREM ResetSeparatesSources == Spec => []SourcesNotMixed
  <1>1. IInv => SourcesNotMixed
    BY DEF IInv, SourceMeans, SourcesNotMixed
  <1> QED
    BY <1>1, AlwaysInv, PTL

\* If the expected sequence number has moved by at least one and by less than
\* comes round, the packet found there was sent later.
LEMMA LaterNumber ==
  ASSUME NEW p, NEW q, Sent(p), Sent(q), p.ssrc = q.ssrc,
         NEW d \in 1 .. MaxTicks, p.sequence = (q.sequence + d) % SequenceRange
  PROVE  p.number > q.number
  <1>1. PICK f \in Nat : f = FirstSequence[q.ssrc]
    BY Constants DEF Sent, Sequences
  <1>2. PICK m \in 1 .. MaxNumber : m = p.number
    BY DEF Sent
  <1>3. PICK n \in 1 .. MaxNumber : n = q.number
    BY DEF Sent
  <1>4. f + m - 1 \in Nat /\ f + n - 1 \in Nat /\ d \in Nat /\ (f + n - 1) + d \in Nat
    BY <1>1, Constants
  <1>5. p.sequence = (f + m - 1) % SequenceRange /\ q.sequence = (f + n - 1) % SequenceRange
    BY <1>1, <1>2, <1>3 DEF Sent, SequenceOf
  <1>6. (f + m - 1) % SequenceRange = ((f + n - 1) + d) % SequenceRange
    <2>1. (((f + n - 1) % SequenceRange) + d) % SequenceRange = ((f + n - 1) + d) % SequenceRange
      BY <1>4, Constants, RemainderOfSum
    <2> QED
      BY <1>5, <2>1
  <1>7. /\ (f + m - 1) - ((f + n - 1) + d) < SequenceRange
        /\ ((f + n - 1) + d) - (f + m - 1) < SequenceRange
    BY <1>4, Constants
  <1>8. f + m - 1 = (f + n - 1) + d
    BY <1>4, <1>6, <1>7, Constants, SameRemainder
  <1>9. m > n
    BY <1>4, <1>8
  <1> QED
    BY <1>2, <1>3, <1>9

\* Between two resets the packets of a source are played in the order they were
\* sent and each at most once, also across the wrap of the sequence number, as
\* long as the number does not come round within the run (LifetimeAssumption).
THEOREM PlaybackKeepsOrder == Spec => PlayedInOrder
  <1>1. ASSUME IInv, [Next]_vars, Plays, last.kind = "played",
               last'.packet.ssrc = last.packet.ssrc
        PROVE  last'.packet.number > last.packet.number
    <2>1. ConsumePop
      <3>1. cPc' # cPc
        BY <1>1 DEF Plays
      <3>2. CASE UNCHANGED vars
        BY <3>1, <3>2 DEF vars, popVars
      <3>3. CASE Outside
        BY <3>1, <3>3, OutsideFrame DEF popVars
      <3>4. CASE ReceivePush \/ (PushStep /\ UNCHANGED popVars)
        BY <3>1, <3>4 DEF ReceivePush, popVars
      <3>5. CASE ConsumeTop \/ ConsumeReset \/ ConsumeMissed \/ ConsumeReady \/ ConsumeSkip
        <4>1. cPc = "read" /\ cPc' = "taken"
          BY <1>1 DEF Plays
        <4> QED
          BY <3>5, <4>1
             DEF ConsumeTop, ConsumeTurn, ConsumeReset, ResetStep, ResetSlot, ResetCount,
                 ResetFirst, ResetStarted, ConsumeMissed, ConsumeReady, ConsumeSkip
      <3> QED
        BY <1>1, <3>2, <3>3, <3>4, <3>5, StepCases, Zenon
    <2>2. cPc = "read" /\ PopRead /\ last' = Played(slotPacket[SlotOf(cSequence)])
      BY <1>1, <2>1 DEF Plays, ConsumePop, PopStep, PopLoad, PopClaim, PopRead, PopUncount, PopAdvance
    <2>3. PICK p : p = slotPacket[SlotOf(cSequence)]
      OBVIOUS
    <2>4. last'.packet = p /\ p.sequence = cSequence /\ p.ssrc = last.packet.ssrc
      BY <1>1, <2>2, <2>3 DEF Plays, Played, PopRead
    <2>5. Sent(p) /\ Sent(last.packet)
      <3>1. SlotOf(cSequence) \in SlotIds
        BY <1>1, SlotOfIsSlot DEF IInv, TypeOK, BufferTypeOK
      <3> QED
        BY <1>1, <2>2, <2>3, <3>1 DEF IInv, PacketsGood, SlotsOwned
    <2>6. PICK d \in 1 .. MaxTicks : cSequence = (last.packet.sequence + d) % SequenceRange
      BY <1>1, <2>2 DEF IInv, OrderMeans, StartMeans
    <2> QED
      BY <2>4, <2>5, <2>6, LaterNumber
  <1>2. IInv /\ [Next]_vars
          => [ Plays /\ last.kind = "played" /\ last'.packet.ssrc = last.packet.ssrc
                 => last'.packet.number > last.packet.number ]_vars
    BY <1>1
  <1> QED
    BY <1>2, AlwaysInv, PTL DEF Spec, PlayedInOrder

=============================================================================
