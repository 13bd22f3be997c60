---------------------------- MODULE JitterBuffer ----------------------------
(***************************************************************************)
(* JitterBuffer<SlotCount>: the lock-free table that one thread fills with *)
(* push() and another empties with pop(), skipMissing() and reset().  Each *)
(* step below is one access to an atomic, with the plain accesses the      *)
(* thread makes to a slot it owns folded into it.  The steps are composed  *)
(* with the two loops that call them in ReceivePath.                       *)
(*                                                                         *)
(* The class's own lost_ and dropped_ counters are read by its unit test   *)
(* only and are left out.                                                  *)
(***************************************************************************)
EXTENDS Naturals, FiniteSets

CONSTANTS SlotCount,      \* slots in the table
          TargetPackets,  \* targetPackets_, after the constructor's clamp
          SequenceRange,  \* 2^16 in the build
          CountRange,     \* values of a size_t: 2^64 in the build
          Ssrc,           \* RTP source identifiers
          NoSsrc          \* "no source"

ASSUME SlotAssumption == SlotCount \in Nat /\ SlotCount >= 3
ASSUME TargetAssumption == TargetPackets \in 2 .. SlotCount - 1
ASSUME SequenceAssumption ==
    SequenceRange \in Nat /\ \E k \in 2 .. SequenceRange : SequenceRange = k * SlotCount
ASSUME NoSsrcAssumption == NoSsrc \notin Ssrc
ASSUME CountAssumption == CountRange \in Nat /\ CountRange > 2 * SlotCount

VARIABLES slotState, slotPacket, buffered, firstSequence, expectedSequence,
          hasFirst, started,
          pPc, pPacket,        \* the pushing thread and its argument
          cPc, cSequence,      \* the popping thread and pop()'s `sequence`
          cSlot                \* reset(): next slot to clear

bufferVars == <<slotState, slotPacket, buffered, firstSequence, expectedSequence,
                hasFirst, started>>
pushVars == <<pPc, pPacket>>
popVars == <<cPc, cSequence, cSlot>>

SlotIds == 0 .. SlotCount - 1
Sequences == 0 .. SequenceRange - 1
SlotOf(sequence) == sequence % SlotCount
After(sequence) == (sequence + 1) % SequenceRange
Decrement(count) == (count + CountRange - 1) % CountRange

\* An RTP packet: the source that sent it, its 16-bit sequence number and,
\* for its payload, its position in what the source sends.
Packets(numbers) == [ssrc : Ssrc \cup {NoSsrc}, sequence : Sequences, number : numbers]

\* sequence{0}, length{0} of a slot nothing was stored in
EmptyPacket == [ssrc |-> NoSsrc, sequence |-> 0, number |-> 0]

BufferInit ==
    /\ slotState = [i \in SlotIds |-> "empty"]
    /\ slotPacket = [i \in SlotIds |-> EmptyPacket]
    /\ buffered = 0
    /\ firstSequence = 0 /\ expectedSequence = 0
    /\ hasFirst = FALSE /\ started = FALSE
    /\ pPc = "idle" /\ pPacket = EmptyPacket
    /\ cPc = "top" /\ cSequence = 0 /\ cSlot = 0

----------------------------------------------------------------------------
(* push(sequence, payload)                                                 *)

\* The compare-exchange empty -> writing; when it fails push() returns false.
PushClaim(packet) ==
    /\ pPc = "idle"
    /\ slotState[SlotOf(packet.sequence)] = "empty"
    /\ slotState' = [slotState EXCEPT ![SlotOf(packet.sequence)] = "writing"]
    /\ pPacket' = packet
    /\ pPc' = "store"
    /\ UNCHANGED <<slotPacket, buffered, firstSequence, expectedSequence, hasFirst, started>>

PushRefused(packet) ==
    /\ pPc = "idle"
    /\ slotState[SlotOf(packet.sequence)] # "empty"
    /\ UNCHANGED <<bufferVars, pushVars>>

\* The plain stores into the slot, and the release store of `ready`.
PushStore ==
    /\ pPc = "store"
    /\ slotPacket' = [slotPacket EXCEPT ![SlotOf(pPacket.sequence)] = pPacket]
    /\ slotState' = [slotState EXCEPT ![SlotOf(pPacket.sequence)] = "ready"]
    /\ pPc' = "count"
    /\ UNCHANGED <<buffered, firstSequence, expectedSequence, hasFirst, started, pPacket>>

PushCount ==
    /\ pPc = "count"
    /\ buffered' = (buffered + 1) % CountRange
    /\ pPc' = "check"
    /\ UNCHANGED <<slotState, slotPacket, firstSequence, expectedSequence, hasFirst, started, pPacket>>

PushCheckStarted ==
    /\ pPc = "check"
    /\ pPc' = IF started THEN "done" ELSE "first"
    /\ UNCHANGED <<bufferVars, pPacket>>

\* The compare-exchange on hasFirst_.
PushClaimFirst ==
    /\ pPc = "first"
    /\ hasFirst' = TRUE
    /\ pPc' = IF hasFirst THEN "target" ELSE "storeFirst"
    /\ UNCHANGED <<slotState, slotPacket, buffered, firstSequence, expectedSequence, started, pPacket>>

PushStoreFirst ==
    /\ pPc = "storeFirst"
    /\ firstSequence' = pPacket.sequence
    /\ pPc' = "target"
    /\ UNCHANGED <<slotState, slotPacket, buffered, expectedSequence, hasFirst, started, pPacket>>

PushCheckTarget ==
    /\ pPc = "target"
    /\ pPc' = IF buffered >= TargetPackets THEN "begin" ELSE "done"
    /\ UNCHANGED <<bufferVars, pPacket>>

PushStoreExpected ==
    /\ pPc = "begin"
    /\ expectedSequence' = firstSequence
    /\ pPc' = "start"
    /\ UNCHANGED <<slotState, slotPacket, buffered, firstSequence, hasFirst, started, pPacket>>

PushStart ==
    /\ pPc = "start"
    /\ started' = TRUE
    /\ pPc' = "done"
    /\ UNCHANGED <<slotState, slotPacket, buffered, firstSequence, expectedSequence, hasFirst, pPacket>>

PushStep == \/ PushStore \/ PushCount \/ PushCheckStarted \/ PushClaimFirst
            \/ PushStoreFirst \/ PushCheckTarget \/ PushStoreExpected \/ PushStart

----------------------------------------------------------------------------
(* pop(), skipMissing() and reset(): all called by the consuming thread.   *)

\* started_ and expectedSequence_ are loaded.  Once started_ is true only this
\* thread stores expectedSequence_, so the two loads are one step.
PopLoad ==
    /\ cPc = "pop"
    /\ cSequence' = IF started THEN expectedSequence ELSE cSequence
    /\ cPc' = IF started THEN "claim" ELSE "missed"
    /\ UNCHANGED <<bufferVars, cSlot>>

\* Mutant of PopClaim: a slot that is still being written is taken too.
PopClaimUnchecked ==
    /\ cPc = "claim"
    /\ IF slotState[SlotOf(cSequence)] # "empty"
         THEN /\ slotState' = [slotState EXCEPT ![SlotOf(cSequence)] = "reading"]
              /\ cPc' = "read"
         ELSE /\ cPc' = "missed"
              /\ UNCHANGED slotState
    /\ UNCHANGED <<slotPacket, buffered, firstSequence, expectedSequence, hasFirst, started,
                   cSequence, cSlot>>

\* The compare-exchange ready -> reading; when it fails pop() returns false.
PopClaim ==
    /\ cPc = "claim"
    /\ IF slotState[SlotOf(cSequence)] = "ready"
         THEN /\ slotState' = [slotState EXCEPT ![SlotOf(cSequence)] = "reading"]
              /\ cPc' = "read"
         ELSE /\ cPc' = "missed"
              /\ UNCHANGED slotState
    /\ UNCHANGED <<slotPacket, buffered, firstSequence, expectedSequence, hasFirst, started,
                   cSequence, cSlot>>

\* The slot is copied out and released, or only released when it holds
\* another packet than the one that is due.
PopRead ==
    /\ cPc = "read"
    /\ cPc' = IF slotPacket[SlotOf(cSequence)].sequence = cSequence THEN "taken" ELSE "wrong"
    /\ slotState' = [slotState EXCEPT ![SlotOf(cSequence)] = "empty"]
    /\ UNCHANGED <<slotPacket, buffered, firstSequence, expectedSequence, hasFirst, started,
                   cSequence, cSlot>>

\* Mutant of PopUncount: a packet that is thrown away stays in the count.
PopUncountTakenOnly ==
    /\ cPc \in {"taken", "wrong"}
    /\ buffered' = IF cPc = "taken" THEN Decrement(buffered) ELSE buffered
    /\ cPc' = IF cPc = "taken" THEN "advance" ELSE "missed"
    /\ UNCHANGED <<slotState, slotPacket, firstSequence, expectedSequence, hasFirst, started,
                   cSequence, cSlot>>

PopUncount ==
    /\ cPc \in {"taken", "wrong"}
    /\ buffered' = Decrement(buffered)
    /\ cPc' = IF cPc = "taken" THEN "advance" ELSE "missed"
    /\ UNCHANGED <<slotState, slotPacket, firstSequence, expectedSequence, hasFirst, started,
                   cSequence, cSlot>>

\* Mutant of PopAdvance: the next packet that is due is the one just played.
PopAdvanceForgotten ==
    /\ cPc = "advance"
    /\ cPc' = "top"
    /\ UNCHANGED <<bufferVars, cSequence, cSlot>>

PopAdvance ==
    /\ cPc = "advance"
    /\ expectedSequence' = After(cSequence)
    /\ cPc' = "top"
    /\ UNCHANGED <<slotState, slotPacket, buffered, firstSequence, hasFirst, started,
                   cSequence, cSlot>>

PopStep == PopLoad \/ PopClaim \/ PopRead \/ PopUncount \/ PopAdvance

\* skipMissing(); nobody else clears started_, so its load is part of the step.
SkipMissing ==
    /\ expectedSequence' = IF started THEN After(expectedSequence) ELSE expectedSequence
    /\ UNCHANGED <<slotState, slotPacket, buffered, firstSequence, hasFirst, started>>

\* Mutant of ResetSlot: the loop ends one slot early.
ResetSlotLastKept ==
    /\ cPc = "resetSlots"
    /\ slotState' = [slotState EXCEPT ![cSlot] = "empty"]
    /\ IF cSlot + 2 < SlotCount
         THEN cSlot' = cSlot + 1 /\ cPc' = cPc
         ELSE cSlot' = 0 /\ cPc' = "resetCount"
    /\ UNCHANGED <<slotPacket, buffered, firstSequence, expectedSequence, hasFirst, started, cSequence>>

\* reset(), store by store.
ResetSlot ==
    /\ cPc = "resetSlots"
    /\ slotState' = [slotState EXCEPT ![cSlot] = "empty"]
    /\ IF cSlot + 1 < SlotCount
         THEN cSlot' = cSlot + 1 /\ cPc' = cPc
         ELSE cSlot' = 0 /\ cPc' = "resetCount"
    /\ UNCHANGED <<slotPacket, buffered, firstSequence, expectedSequence, hasFirst, started, cSequence>>

ResetCount ==
    /\ cPc = "resetCount"
    /\ buffered' = 0
    /\ cPc' = "resetFirst"
    /\ UNCHANGED <<slotState, slotPacket, firstSequence, expectedSequence, hasFirst, started,
                   cSequence, cSlot>>

ResetFirst ==
    /\ cPc = "resetFirst"
    /\ hasFirst' = FALSE
    /\ cPc' = "resetStarted"
    /\ UNCHANGED <<slotState, slotPacket, buffered, firstSequence, expectedSequence, started,
                   cSequence, cSlot>>

ResetStarted ==
    /\ cPc = "resetStarted"
    /\ started' = FALSE
    /\ cPc' = "pop"
    /\ UNCHANGED <<slotState, slotPacket, buffered, firstSequence, expectedSequence, hasFirst,
                   cSequence, cSlot>>

ResetStep == ResetSlot \/ ResetCount \/ ResetFirst \/ ResetStarted

----------------------------------------------------------------------------
PushPcs == {"idle", "store", "count", "check", "first", "storeFirst", "target",
            "begin", "start", "done"}
PopPcs == {"top", "pop", "claim", "read", "taken", "wrong", "advance", "missed", "ready", "skip",
           "resetSlots", "resetCount", "resetFirst", "resetStarted"}

BufferTypeOK(numbers) ==
    /\ slotState \in [SlotIds -> {"empty", "writing", "ready", "reading"}]
    /\ slotPacket \in [SlotIds -> Packets(numbers)]
    /\ buffered \in 0 .. CountRange - 1
    /\ firstSequence \in Sequences /\ expectedSequence \in Sequences
    /\ hasFirst \in BOOLEAN /\ started \in BOOLEAN
    /\ pPc \in PushPcs /\ pPacket \in Packets(numbers)
    /\ cPc \in PopPcs /\ cSequence \in Sequences /\ cSlot \in SlotIds

\* The packets the table holds, whoever is handling them.
ReadySlots == {i \in SlotIds : slotState[i] = "ready"}
=============================================================================
