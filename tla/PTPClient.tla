----------------------------- MODULE PTPClient -----------------------------
(***************************************************************************)
(* PTPClient: the thread that chooses a PTP master, measures the offset of *)
(* the local clock with the end-to-end delay mechanism, and publishes an   *)
(* offset and ptpLocked for the threads that stamp RTP packets.  A turn of *)
(* its loop handles at most one datagram of the event port and one of the  *)
(* general port, then sends a Delay_Req when one is due and drops the lock *)
(* when Announce or Sync are overdue.                                      *)
(*                                                                         *)
(* The network is outside: any message may arrive at any time, in any      *)
(* order, more than once or never.  What calculateE2E makes of the four    *)
(* timestamps of an exchange (PTPExchange) is an offset of a small set, or *)
(* nothing when the delay is negative or above 20 ms.  Time passes in      *)
(* units; a point in time the code stores is the age it has now, which     *)
(* stops at the limit it is compared with.  ptpLocked and the offset are   *)
(* two atomics that other threads read: two stores are two steps, the      *)
(* second of them what storing holds.  Statistics and traces are left out. *)
(***************************************************************************)
EXTENDS Integers, Sequences, SequencesExt

CONSTANTS Masters,          \* port identities of possible masters
          NoMaster,
          Ranks,            \* what announceRank compares, best first
          SyncSequences,    \* sequence numbers of Sync and Follow_Up
          DelayRange,       \* values of delaySequence before it wraps
          Offsets,          \* offsets a measurement may give
          AnnounceLimit, SyncLimit, MeasureLimit, \* 3 s, 2 s and 2 s
          RequestInterval,  \* 250 ms
          Tolerance,        \* 2 ms
          FilterDivisor,    \* 8
          StableNeeded,     \* 4
          OriginLimit       \* bound: the history of Follow_Up reaches this far back

ASSUME MasterAssumption == NoMaster \notin Masters
ASSUME RankAssumption == Ranks \subseteq Nat /\ Ranks # {}
ASSUME OffsetAssumption == Offsets \subseteq Int
ASSUME LimitAssumption ==
    /\ {AnnounceLimit, SyncLimit, MeasureLimit, RequestInterval} \subseteq Nat \ {0}
    /\ DelayRange \in Nat \ {0} /\ StableNeeded \in Nat \ {0}
    /\ Tolerance \in Nat /\ OriginLimit \in Nat /\ FilterDivisor \in Nat \ {0}

VARIABLES running, phase,       \* the thread, and where its loop is
          master, masterRank,
          announceAge, syncAge, \* since lastAnnounce, lastSync; -1: never
          measureAge,           \* since lastValidMeasurement; -1: never
          requestAge,           \* since the last Delay_Req; RequestInterval: due
          sync,                 \* the last Sync of this master
          delaySequence, pending, \* last Delay_Req, and the one awaited or -1
          filtered, stable,     \* filteredOffset or NoOffset, stableMeasurements
          locked, offset,       \* ptpLocked and ptpOffsetNanoseconds
          storing,              \* the store that comes next, or "nothing"
          recent, originAge,    \* history: see below
          backing

localVars == <<master, masterRank, announceAge, syncAge, measureAge, requestAge, sync,
               delaySequence, pending, filtered, stable>>
historyVars == <<recent, originAge, backing>>
vars == <<running, phase, localVars, locked, offset, storing, historyVars>>

NoSync == [state |-> "none", sequence |-> -1]
NoOffset == [known |-> FALSE, value |-> 0]
Offset(value) == [known |-> TRUE, value |-> value]

\* recent: the last StableNeeded measurements that were accepted, whatever the
\* client made of them; originAge: since a Sync last got its origin timestamp,
\* up to OriginLimit; backing: stable measurements behind the offset that is
\* stored, StableNeeded for the 0 of an unlocked client.
Locals ==
    /\ master = NoMaster /\ masterRank = 0
    /\ announceAge = -1 /\ syncAge = -1 /\ measureAge = -1
    /\ requestAge = RequestInterval
    /\ sync = NoSync
    /\ delaySequence = 0 /\ pending = -1
    /\ filtered = NoOffset /\ stable = 0

Init ==
    /\ running = FALSE /\ phase = "event"
    /\ Locals
    /\ locked = FALSE /\ offset = 0 /\ storing = "nothing"
    /\ recent = <<>> /\ originAge = 0 /\ backing = StableNeeded

----------------------------------------------------------------------------
Least(a, b) == IF a <= b THEN a ELSE b
Older(age, limit) == IF age = -1 THEN -1 ELSE Least(age + 1, limit)

\* A steady_clock that does not wait for the loop: the thread may be late.
Tick ==
    /\ announceAge' = Older(announceAge, AnnounceLimit)
    /\ syncAge' = Older(syncAge, SyncLimit)
    /\ measureAge' = Older(measureAge, MeasureLimit)
    /\ requestAge' = Older(requestAge, RequestInterval)
    /\ originAge' = Older(originAge, OriginLimit)
    /\ UNCHANGED <<running, phase, master, masterRank, sync, delaySequence, pending,
                   filtered, stable, locked, offset, storing, recent, backing>>

\* start() and stop(); loop() leaves the same values when its sockets cannot
\* be opened.
Start ==
    /\ ~running /\ storing = "nothing"
    /\ running' = TRUE /\ phase' = "event"
    /\ locked' = FALSE /\ offset' = 0 /\ backing' = StableNeeded
    /\ UNCHANGED <<localVars, storing, recent, originAge>>

\* The loop ends when a turn does, and takes the lock back.
Stop ==
    /\ running /\ phase = "event" /\ storing = "nothing"
    /\ running' = FALSE
    /\ locked' = FALSE /\ storing' = "zero"
    /\ master' = NoMaster /\ masterRank' = 0
    /\ announceAge' = -1 /\ syncAge' = -1 /\ measureAge' = -1
    /\ requestAge' = RequestInterval
    /\ sync' = NoSync
    /\ delaySequence' = 0 /\ pending' = -1
    /\ filtered' = NoOffset /\ stable' = 0
    /\ recent' = <<>> /\ originAge' = 0
    /\ UNCHANGED <<phase, offset, backing>>

----------------------------------------------------------------------------
(* process(): one datagram.                                                *)

\* receive() returned a message, and the loop goes on to its next step.
Receiving ==
    /\ running /\ phase \in {"event", "general"} /\ storing = "nothing"
    /\ phase' = IF phase = "event" THEN "general" ELSE "timers"
    /\ UNCHANGED running

MasterExpired == announceAge = AnnounceLimit

Select(m, rank) == master = NoMaster \/ MasterExpired \/ m = master \/ rank < masterRank

\* Mutant of Announce: the measurements with the master that is left count on.
AnnounceKeepsStable(m, rank) ==
    /\ Receiving
    /\ Select(m, rank)
    /\ master' = m /\ masterRank' = rank /\ announceAge' = 0
    /\ IF m # master THEN sync' = NoSync /\ locked' = FALSE ELSE UNCHANGED <<sync, locked>>
    /\ UNCHANGED <<syncAge, measureAge, requestAge, delaySequence, pending, filtered,
                   stable, offset, storing, historyVars>>

\* Announce of the master, or of one that takes its place: everything measured
\* so far is void, except the request on its way and filteredOffset.
Announce(m, rank) ==
    /\ Receiving
    /\ Select(m, rank)
    /\ master' = m /\ masterRank' = rank /\ announceAge' = 0
    /\ IF m # master
         THEN sync' = NoSync /\ stable' = 0 /\ locked' = FALSE
         ELSE UNCHANGED <<sync, stable, locked>>
    /\ UNCHANGED <<syncAge, measureAge, requestAge, delaySequence, pending, filtered,
                   offset, storing, historyVars>>

\* Sync: a one-step Sync brings its origin timestamp along, a two-step one has
\* to wait for its Follow_Up.
Sync(sequence, twoStep) ==
    /\ Receiving
    /\ master # NoMaster
    /\ sync' = [state |-> IF twoStep THEN "waiting" ELSE "complete", sequence |-> sequence]
    /\ syncAge' = 0
    /\ originAge' = IF twoStep THEN originAge ELSE 0
    /\ UNCHANGED <<master, masterRank, announceAge, measureAge, requestAge, delaySequence,
                   pending, filtered, stable, locked, offset, storing, recent, backing>>

FollowUp(sequence) ==
    /\ Receiving
    /\ master # NoMaster /\ sync.state # "none" /\ sync.sequence = sequence
    /\ sync' = [sync EXCEPT !.state = "complete"]
    /\ originAge' = 0
    /\ UNCHANGED <<master, masterRank, announceAge, syncAge, measureAge, requestAge, delaySequence,
                   pending, filtered, stable, locked, offset, storing, recent, backing>>

\* Delay_Resp of the master to the request that is awaited.
Answers(sequence) == master # NoMaster /\ pending # -1 /\ sequence = pending /\ sync.state = "complete"

\* The measurement is impossible or its delay is too long.
DelayRespRejected(sequence) ==
    /\ Receiving
    /\ Answers(sequence)
    /\ pending' = -1
    /\ IF measureAge = MeasureLimit
         THEN stable' = 0 /\ locked' = FALSE /\ storing' = "zero"
         ELSE UNCHANGED <<stable, locked, storing>>
    /\ UNCHANGED <<master, masterRank, announceAge, syncAge, measureAge, requestAge, sync,
                   delaySequence, filtered, offset, historyVars>>

Close(a, b) == a - b <= Tolerance /\ b - a <= Tolerance

\* C++ division truncates towards zero.
Quotient(a, b) == IF a >= 0 THEN a \div b ELSE -((-a) \div b)

Fresh == announceAge < AnnounceLimit /\ syncAge < SyncLimit

\* Mutant of DelayResp: a measurement counts as stable wherever it lies.
DelayRespAlwaysStable(sequence, measured) ==
    /\ Receiving
    /\ Answers(sequence)
    /\ pending' = -1
    /\ stable' = Least(stable + 1, StableNeeded)
    /\ filtered' = IF filtered.known
                     THEN Offset(filtered.value + Quotient(measured - filtered.value, FilterDivisor))
                     ELSE Offset(measured)
    /\ offset' = filtered'.value /\ backing' = stable'
    /\ measureAge' = 0
    /\ storing' = IF Fresh /\ stable' >= StableNeeded THEN "lock" ELSE "unlock"
    /\ recent' = LET all == Append(recent, [from |-> master, offset |-> measured])
                 IN SubSeq(all, Len(all) - Least(Len(all), StableNeeded) + 1, Len(all))
    /\ UNCHANGED <<master, masterRank, announceAge, syncAge, requestAge, sync,
                   delaySequence, locked, originAge>>

\* stableMeasurements, which is compared with StableNeeded only, stops there.
DelayResp(sequence, measured) ==
    /\ Receiving
    /\ Answers(sequence)
    /\ pending' = -1
    /\ IF filtered.known /\ Close(measured, filtered.value)
         THEN /\ stable' = Least(stable + 1, StableNeeded)
              /\ filtered' = Offset(filtered.value
                                      + Quotient(measured - filtered.value, FilterDivisor))
         ELSE stable' = 1 /\ filtered' = Offset(measured)
    /\ offset' = filtered'.value /\ backing' = stable'
    /\ measureAge' = 0
    /\ storing' = IF Fresh /\ stable' >= StableNeeded THEN "lock" ELSE "unlock"
    /\ recent' = LET all == Append(recent, [from |-> master, offset |-> measured])
                 IN SubSeq(all, Len(all) - Least(Len(all), StableNeeded) + 1, Len(all))
    /\ UNCHANGED <<master, masterRank, announceAge, syncAge, requestAge, sync,
                   delaySequence, locked, originAge>>

\* Nothing arrived in time, or a message that changes nothing: another version
\* or domain, malformed, another master's, or an answer nobody waits for.
NothingUseful == Receiving /\ UNCHANGED <<localVars, locked, offset, storing, historyVars>>

Process ==
    \/ \E m \in Masters, rank \in Ranks : Announce(m, rank)
    \/ \E sequence \in SyncSequences : FollowUp(sequence) \/ \E two \in BOOLEAN : Sync(sequence, two)
    \/ \E sequence \in 0 .. DelayRange - 1 :
          DelayRespRejected(sequence) \/ \E measured \in Offsets : DelayResp(sequence, measured)
    \/ NothingUseful

----------------------------------------------------------------------------
(* The rest of the loop's turn.                                            *)

RequestDue == master # NoMaster /\ sync.state = "complete" /\ requestAge = RequestInterval

\* A Delay_Req: its number and its time are taken first; it is awaited only
\* if the datagram was sent.
Request(sent) ==
    /\ delaySequence' = (delaySequence + 1) % DelayRange
    /\ pending' = IF sent THEN delaySequence' ELSE pending
    /\ requestAge' = 0

\* Mutant of Overdue: a missing Sync is not noticed.
OverdueAnnounceOnly == announceAge = AnnounceLimit

Overdue == announceAge = AnnounceLimit \/ syncAge = SyncLimit

Timers(sent) ==
    /\ running /\ phase = "timers" /\ storing = "nothing"
    /\ IF RequestDue THEN Request(sent) ELSE UNCHANGED <<delaySequence, pending, requestAge>>
    /\ IF Overdue THEN stable' = 0 /\ locked' = FALSE /\ storing' = "zero"
                  ELSE UNCHANGED <<stable, locked, storing>>
    /\ phase' = "event"
    /\ UNCHANGED <<running, master, masterRank, announceAge, syncAge, measureAge, sync, filtered,
                   offset, historyVars>>

\* The second store: the lock that a measurement decided about, with the time
\* that was taken when it arrived, or the offset 0 beside a lock taken back.
Settle ==
    /\ storing # "nothing"
    /\ storing' = "nothing"
    /\ IF storing = "zero" THEN offset' = 0 /\ backing' = StableNeeded /\ UNCHANGED locked
                           ELSE locked' = (storing = "lock") /\ UNCHANGED <<offset, backing>>
    /\ UNCHANGED <<running, phase, localVars, recent, originAge>>

\* Sending the Delay_Req may fail.
Loop == Process \/ Settle \/ \E sent \in BOOLEAN : Timers(sent)

Next == Tick \/ Start \/ Stop \/ Loop

\* Both receive calls return within 10 ms, so the loop always goes on.
Fairness == WF_vars(Loop)

Spec == Init /\ [][Next]_vars /\ Fairness

\* The thread is never late: what is overdue is noticed before time goes on.
PromptSpec ==
    Init /\ [][(Tick /\ (Overdue => ~locked)) \/ Start \/ Stop \/ Loop]_vars /\ Fairness

----------------------------------------------------------------------------
(* Properties.                                                             *)

Ages(limit) == -1 .. limit

\* Every variable has its type; delaySequence wraps, history stays bounded.
TypeOK ==
    /\ running \in BOOLEAN /\ phase \in {"event", "general", "timers"}
    /\ master \in Masters \cup {NoMaster} /\ masterRank \in Ranks \cup {0}
    /\ announceAge \in Ages(AnnounceLimit) /\ syncAge \in Ages(SyncLimit)
    /\ measureAge \in Ages(MeasureLimit) /\ requestAge \in 0 .. RequestInterval
    /\ sync \in [state : {"none", "waiting", "complete"}, sequence : SyncSequences \cup {-1}]
    /\ delaySequence \in 0 .. DelayRange - 1
    /\ pending \in -1 .. DelayRange - 1
    /\ filtered \in [known : BOOLEAN, value : Int] /\ stable \in 0 .. StableNeeded
    /\ locked \in BOOLEAN /\ offset \in Int
    /\ storing \in {"nothing", "lock", "unlock", "zero"} /\ backing \in 0 .. StableNeeded
    /\ recent \in Seq([from : Masters, offset : Offsets]) /\ Len(recent) <= StableNeeded
    /\ originAge \in 0 .. OriginLimit

\* The client says it is locked only when the last StableNeeded measurements
\* all were taken with the master it follows now: none is carried over from a
\* master it left, however masters and messages alternate
\* (PTPClient.cpp:142-151, :193-206).
LockedOnThisMaster ==
    locked => /\ Len(recent) = StableNeeded
              /\ \A i \in DOMAIN recent : recent[i].from = master

\* A packet that is stamped while ptpLocked is set gets an offset within the
\* tolerance of the last measurement, also between the two stores of the
\* client (PTPClient.cpp:193-206, LiveEngine.cpp:322-324).
LockedOffsetIsClose == locked => Close(offset, Last(recent).offset)

\* While ptpLocked is set, the offset beside it rests on StableNeeded stable
\* measurements: what a thread that stamps packets finds.
LockedOffsetIsStable == locked => backing >= StableNeeded

\* A master that falls silent costs the lock: an overdue Announce or Sync is
\* noticed before long unless it arrives after all (PTPClient.cpp:226-238).
SilenceUnlocks ==
    /\ (announceAge = AnnounceLimit) ~> (~locked \/ announceAge < AnnounceLimit)
    /\ (syncAge = SyncLimit) ~> (~locked \/ syncAge < SyncLimit)

\* While locked, the origin timestamps of the Sync messages keep coming: a turn
\* of the loop that leaves the client locked has seen one within the time that
\* Announce and Sync are given together.
LockNeedsFollowUp ==
    [][ phase = "timers" /\ phase' = "event" /\ locked'
          => originAge < AnnounceLimit + SyncLimit ]_vars
=============================================================================
