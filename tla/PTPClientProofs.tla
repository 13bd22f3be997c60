-------------------------- MODULE PTPClientProofs --------------------------
(***************************************************************************)
(* For any masters, ranks, limits, tolerance and number of measurements    *)
(* that a lock needs, whatever arrives when: a client that says it is      *)
(* locked is so on measurements with the master it follows, and the offset *)
(* it publishes is close to the last one measured, also between its two    *)
(* stores.                                                                 *)
(*                                                                         *)
(* Neither is inductive.  The lock is stored a step after it was decided,  *)
(* and what decides is the counter stable: the invariant says what the     *)
(* counter is worth (StableMeans), and what is known while a store is      *)
(* still to come (StoringMeans).                                           *)
(*                                                                         *)
(* The exchange of messages follows (PTPExchange): an offset accepted by   *)
(* calculateE2E is the one of the two clocks, up to the asymmetry of the   *)
(* paths and one unit of rounding.                                         *)
(***************************************************************************)
EXTENDS PTPClient, PTPExchange, SequenceTheorems, TLAPS

\* The counter is not larger than the number of measurements that were taken
\* with the present master, one after the other, up to now.
StableMeans ==
    /\ stable <= Len(recent)
    /\ \A i \in DOMAIN recent : i > Len(recent) - stable => recent[i].from = master

\* A lock that is about to be stored is backed by the counter; a lock taken
\* back is so before the offset is; what was measured last is stored.
StoringMeans ==
    /\ storing = "lock" => stable = StableNeeded
    /\ storing = "zero" => ~locked
    /\ locked \/ storing \in {"lock", "unlock"} =>
          recent # <<>> /\ Close(offset, recent[Len(recent)].offset)

\* The inductive invariant.
IInv == TypeOK /\ StableMeans /\ StoringMeans /\ LockedOnThisMaster

----------------------------------------------------------------------------
(* The operators.                                                          *)

\* Division that truncates leads towards zero and not past it.
LEMMA QuotientBetween ==
  ASSUME NEW a \in Int, NEW d \in Nat \ {0}
  PROVE  /\ Quotient(a, d) \in Int
         /\ a >= 0 => 0 <= Quotient(a, d) /\ Quotient(a, d) <= a
         /\ a <= 0 => a <= Quotient(a, d) /\ Quotient(a, d) <= 0
  <1>1. ASSUME NEW n \in Nat
        PROVE  n \div d \in Int /\ 0 <= n \div d /\ n \div d <= n
    <2> DEFINE q == n \div d
    <2>1. q \in Int /\ n = d * q + (n % d) /\ n % d \in 0 .. d - 1
      OBVIOUS
    <2> HIDE DEF q
    <2>2. q >= 0
      <3> SUFFICES ASSUME q <= -1 PROVE FALSE
        BY <2>1
      <3>1. d * q <= -d
        BY <2>1
      <3> QED
        BY <2>1, <3>1
    <2>3. q <= d * q
      BY <2>1, <2>2
    <2> QED
      BY <2>1, <2>2, <2>3 DEF q
  <1>2. CASE a >= 0
    BY <1>1, <1>2 DEF Quotient
  <1>3. CASE a < 0
    <2>1. -a \in Nat
      BY <1>3
    <2>2. (-a) \div d \in Int /\ 0 <= (-a) \div d /\ (-a) \div d <= -a
      BY <1>1, <2>1
    <2>3. Quotient(a, d) = -((-a) \div d)
      BY <1>3 DEF Quotient
    <2> QED
      BY <1>3, <2>2, <2>3
  <1> QED
    BY <1>2, <1>3

\* The filter does not leave the tolerance of the measurement it takes in.
LEMMA FilterIsClose ==
  ASSUME NEW f \in Int, NEW m \in Int, Close(m, f)
  PROVE  /\ f + Quotient(m - f, FilterDivisor) \in Int
         /\ Close(f + Quotient(m - f, FilterDivisor), m)
  <1> DEFINE q == Quotient(m - f, FilterDivisor)
  <1>1. /\ q \in Int
        /\ m - f >= 0 => 0 <= q /\ q <= m - f
        /\ m - f <= 0 => m - f <= q /\ q <= 0
    BY QuotientBetween, LimitAssumption DEF LimitAssumption
  <1>2. Tolerance \in Nat
    BY LimitAssumption DEF LimitAssumption
  <1> HIDE DEF q
  <1>3. f + q \in Int /\ Close(f + q, m)
    BY <1>1, <1>2 DEF Close
  <1> QED
    BY <1>3 DEF q

Measurements == [from : Masters, offset : Offsets]

\* What DelayResp keeps of the measurements: the last StableNeeded of them.
Window(s, e) ==
    LET all == Append(s, e) IN SubSeq(all, Len(all) - Least(Len(all), StableNeeded) + 1, Len(all))

\* Where an element is once d of n + 1 have been dropped in front.
LEMMA ShiftedIndex ==
  ASSUME NEW n \in Nat, NEW d \in Nat, NEW i \in Int, 1 <= i, i <= n - d
  PROVE  i + n + 1 - (n + 1 - d) = i + d /\ i + d \in 1 .. n /\ i \in 1 .. n + 1 - d
  BY SMT

\* Its length, its last element, and where the other elements come from.
LEMMA WindowProperties ==
  ASSUME NEW s \in Seq(Measurements), NEW e \in Measurements, Len(s) <= StableNeeded,
         NEW w, w = Window(s, e)
  PROVE  /\ w \in Seq(Measurements)
         /\ Len(w) = (IF Len(s) < StableNeeded THEN Len(s) + 1 ELSE StableNeeded)
         /\ w[Len(w)] = e
         /\ \A i \in 1 .. Len(w) - 1 :
               /\ i + Len(s) + 1 - Len(w) \in 1 .. Len(s)
               /\ w[i] = s[i + Len(s) + 1 - Len(w)]
  <1>1. PICK all \in Seq(Measurements) :
          /\ all = Append(s, e) /\ Len(all) = Len(s) + 1
          /\ \A i \in 1 .. Len(s) : all[i] = s[i]
          /\ all[Len(s) + 1] = e
    <2>1. /\ Append(s, e) \in Seq(Measurements) /\ Len(Append(s, e)) = Len(s) + 1
          /\ \A i \in 1 .. Len(s) : Append(s, e)[i] = s[i]
          /\ Append(s, e)[Len(s) + 1] = e
      BY AppendProperties
    <2> QED
      BY <2>1
  <1>2. Len(s) \in Nat
    OBVIOUS
  <1>3. PICK drop \in Nat :
          /\ drop = Len(all) - Least(Len(all), StableNeeded)
          /\ drop = (IF Len(s) < StableNeeded THEN 0 ELSE 1) /\ drop < Len(all)
    BY <1>1, <1>2, LimitAssumption DEF Least, LimitAssumption
  <1>4. w = SubSeq(all, drop + 1, Len(all))
    BY <1>1, <1>3 DEF Window
  <1>5. /\ w \in Seq(Measurements) /\ Len(w) = Len(all) - drop
        /\ \A i \in 1 .. Len(w) : w[i] = all[i + drop]
    <2>1. \A i \in drop + 1 .. Len(all) : all[i] \in Measurements
      BY <1>1, <1>2, <1>3
    <2>2. /\ w \in Seq(Measurements)
          /\ Len(w) = (IF drop + 1 <= Len(all) THEN Len(all) - (drop + 1) + 1 ELSE 0)
          /\ \A i \in 1 .. Len(all) - (drop + 1) + 1 : w[i] = all[drop + 1 + i - 1]
      <3>1. drop + 1 \in 1 .. Len(all) + 1 /\ Len(all) \in drop .. Len(all) /\ Len(all) \in Nat
        BY <1>1, <1>2, <1>3
      <3> QED
        BY <1>4, <2>1, <3>1, SubSeqProperties
    <2>3. Len(w) = Len(all) - drop
      BY <1>1, <1>2, <1>3, <2>2
    <2>4. ASSUME NEW i \in 1 .. Len(w)
          PROVE  w[i] = all[i + drop]
      <3>1. i \in 1 .. Len(all) - (drop + 1) + 1 /\ drop + 1 + i - 1 = i + drop
        BY <1>1, <1>2, <1>3, <2>3
      <3> QED
        BY <2>2, <3>1
    <2> QED
      BY <2>2, <2>3, <2>4
  <1>6. Len(w) = (IF Len(s) < StableNeeded THEN Len(s) + 1 ELSE StableNeeded)
    BY <1>1, <1>2, <1>3, <1>5, LimitAssumption DEF LimitAssumption
  <1>7. w[Len(w)] = e
    BY <1>1, <1>2, <1>3, <1>5
  <1>8. ASSUME NEW i \in 1 .. Len(w) - 1
        PROVE  /\ i + Len(s) + 1 - Len(w) \in 1 .. Len(s)
               /\ w[i] = s[i + Len(s) + 1 - Len(w)]
    <2>1. PICK n \in Nat : n = Len(s) /\ Len(w) = n + 1 - drop
      <3>1. Len(all) = Len(s) + 1 /\ Len(w) = Len(all) - drop
        BY <1>1, <1>5, Zenon
      <3> QED
        BY <1>2, <3>1, SMT
    <2>2. i \in Int /\ 1 <= i /\ i <= n - drop
      <3>1. i \in 1 .. n + 1 - drop - 1
        BY <2>1, SMT
      <3> QED
        BY <1>3, <3>1, SMT
    <2>3. i + n + 1 - (n + 1 - drop) = i + drop /\ i + drop \in 1 .. n /\ i \in 1 .. n + 1 - drop
      BY <2>2, ShiftedIndex, Zenon
    <2>4. PICK k \in 1 .. Len(s) : i + Len(s) + 1 - Len(w) = k /\ i + drop = k
      BY <2>1, <2>3, Zenon
    <2>5. w[i] = all[k]
      BY <1>5, <2>1, <2>3, <2>4, Zenon
    <2>6. all[k] = s[k]
      BY <1>1, Zenon
    <2> QED
      BY <2>4, <2>5, <2>6, Zenon
  <1> QED
    BY <1>5, <1>6, <1>7, <1>8

----------------------------------------------------------------------------
(* The invariant.                                                          *)

\* The constants, with which every step is done.
LEMMA Constants ==
  /\ AnnounceLimit \in Nat \ {0} /\ SyncLimit \in Nat \ {0} /\ MeasureLimit \in Nat \ {0}
  /\ RequestInterval \in Nat \ {0} /\ DelayRange \in Nat \ {0} /\ StableNeeded \in Nat \ {0}
  /\ Tolerance \in Nat /\ OriginLimit \in Nat /\ FilterDivisor \in Nat \ {0}
  /\ Ranks \subseteq Nat /\ Offsets \subseteq Int /\ NoMaster \notin Masters
  BY LimitAssumption, RankAssumption, OffsetAssumption, MasterAssumption
     DEF LimitAssumption, RankAssumption, OffsetAssumption, MasterAssumption

\* TypeOK in parts: what has Boolean values, what is told by numbers, and the
\* history of measurements.
FlagTypes ==
    /\ running \in BOOLEAN /\ phase \in {"event", "general", "timers"}
    /\ locked \in BOOLEAN /\ storing \in {"nothing", "lock", "unlock", "zero"}
AgeTypes ==
    /\ announceAge \in Ages(AnnounceLimit) /\ syncAge \in Ages(SyncLimit)
    /\ measureAge \in Ages(MeasureLimit) /\ requestAge \in 0 .. RequestInterval
    /\ originAge \in 0 .. OriginLimit
ExchangeTypes ==
    /\ master \in Masters \cup {NoMaster} /\ masterRank \in Ranks \cup {0}
    /\ sync \in [state : {"none", "waiting", "complete"}, sequence : SyncSequences \cup {-1}]
    /\ delaySequence \in 0 .. DelayRange - 1 /\ pending \in -1 .. DelayRange - 1
OffsetTypes ==
    /\ filtered \in [known : BOOLEAN, value : Int] /\ stable \in 0 .. StableNeeded
    /\ offset \in Int /\ backing \in 0 .. StableNeeded
RecentTypes ==
    recent \in Seq(Measurements) /\ Len(recent) <= StableNeeded

\* The parts make up TypeOK, before and after a step.
LEMMA TypeParts ==
  /\ TypeOK <=> FlagTypes /\ AgeTypes /\ ExchangeTypes /\ OffsetTypes /\ RecentTypes
  /\ TypeOK' <=> FlagTypes' /\ AgeTypes' /\ ExchangeTypes' /\ OffsetTypes' /\ RecentTypes'
  BY DEF TypeOK, FlagTypes, AgeTypes, ExchangeTypes, OffsetTypes, RecentTypes, Measurements

\* It holds before the thread is started.
LEMMA InitInv == Init => IInv
  <1> SUFFICES ASSUME Init PROVE IInv
    OBVIOUS
  <1>1. TypeOK
    <2>1. FlagTypes
      BY DEF FlagTypes, Init, Locals
    <2>2. AgeTypes
      BY Constants DEF AgeTypes, Init, Locals, Ages
    <2>3. ExchangeTypes
      BY Constants DEF ExchangeTypes, Init, Locals, NoSync
    <2>4. OffsetTypes
      BY Constants DEF OffsetTypes, Init, Locals, NoOffset
    <2>5. RecentTypes
      BY Constants DEF RecentTypes, Init, Locals
    <2> QED
      BY <2>1, <2>2, <2>3, <2>4, <2>5, TypeParts
  <1>2. StableMeans /\ StoringMeans /\ LockedOnThisMaster
    BY Constants DEF Init, Locals, StableMeans, StoringMeans, LockedOnThisMaster
  <1> QED
    BY <1>1, <1>2 DEF IInv

\* Time alone changes ages.
LEMMA TickInv == IInv /\ Tick => IInv'
  <1> SUFFICES ASSUME IInv, Tick PROVE IInv'
    OBVIOUS
  <1>0. FlagTypes /\ AgeTypes /\ ExchangeTypes /\ OffsetTypes /\ RecentTypes
    BY TypeParts DEF IInv
  <1>1. TypeOK'
    <2>1. FlagTypes'
      BY <1>0 DEF FlagTypes, Tick
    <2>2. AgeTypes'
      BY <1>0, Constants DEF AgeTypes, Tick, Ages, Older, Least
    <2>3. ExchangeTypes'
      BY <1>0, Constants DEF ExchangeTypes, Tick
    <2>4. OffsetTypes'
      BY <1>0, Constants DEF OffsetTypes, Tick
    <2>5. RecentTypes'
      BY <1>0 DEF RecentTypes, Tick
    <2> QED
      BY <2>1, <2>2, <2>3, <2>4, <2>5, TypeParts
  <1>2. (StableMeans /\ StoringMeans /\ LockedOnThisMaster)'
    BY DEF IInv, Tick, StableMeans, StoringMeans, LockedOnThisMaster, Close
  <1> QED
    BY <1>1, <1>2 DEF IInv

\* start() and stop() take the lock back.
LEMMA StartStopInv == IInv /\ (Start \/ Stop) => IInv'
  <1> SUFFICES ASSUME IInv, Start \/ Stop PROVE IInv'
    OBVIOUS
  <1>0. FlagTypes /\ AgeTypes /\ ExchangeTypes /\ OffsetTypes /\ RecentTypes
    BY TypeParts DEF IInv
  <1>1. CASE Start
    <2>1. TypeOK'
      <3>1. FlagTypes'
        BY <1>0, <1>1 DEF FlagTypes, Start, localVars
      <3>2. AgeTypes'
        BY <1>0, <1>1, Constants DEF AgeTypes, Start, localVars
      <3>3. ExchangeTypes'
        BY <1>0, <1>1, Constants DEF ExchangeTypes, Start, localVars
      <3>4. OffsetTypes'
        BY <1>0, <1>1, Constants DEF OffsetTypes, Start, localVars
      <3>5. RecentTypes'
        BY <1>0, <1>1 DEF RecentTypes, Start, localVars
      <3> QED
        BY <3>1, <3>2, <3>3, <3>4, <3>5, TypeParts
    <2>2. (StableMeans /\ StoringMeans /\ LockedOnThisMaster)'
      BY <1>1 DEF IInv, Start, localVars, StableMeans, StoringMeans, LockedOnThisMaster
    <2> QED
      BY <2>1, <2>2 DEF IInv
  <1>2. CASE Stop
    <2>1. TypeOK'
      <3>1. FlagTypes'
        BY <1>0, <1>2 DEF FlagTypes, Stop
      <3>2. AgeTypes'
        BY <1>0, <1>2, Constants DEF AgeTypes, Stop, Ages
      <3>3. ExchangeTypes'
        BY <1>0, <1>2, Constants DEF ExchangeTypes, Stop, NoSync
      <3>4. OffsetTypes'
        BY <1>0, <1>2, Constants DEF OffsetTypes, Stop, NoOffset
      <3>5. RecentTypes'
        BY <1>0, <1>2, Constants DEF RecentTypes, Stop
      <3> QED
        BY <3>1, <3>2, <3>3, <3>4, <3>5, TypeParts
    <2>2. (StableMeans /\ StoringMeans /\ LockedOnThisMaster)'
      BY <1>2 DEF IInv, Stop, StableMeans, StoringMeans, LockedOnThisMaster
    <2> QED
      BY <2>1, <2>2 DEF IInv
  <1> QED
    BY <1>1, <1>2

\* An Announce of another master empties the counter and takes the lock back.
LEMMA AnnounceInv ==
  ASSUME IInv, NEW m \in Masters, NEW rank \in Ranks, Announce(m, rank)
  PROVE  IInv'
  <1>0. FlagTypes /\ AgeTypes /\ ExchangeTypes /\ OffsetTypes /\ RecentTypes
    BY TypeParts DEF IInv
  <1>1. TypeOK'
    <2>1. FlagTypes'
      BY <1>0 DEF FlagTypes, Announce, Receiving, historyVars
    <2>2. AgeTypes'
      BY <1>0, Constants DEF AgeTypes, Announce, Receiving, historyVars, Ages
    <2>3. ExchangeTypes'
      BY <1>0, Constants DEF ExchangeTypes, Announce, Receiving, historyVars, NoSync
    <2>4. OffsetTypes'
      BY <1>0, Constants DEF OffsetTypes, Announce, Receiving, historyVars
    <2>5. RecentTypes'
      BY <1>0 DEF RecentTypes, Announce, Receiving, historyVars
    <2> QED
      BY <2>1, <2>2, <2>3, <2>4, <2>5, TypeParts
  <1>2. CASE m = master
    BY <1>1, <1>2 DEF IInv, Announce, Receiving, historyVars, StableMeans, StoringMeans,
                      LockedOnThisMaster, Close
  <1>3. CASE m # master
    <2>1. stable' = 0 /\ ~locked' /\ storing' = "nothing" /\ recent' = recent
      BY <1>3 DEF Announce, Receiving, historyVars
    <2>2. Len(recent) \in Nat /\ DOMAIN recent = 1 .. Len(recent)
      BY <1>0 DEF RecentTypes
    <2>3. StableMeans'
      BY <2>1, <2>2 DEF StableMeans
    <2>4. StoringMeans' /\ LockedOnThisMaster'
      BY <2>1 DEF StoringMeans, LockedOnThisMaster
    <2> QED
      BY <1>1, <2>3, <2>4 DEF IInv
  <1> QED
    BY <1>2, <1>3

\* Sync and Follow_Up.
LEMMA SyncInv ==
  ASSUME IInv, NEW sequence \in SyncSequences,
         FollowUp(sequence) \/ \E two \in BOOLEAN : Sync(sequence, two)
  PROVE  IInv'
  <1>0. FlagTypes /\ AgeTypes /\ ExchangeTypes /\ OffsetTypes /\ RecentTypes
    BY TypeParts DEF IInv
  <1>1. TypeOK'
    <2>1. CASE FollowUp(sequence)
      <3>1. FlagTypes'
        BY <1>0, <2>1 DEF FlagTypes, FollowUp, Receiving
      <3>2. AgeTypes'
        BY <1>0, <2>1, Constants DEF AgeTypes, FollowUp, Receiving, Ages
      <3>3. ExchangeTypes'
        BY <1>0, <2>1, Constants DEF ExchangeTypes, FollowUp, Receiving
      <3>4. OffsetTypes'
        BY <1>0, <2>1, Constants DEF OffsetTypes, FollowUp, Receiving
      <3>5. RecentTypes'
        BY <1>0, <2>1 DEF RecentTypes, FollowUp, Receiving
      <3> QED
        BY <3>1, <3>2, <3>3, <3>4, <3>5, TypeParts
    <2>2. ASSUME NEW two \in BOOLEAN, Sync(sequence, two)
          PROVE  TypeOK'
      <3>1. FlagTypes'
        BY <1>0, <2>2 DEF FlagTypes, Sync, Receiving
      <3>2. AgeTypes'
        BY <1>0, <2>2, Constants DEF AgeTypes, Sync, Receiving, Ages
      <3>3. ExchangeTypes'
        BY <1>0, <2>2, Constants DEF ExchangeTypes, Sync, Receiving
      <3>4. OffsetTypes'
        BY <1>0, <2>2, Constants DEF OffsetTypes, Sync, Receiving
      <3>5. RecentTypes'
        BY <1>0, <2>2 DEF RecentTypes, Sync, Receiving
      <3> QED
        BY <3>1, <3>2, <3>3, <3>4, <3>5, TypeParts
    <2> QED
      BY <2>1, <2>2
  <1>2. UNCHANGED <<master, stable, locked, offset, storing, recent>>
    BY DEF FollowUp, Sync
  <1> QED
    BY <1>1, <1>2 DEF IInv, StableMeans, StoringMeans, LockedOnThisMaster, Close

\* A measurement that is refused.
LEMMA DelayRespRejectedInv ==
  ASSUME IInv, NEW sequence \in 0 .. DelayRange - 1, DelayRespRejected(sequence)
  PROVE  IInv'
  <1>0. FlagTypes /\ AgeTypes /\ ExchangeTypes /\ OffsetTypes /\ RecentTypes
    BY TypeParts DEF IInv
  <1>1. TypeOK'
    <2>1. FlagTypes'
      BY <1>0 DEF FlagTypes, DelayRespRejected, Receiving, historyVars
    <2>2. AgeTypes'
      BY <1>0, Constants DEF AgeTypes, DelayRespRejected, Receiving, historyVars
    <2>3. ExchangeTypes'
      BY <1>0, Constants DEF ExchangeTypes, DelayRespRejected, Receiving, historyVars
    <2>4. OffsetTypes'
      BY <1>0, Constants DEF OffsetTypes, DelayRespRejected, Receiving, historyVars
    <2>5. RecentTypes'
      BY <1>0 DEF RecentTypes, DelayRespRejected, Receiving, historyVars
    <2> QED
      BY <2>1, <2>2, <2>3, <2>4, <2>5, TypeParts
  <1>2. (StableMeans /\ StoringMeans /\ LockedOnThisMaster)'
    BY DEF IInv, TypeOK, DelayRespRejected, Receiving, historyVars, StableMeans, StoringMeans,
           LockedOnThisMaster, Close
  <1> QED
    BY <1>1, <1>2 DEF IInv
\* An accepted measurement joins the window.  It either continues the counter,
\* with the same master, or starts it anew; the offset is the filter's.
LEMMA DelayRespInv ==
  ASSUME IInv, NEW sequence \in 0 .. DelayRange - 1, NEW found \in Offsets,
         DelayResp(sequence, found)
  PROVE  IInv'
  <1>0. FlagTypes /\ AgeTypes /\ ExchangeTypes /\ OffsetTypes /\ RecentTypes
    BY TypeParts DEF IInv
  <1> DEFINE entry == [from |-> master, offset |-> found]
  <1>1. /\ master \in Masters /\ master' = master
        /\ found \in Int /\ entry \in Measurements
    BY <1>0, Constants DEF DelayResp, Answers, ExchangeTypes, Measurements
  <1>2. recent' = Window(recent, entry)
    BY DEF DelayResp, Window
  <1> HIDE DEF entry
  <1>3. /\ recent' \in Seq(Measurements)
        /\ Len(recent') = (IF Len(recent) < StableNeeded THEN Len(recent) + 1 ELSE StableNeeded)
        /\ recent'[Len(recent')] = entry
        /\ \A i \in 1 .. Len(recent') - 1 :
              /\ i + Len(recent) + 1 - Len(recent') \in 1 .. Len(recent)
              /\ recent'[i] = recent[i + Len(recent) + 1 - Len(recent')]
    <2>1. recent \in Seq(Measurements) /\ entry \in Measurements /\ Len(recent) <= StableNeeded
      BY <1>0, <1>1 DEF RecentTypes
    <2>2. PICK w : w = recent'
      OBVIOUS
    <2>3. w = Window(recent, entry)
      BY <1>2, <2>2
    <2>4. /\ w \in Seq(Measurements)
          /\ Len(w) = (IF Len(recent) < StableNeeded THEN Len(recent) + 1 ELSE StableNeeded)
          /\ w[Len(w)] = entry
          /\ \A i \in 1 .. Len(w) - 1 :
                /\ i + Len(recent) + 1 - Len(w) \in 1 .. Len(recent)
                /\ w[i] = recent[i + Len(recent) + 1 - Len(w)]
      BY <2>1, <2>3, WindowProperties, SMTT(30)
    <2> QED
      BY <2>2, <2>4, Zenon
  <1>4. Len(recent) \in Nat /\ Len(recent') \in Nat \ {0} /\ Len(recent') <= StableNeeded
    BY <1>0, <1>3, Constants DEF RecentTypes
  <1>5. /\ filtered' \in [known : BOOLEAN, value : Int] /\ Close(filtered'.value, found)
        /\ stable' \in 1 .. StableNeeded
        /\ stable' <= stable + 1
    <2>1. CASE filtered.known /\ Close(found, filtered.value)
      <3>1. /\ filtered.value + Quotient(found - filtered.value, FilterDivisor) \in Int
            /\ Close(filtered.value + Quotient(found - filtered.value, FilterDivisor), found)
        BY <1>0, <1>1, <2>1, FilterIsClose DEF OffsetTypes
      <3>2. filtered' = Offset(filtered.value + Quotient(found - filtered.value, FilterDivisor))
        BY <2>1 DEF DelayResp
      <3>3. stable' = Least(stable + 1, StableNeeded)
        BY <2>1 DEF DelayResp
      <3>4. stable' \in 1 .. StableNeeded /\ stable' <= stable + 1
        BY <1>0, <3>3, Constants DEF OffsetTypes, Least
      <3> QED
        BY <3>1, <3>2, <3>4 DEF Offset
    <2>2. CASE ~(filtered.known /\ Close(found, filtered.value))
      <3>1. stable' = 1 /\ filtered' = Offset(found)
        BY <2>2 DEF DelayResp
      <3>2. Close(found, found)
        BY <1>1, Constants DEF Close
      <3> QED
        BY <1>0, <1>1, <3>1, <3>2, Constants DEF OffsetTypes, Offset
    <2> QED
      BY <2>1, <2>2
  <1>6. TypeOK'
    <2>1. FlagTypes'
      BY <1>0 DEF FlagTypes, DelayResp, Receiving
    <2>2. AgeTypes'
      BY <1>0, Constants DEF AgeTypes, DelayResp, Ages
    <2>3. ExchangeTypes'
      BY <1>0, Constants DEF ExchangeTypes, DelayResp
    <2>4. OffsetTypes'
      <3>1. offset' = filtered'.value /\ backing' = stable'
        BY DEF DelayResp
      <3> QED
        BY <1>5, <3>1, Constants DEF OffsetTypes
    <2>5. RecentTypes'
      BY <1>3, <1>4 DEF RecentTypes
    <2> QED
      BY <2>1, <2>2, <2>3, <2>4, <2>5, TypeParts
  <1>7. ASSUME NEW k \in Nat, k <= Len(recent),
               \A i \in DOMAIN recent : i > Len(recent) - k => recent[i].from = master
        PROVE  \A i \in DOMAIN recent' : i > Len(recent') - (k + 1) => recent'[i].from = master'
    <2> SUFFICES ASSUME NEW i \in 1 .. Len(recent'), i > Len(recent') - (k + 1)
                 PROVE  recent'[i].from = master
      BY <1>1, <1>3
    <2>1. CASE i = Len(recent')
      BY <1>3, <2>1 DEF entry
    <2>2. CASE i # Len(recent')
      <3>1. i \in 1 .. Len(recent') - 1
        BY <1>4, <2>2
      <3>2. PICK n \in 1 .. Len(recent) : n = i + Len(recent) + 1 - Len(recent')
        BY <1>3, <3>1
      <3>3. n > Len(recent) - k /\ n \in DOMAIN recent
        BY <1>0, <1>4, <3>1, <3>2 DEF RecentTypes
      <3> QED
        BY <1>3, <1>7, <3>1, <3>2, <3>3
    <2> QED
      BY <2>1, <2>2
  <1>8. StableMeans'
    <2>1. stable \in Nat /\ stable <= Len(recent)
      BY <1>0, Constants DEF IInv, StableMeans, OffsetTypes
    <2>2. \A i \in DOMAIN recent' : i > Len(recent') - (stable + 1) => recent'[i].from = master'
      BY <1>7, <2>1 DEF IInv, StableMeans
    <2>3. stable' <= Len(recent')
      BY <1>3, <1>4, <1>5, <2>1, Constants
    <2>4. \A i \in 1 .. Len(recent') : i > Len(recent') - stable' => i > Len(recent') - (stable + 1)
      BY <1>4, <1>5, <2>1
    <2>5. DOMAIN recent' = 1 .. Len(recent')
      BY <1>3
    <2> QED
      BY <2>2, <2>3, <2>4, <2>5 DEF StableMeans
  <1>9. StoringMeans'
    <2>1. offset' = filtered'.value /\ storing' = (IF Fresh /\ stable' >= StableNeeded THEN "lock" ELSE "unlock")
      BY DEF DelayResp
    <2>2. recent' # <<>> /\ recent'[Len(recent')].offset = found
      BY <1>3, <1>4 DEF entry
    <2>3. storing' = "lock" => stable' = StableNeeded
      BY <1>5, <2>1, Constants
    <2>4. Close(offset', recent'[Len(recent')].offset)
      BY <1>5, <2>1, <2>2
    <2> QED
      BY <2>1, <2>2, <2>3, <2>4 DEF StoringMeans, Close
  <1>10. LockedOnThisMaster'
    <2> SUFFICES ASSUME locked'
                 PROVE  Len(recent') = StableNeeded /\ \A i \in DOMAIN recent' : recent'[i].from = master'
      BY DEF LockedOnThisMaster
    <2>1. locked
      BY DEF DelayResp
    <2>2. Len(recent) = StableNeeded /\ \A i \in DOMAIN recent : recent[i].from = master
      BY <2>1 DEF IInv, LockedOnThisMaster
    <2>3. \A i \in DOMAIN recent' : i > Len(recent') - (Len(recent) + 1) => recent'[i].from = master'
      BY <1>4, <1>7, <2>2
    <2>4. Len(recent') = StableNeeded
      BY <1>3, <2>2, Constants
    <2>5. \A i \in 1 .. Len(recent') : i > Len(recent') - (Len(recent) + 1)
      BY <1>4, <2>2, <2>4, Constants
    <2> QED
      BY <1>3, <2>3, <2>4, <2>5
  <1> QED
    BY <1>6, <1>8, <1>9, <1>10 DEF IInv

\* A turn in which nothing useful arrives.
LEMMA NothingUsefulInv == IInv /\ NothingUseful => IInv'
  <1> SUFFICES ASSUME IInv, NothingUseful PROVE IInv'
    OBVIOUS
  <1>0. FlagTypes /\ AgeTypes /\ ExchangeTypes /\ OffsetTypes /\ RecentTypes
    BY TypeParts DEF IInv
  <1>1. TypeOK'
    <2>1. FlagTypes'
      BY <1>0 DEF FlagTypes, NothingUseful, Receiving, localVars, historyVars
    <2>2. AgeTypes'
      BY <1>0, Constants DEF AgeTypes, NothingUseful, Receiving, localVars, historyVars
    <2>3. ExchangeTypes'
      BY <1>0, Constants DEF ExchangeTypes, NothingUseful, Receiving, localVars, historyVars
    <2>4. OffsetTypes'
      BY <1>0, Constants DEF OffsetTypes, NothingUseful, Receiving, localVars, historyVars
    <2>5. RecentTypes'
      BY <1>0 DEF RecentTypes, NothingUseful, Receiving, localVars, historyVars
    <2> QED
      BY <2>1, <2>2, <2>3, <2>4, <2>5, TypeParts
  <1>2. (StableMeans /\ StoringMeans /\ LockedOnThisMaster)'
    BY DEF IInv, NothingUseful, localVars, historyVars, StableMeans, StoringMeans,
           LockedOnThisMaster, Close
  <1> QED
    BY <1>1, <1>2 DEF IInv

\* The Delay_Req, and the lock that is taken back when a message is overdue.
LEMMA TimersInv ==
  ASSUME IInv, NEW sent \in BOOLEAN, Timers(sent)
  PROVE  IInv'
  <1>0. FlagTypes /\ AgeTypes /\ ExchangeTypes /\ OffsetTypes /\ RecentTypes
    BY TypeParts DEF IInv
  <1>1. TypeOK'
    <2>1. FlagTypes'
      BY <1>0 DEF FlagTypes, Timers, historyVars
    <2>2. AgeTypes'
      BY <1>0, Constants DEF AgeTypes, Timers, historyVars, Request
    <2>3. ExchangeTypes'
      BY <1>0, Constants DEF ExchangeTypes, Timers, historyVars, Request
    <2>4. OffsetTypes'
      BY <1>0, Constants DEF OffsetTypes, Timers, historyVars
    <2>5. RecentTypes'
      BY <1>0 DEF RecentTypes, Timers, historyVars
    <2> QED
      BY <2>1, <2>2, <2>3, <2>4, <2>5, TypeParts
  <1>2. (StableMeans /\ StoringMeans /\ LockedOnThisMaster)'
    BY <1>0 DEF IInv, RecentTypes, Timers, historyVars, StableMeans, StoringMeans,
           LockedOnThisMaster, Close
  <1> QED
    BY <1>1, <1>2 DEF IInv

\* The second store.
LEMMA SettleInv == IInv /\ Settle => IInv'
  <1> SUFFICES ASSUME IInv, Settle PROVE IInv'
    OBVIOUS
  <1>0. FlagTypes /\ AgeTypes /\ ExchangeTypes /\ OffsetTypes /\ RecentTypes
    BY TypeParts DEF IInv
  <1>1. TypeOK'
    <2>1. FlagTypes'
      BY <1>0 DEF FlagTypes, Settle, localVars
    <2>2. AgeTypes'
      BY <1>0, Constants DEF AgeTypes, Settle, localVars
    <2>3. ExchangeTypes'
      BY <1>0, Constants DEF ExchangeTypes, Settle, localVars
    <2>4. OffsetTypes'
      BY <1>0, Constants DEF OffsetTypes, Settle, localVars
    <2>5. RecentTypes'
      BY <1>0 DEF RecentTypes, Settle, localVars
    <2> QED
      BY <2>1, <2>2, <2>3, <2>4, <2>5, TypeParts
  <1>2. StableMeans'
    BY DEF IInv, Settle, localVars, StableMeans
  <1>3. StoringMeans'
    <2>1. CASE storing = "zero"
      BY <2>1 DEF IInv, Settle, StoringMeans
    <2>2. CASE storing # "zero"
      <3>1. storing \in {"lock", "unlock"}
        BY <1>0, <2>2 DEF Settle, FlagTypes
      <3> QED
        BY <2>2, <3>1 DEF IInv, Settle, StoringMeans, Close
    <2> QED
      BY <2>1, <2>2
  <1>4. LockedOnThisMaster'
    <2>1. CASE storing = "lock"
      <3>1. stable = StableNeeded /\ stable <= Len(recent)
        BY <2>1 DEF IInv, StoringMeans, StableMeans
      <3>2. Len(recent) = StableNeeded
        BY <1>0, <3>1, Constants DEF RecentTypes
      <3>3. \A i \in DOMAIN recent : recent[i].from = master
        BY <1>0, <3>1, <3>2 DEF IInv, StableMeans, RecentTypes
      <3> QED
        BY <3>2, <3>3 DEF Settle, localVars, LockedOnThisMaster
    <2>2. CASE storing # "lock"
      BY <2>2 DEF IInv, Settle, localVars, LockedOnThisMaster
    <2> QED
      BY <2>1, <2>2
  <1> QED
    BY <1>1, <1>2, <1>3, <1>4 DEF IInv

\* Every step keeps the invariant.
LEMMA NextInv == IInv /\ [Next]_vars => IInv'
  <1> SUFFICES ASSUME IInv, [Next]_vars PROVE IInv'
    OBVIOUS
  <1>1. CASE Process
    BY <1>1, AnnounceInv, SyncInv, DelayRespRejectedInv, DelayRespInv, NothingUsefulInv DEF Process
  <1>2. CASE Tick \/ Start \/ Stop \/ Settle
    BY <1>2, TickInv, StartStopInv, SettleInv
  <1>3. CASE \E sent \in BOOLEAN : Timers(sent)
    BY <1>3, TimersInv
  <1>4. CASE UNCHANGED vars
    BY <1>4 DEF vars, localVars, historyVars, IInv, TypeOK, StableMeans, StoringMeans,
                LockedOnThisMaster, Close
  <1> QED
    BY <1>1, <1>2, <1>3, <1>4 DEF Next, Loop

\* The invariant holds throughout.
LEMMA AlwaysInv == Spec => []IInv
  BY InitInv, NextInv, PTL DEF Spec

----------------------------------------------------------------------------

\* Types: in particular delaySequence stays in its range and the counter of
\* stable measurements never exceeds what a lock needs.
THEOREM TypeCorrect == Spec => []TypeOK
  <1>1. IInv => TypeOK
    BY DEF IInv
  <1> QED
    BY <1>1, AlwaysInv, PTL

\* However masters and messages alternate, ptpLocked is set only on
\* measurements that were all taken with the master followed now
\* (PTPClient::process).
THEOREM LockIsOnThisMaster == Spec => []LockedOnThisMaster
  <1>1. IInv => LockedOnThisMaster
    BY DEF IInv
  <1> QED
    BY <1>1, AlwaysInv, PTL

\* Whenever a thread that stamps packets finds ptpLocked set, the offset beside
\* it is within the tolerance of the last measurement, for every tolerance and
\* filter divisor, also between the two stores (PTPClient::process,
\* LiveEngine::transmitLoop).
THEOREM LockedOffsetStaysClose == Spec => []LockedOffsetIsClose
  <1>1. IInv => LockedOffsetIsClose
    BY DEF IInv, StoringMeans, LockedOffsetIsClose, Last
  <1> QED
    BY <1>1, AlwaysInv, PTL
----------------------------------------------------------------------------
(* The measurement itself (PTPExchange): what the client keeps are times   *)
(* of the master's clock, and the corrections are those of the messages.   *)

Truth == [sent : Nat, residence : Nat]

SyncTypes == {"sync", "followUp"}
DelayTypes == {"delayRequest", "delayResponse"}

Messages ==
    [type : SyncTypes \cup DelayTypes, size : Nat, length : Nat, version : Nat, domain : Nat,
     sequence : Nat \ {0}, stamp : [seconds : Nat, nanos : Nat], twoStep : BOOLEAN,
     correction : Nat, requester : {"us", "another"}, true : Truth]

\* A message as its sender made it.
Made(m) == m \in Messages /\ m.size = Bytes(m.type) /\ m.length = Bytes(m.type)

\* It tells the truth about when it was sent, a two-step Sync nothing.
Told(m) ==
    /\ m.type = "sync" /\ m.twoStep => m.correction = 0
    /\ m.type = "followUp" \/ (m.type = "sync" /\ ~m.twoStep) => m.stamp = Stamp(m.true.sent)
    /\ m.type \in {"followUp", "delayResponse"} \/ (m.type = "sync" /\ ~m.twoStep) =>
          m.correction = m.true.residence

\* So does whatever is in the air; its number is one that was given.
AirMeans ==
    \A m \in air :
        /\ Made(m) /\ Told(m)
        /\ m.type \in SyncTypes => m.sequence <= syncs
        /\ m.type \in DelayTypes => m.sequence <= xSequence

\* A number stands for one Sync, and for one Delay_Req.
NumbersMean ==
    \A m, n \in air : m.sequence = n.sequence =>
        /\ m.type \in SyncTypes /\ n.type \in SyncTypes => m.true = n.true
        /\ m.type \in DelayTypes /\ n.type \in DelayTypes => m.true.sent = n.true.sent

\* What the client keeps of a Sync whose truth is t.
KeptOf(t) ==
    /\ xSync.true = ScaledUnit * (xSync.ingress - theta - t.sent) - t.residence
    /\ IF xSync.timed THEN xSync.origin = t.sent /\ xSync.correction = t.residence + xSync.again
                      ELSE xSync.correction = 0 /\ xSync.again = 0

KeptSyncs ==
    [known : {TRUE}, sequence : Nat, ingress : Int, timed : BOOLEAN, origin : Int,
     correction : Nat, true : Int, again : Nat]

SyncMeans ==
    \/ xSync = NoExchange
    \/ /\ xSync \in KeptSyncs
       /\ \E m \in air : m.type = "sync" /\ m.sequence = xSync.sequence /\ KeptOf(m.true)

\* The egress time is that of the request that is awaited, or of a later one
\* that could not be sent.
RequestMeans ==
    /\ xPending \in 0 .. xSequence
    /\ xSequence # 0 => nextRequest = egress - theta + ExchangeInterval
    /\ xPending # 0 =>
          \E m \in air :
             /\ m.type = "delayRequest" /\ m.sequence = xPending
             /\ \/ egress - theta = m.true.sent
                \/ egress - theta >= m.true.sent + ExchangeInterval

ExchangeNumbers ==
    /\ now \in Nat /\ theta \in Int /\ syncs \in Nat /\ xSequence \in Nat
    /\ egress \in Int /\ nextRequest \in Int

ExchangeInv ==
    ExchangeNumbers /\ AirMeans /\ NumbersMean /\ SyncMeans /\ RequestMeans /\ MeasuresOffset

LEMMA ExchangeConstants ==
  /\ ScaledUnit \in Nat /\ ScaledUnit > 0 /\ Second \in Nat /\ Second > 0
  /\ MaxSeconds \in Nat /\ ExchangeInterval \in Nat
  /\ \A c \in Corrections : c \in Nat
  /\ \A t \in Thetas : t \in Int
  BY ExchangeAssumption DEF ExchangeAssumption

\* Division with a remainder.
LEMMA Divided ==
  ASSUME NEW n \in Nat, NEW s \in Nat, s > 0
  PROVE  n \div s \in Nat /\ n % s \in 0 .. s - 1 /\ n = s * (n \div s) + (n % s)
  <1>1. n \div s \in Nat
    OBVIOUS
  <1>2. n % s \in 0 .. s - 1
    OBVIOUS
  <1>3. n = s * (n \div s) + (n % s)
    OBVIOUS
  <1> QED
    BY <1>1, <1>2, <1>3

\* What putTimestamp writes getTimestamp reads.
LEMMA StampRead ==
  ASSUME NEW t \in Int
  PROVE  /\ Stamp(t).seconds \in Nat /\ Stamp(t).nanos \in Nat
         /\ Time(Stamp(t)) \in Nat
         /\ t >= 0 => Time(Stamp(t)) = t
  <1> DEFINE n == IF t < 0 THEN 0 ELSE t
  <1>1. n \in Nat /\ (t >= 0 => n = t)
    OBVIOUS
  <1>2. Stamp(t) = [seconds |-> n \div Second, nanos |-> n % Second]
    BY DEF Stamp
  <1> HIDE DEF n
  <1>3. PICK q \in Nat, r \in Nat : q = n \div Second /\ r = n % Second /\ n = Second * q + r
    BY <1>1, ExchangeConstants, Divided
  <1>4. Stamp(t).seconds = q /\ Stamp(t).nanos = r
    BY <1>2, <1>3
  <1>5. q * Second = Second * q
    BY ExchangeConstants
  <1>6. Time(Stamp(t)) = n
    BY <1>3, <1>4, <1>5 DEF Time
  <1> QED
    BY <1>1, <1>4, <1>6

\* A correction in whole units, and the part of a unit that is cut off.
LEMMA WholeUnits ==
  ASSUME NEW c \in Nat
  PROVE  /\ Truncated(c, ScaledUnit) \in Int
         /\ \E part \in 0 .. ScaledUnit - 1 : c = ScaledUnit * Truncated(c, ScaledUnit) + part
  <1>1. Truncated(c, ScaledUnit) = c \div ScaledUnit
    BY DEF Truncated
  <1>2. /\ c \div ScaledUnit \in Nat /\ c % ScaledUnit \in 0 .. ScaledUnit - 1
        /\ c = ScaledUnit * (c \div ScaledUnit) + (c % ScaledUnit)
    BY ExchangeConstants, Divided
  <1> QED
    BY <1>1, <1>2

\* Halving cuts off half a unit at most, and leaves -2 and below negative.
LEMMA Halved ==
  ASSUME NEW a \in Int
  PROVE  /\ Truncated(a, 2) \in Int
         /\ a - 1 <= 2 * Truncated(a, 2) /\ 2 * Truncated(a, 2) <= a + 1
         /\ a <= -2 => Truncated(a, 2) < 0
  BY DEF Truncated

\* What calculateE2E computes, given what becomes of the corrections.
LEMMA CalculateParts ==
  ASSUME NEW origin \in Int, NEW ingress \in Int, NEW sent \in Int, NEW receipt \in Int,
         NEW down, NEW up,
         NEW there \in Int, NEW back \in Int,
         there = ingress - origin - Truncated(down, ScaledUnit),
         back = receipt - sent - Truncated(up, ScaledUnit),
         calculateE2E(origin, ingress, sent, receipt, down, up).known
  PROVE  /\ there + back > -2
         /\ calculateE2E(origin, ingress, sent, receipt, down, up).offset = Truncated(there - back, 2)
  <1>1. there + back \in Int
    OBVIOUS
  <1>2. ~(Truncated(there + back, 2) < 0)
    BY DEF calculateE2E
  <1> QED
    BY <1>1, <1>2, Halved DEF calculateE2E

\* Products with the unit of the corrections, for the linear steps below.
LEMMA Spread ==
  ASSUME NEW s \in Int, NEW a \in Int, NEW b \in Int, NEW c \in Int, NEW d \in Int, NEW e \in Int
  PROVE  /\ s * a \in Int /\ s * b \in Int /\ s * c \in Int /\ s * d \in Int /\ s * e \in Int
         /\ s * (a - b - c + d + e) = s * a - s * b - s * c + s * d + s * e
  OBVIOUS

LEMMA Doubled ==
  ASSUME NEW s \in Int, NEW a \in Int
  PROVE  2 * s * a = s * (2 * a)
  OBVIOUS

LEMMA Times ==
  ASSUME NEW s \in Nat, NEW a \in Int, NEW b \in Int, a <= b
  PROVE  s * a <= s * b
  OBVIOUS

\* The arithmetic of a measurement whose four times belong together.  A Sync
\* took d units, of which residence parts are corrected, and an answer u;
\* again was corrected twice; whole and part are the corrections.
LEMMA OffsetArithmetic ==
  ASSUME NEW s \in Nat, NEW d \in Int, NEW u \in Int, NEW th \in Int, NEW h \in Int,
         NEW residence \in Nat, NEW again \in Nat, NEW c \in Nat,
         NEW whole1 \in Int, NEW part1 \in 0 .. s - 1,
         NEW whole2 \in Int, NEW part2 \in 0 .. s - 1,
         residence + again = s * whole1 + part1, c = s * whole2 + part2,
         NEW there \in Int, NEW back \in Int,
         there = d + th - whole1, back = u - th - whole2,
         there - back - 1 <= 2 * h, 2 * h <= there - back + 1
  PROVE  Within(2 * s * (h - th), (s * d - residence) - (s * u - c) - again, 2 * s)
  <1>1. PICK e \in Int : e = 2 * h - (there - back) /\ -1 <= e /\ e <= 1
    OBVIOUS
  <1>2. 2 * (h - th) = d - u - whole1 + whole2 + e
    BY <1>1
  <1>3. 2 * s * (h - th) = s * (d - u - whole1 + whole2 + e)
    BY <1>2, Doubled
  <1>4. /\ s * (d - u - whole1 + whole2 + e) = s * d - s * u - s * whole1 + s * whole2 + s * e
        /\ s * d \in Int /\ s * u \in Int /\ s * whole1 \in Int /\ s * whole2 \in Int /\ s * e \in Int
    BY Spread
  <1>5. s * e <= s /\ -s <= s * e
    BY <1>1
  <1>6. PICK sd, su, s1, s2, se \in Int :
           sd = s * d /\ su = s * u /\ s1 = s * whole1 /\ s2 = s * whole2 /\ se = s * e
    BY <1>4
  <1>7. 2 * s * (h - th) = sd - su - s1 + s2 + se
    BY <1>3, <1>4, <1>6
  <1>8. residence + again = s1 + part1 /\ c = s2 + part2 /\ se <= s /\ -s <= se
    BY <1>5, <1>6
  <1>9. PICK left \in Int : left = 2 * s * (h - th) /\ left = sd - su - s1 + s2 + se
    BY <1>7
  <1>10. left - ((sd - residence) - (su - c) - again) = part1 - part2 + se
    BY <1>8, <1>9
  <1>11. Within(left, (sd - residence) - (su - c) - again, 2 * s)
    BY <1>8, <1>10 DEF Within
  <1> QED
    BY <1>6, <1>9, <1>11

\* The arithmetic of one whose egress time is later by gap, at least the time
\* between two requests: the sum that becomes the delay is negative.
LEMMA GapArithmetic ==
  ASSUME NEW s \in Nat, s > 0, NEW d \in Int, NEW u \in Int, NEW th \in Int, NEW gap \in Int,
         NEW residence \in Nat, NEW again \in Nat, NEW c \in Nat, NEW interval \in Nat,
         NEW whole1 \in Int, NEW part1 \in 0 .. s - 1,
         NEW whole2 \in Int, NEW part2 \in 0 .. s - 1,
         residence + again = s * whole1 + part1, c = s * whole2 + part2,
         NEW there \in Int, NEW back \in Int,
         there = d + th - whole1, back = u - gap - th - whole2,
         gap >= interval,
         (s * d - residence) + (s * u - c) < s * (interval - 3)
  PROVE  there + back <= -2
  <1>1. d - (-u) - whole1 + (-whole2) + (-gap) = there + back
    OBVIOUS
  <1>2. /\ s * (there + back) = s * d - s * (-u) - s * whole1 + s * (-whole2) + s * (-gap)
        /\ s * d \in Int /\ s * whole1 \in Int
    BY <1>1, Spread
  <1>3. /\ s * (-u) = -(s * u) /\ s * (-whole2) = -(s * whole2) /\ s * (-gap) = -(s * gap)
        /\ s * u \in Int /\ s * whole2 \in Int /\ s * gap \in Int
    OBVIOUS
  <1>4. s * interval <= s * gap /\ s * interval \in Int
    OBVIOUS
  <1>5. s * (interval - 3) = s * interval - 3 * s
    OBVIOUS
  <1>6. PICK sd, su, s1, s2, sg, si \in Int :
           /\ sd = s * d /\ su = s * u /\ s1 = s * whole1 /\ s2 = s * whole2
           /\ sg = s * gap /\ si = s * interval
    BY <1>2, <1>3, <1>4
  <1>7. s * (there + back) = sd + su - s1 - s2 - sg
    BY <1>2, <1>3, <1>6
  <1>8. /\ residence + again = s1 + part1 /\ c = s2 + part2 /\ si <= sg
        /\ (sd - residence) + (su - c) < si - 3 * s
    BY <1>4, <1>5, <1>6
  <1>9. sd + su - s1 - s2 - sg < -s
    BY <1>8
  <1>10. PICK x \in Int : x = there + back
    OBVIOUS
  <1>11. s * x < -s
    BY <1>7, <1>9, <1>10
  <1>12. CASE x >= -1
    <2>1. s * (-1) <= s * x
      BY <1>12, Times
    <2> QED
      BY <1>11, <2>1
  <1> QED
    BY <1>10, <1>12

\* Of what a damaged message may be, only another's answer is decoded.
LEMMA Arrives ==
  ASSUME NEW m, Made(m), NEW arrived \in Damaged(m), Decodes(arrived)
  PROVE  /\ arrived.type = m.type /\ arrived.sequence = m.sequence /\ arrived.stamp = m.stamp
         /\ arrived.twoStep = m.twoStep /\ arrived.correction = m.correction
         /\ arrived.true = m.true
  <1> USE DEF Made
  <1>1. m \in Messages /\ m.size \in Nat /\ m.length \in Nat /\ m.size = m.length
    BY DEF Messages
  <1>2. m.stamp.nanos \in Nat /\ m.stamp.seconds \in Nat
    BY DEF Messages
  <1>3. CASE arrived = m
    BY <1>3
  <1>4. CASE arrived = [m EXCEPT !.requester = "another"]
    BY <1>4 DEF Messages
  <1>5. CASE arrived = [m EXCEPT !.size = @ - 1]
    <2>1. arrived.size = m.size - 1 /\ arrived.length = m.length
      BY <1>5 DEF Messages
    <2> QED
      BY <1>1, <2>1 DEF Decodes
  <1>6. CASE arrived = [m EXCEPT !.size = @ - 1, !.length = @ - 1]
    <2>1. arrived.length = Bytes(m.type) - 1 /\ arrived.type = m.type
      BY <1>6 DEF Messages
    <2> QED
      BY <2>1 DEF Decodes, Bytes, HeaderBytes
  <1>7. CASE arrived = [m EXCEPT !.size = HeaderBytes - 1]
    <2>1. arrived.size = HeaderBytes - 1
      BY <1>7 DEF Messages
    <2> QED
      BY <2>1 DEF Decodes, HeaderBytes
  <1>8. CASE arrived = [m EXCEPT !.version = 1]
    BY <1>8 DEF Decodes, Messages
  <1>9. CASE arrived = [m EXCEPT !.domain = 1]
    BY <1>9 DEF Decodes, Messages
  <1>10. CASE arrived = [m EXCEPT !.type = "management"]
    BY <1>10 DEF Decodes, Messages
  <1>11. CASE arrived = [m EXCEPT !.stamp.nanos = @ + Second]
    <2>1. arrived.stamp.nanos = m.stamp.nanos + Second
      BY <1>11 DEF Messages
    <2> QED
      BY <1>2, <2>1, ExchangeConstants DEF Decodes, Readable
  <1>12. CASE arrived = [m EXCEPT !.stamp.seconds = MaxSeconds + 1]
    <2>1. arrived.stamp.seconds = MaxSeconds + 1
      BY <1>12 DEF Messages
    <2> QED
      BY <2>1, ExchangeConstants DEF Decodes, Readable
  <1> QED
    BY <1>3, <1>4, <1>5, <1>6, <1>7, <1>8, <1>9, <1>10, <1>11, <1>12 DEF Damaged

\* What a sender makes.
LEMMA Sent ==
  ASSUME NEW type \in SyncTypes \cup DelayTypes, NEW sequence \in Nat \ {0}, NEW time \in Int,
         NEW correction \in Nat, NEW true \in Truth,
         NEW m, m = Message(type, sequence, time, FALSE, correction, true)
  PROVE  Made(m)
  <1>1. Stamp(time) \in [seconds : Nat, nanos : Nat]
    BY StampRead DEF Stamp
  <1>2. Bytes(type) \in Nat
    BY DEF Bytes
  <1>3. m \in Messages
    BY <1>1, <1>2 DEF Message, Messages
  <1>4. m.type = type /\ m.size = Bytes(type) /\ m.length = Bytes(type)
    BY DEF Message
  <1> QED
    BY <1>3, <1>4 DEF Made

LEMMA SentTwoStep ==
  ASSUME NEW sequence \in Nat \ {0}, NEW true \in Truth,
         NEW m, m = Message("sync", sequence, 0, TRUE, 0, true)
  PROVE  Made(m)
  <1>1. Stamp(0) \in [seconds : Nat, nanos : Nat]
    <2>1. PICK zero \in Int : zero = 0
      OBVIOUS
    <2>2. Stamp(zero) \in [seconds : Nat, nanos : Nat]
      BY StampRead DEF Stamp
    <2> QED
      BY <2>1, <2>2
  <1>2. Bytes("sync") \in Nat
    BY DEF Bytes
  <1>3. m \in Messages
    BY <1>1, <1>2 DEF Message, Messages, SyncTypes
  <1>4. m.type = "sync" /\ m.size = Bytes("sync") /\ m.length = Bytes("sync")
    BY DEF Message
  <1> QED
    BY <1>3, <1>4 DEF Made

\* With no measurement just made there is nothing to show.
LEMMA NothingMeasured ==
  ASSUME measured' = NoMeasurement
  PROVE  MeasuresOffset'
  BY DEF MeasuresOffset, NoMeasurement

\* The messages in the air, the Sync that is kept and the request that is
\* awaited stand as they are if nothing they are made of changes.
LEMMA AirStands ==
  ASSUME AirMeans, NumbersMean, UNCHANGED <<air, syncs, xSequence>>
  PROVE  AirMeans' /\ NumbersMean'
  BY DEF AirMeans, NumbersMean

LEMMA SyncStands ==
  ASSUME SyncMeans, UNCHANGED <<theta, xSync>>, air \subseteq air'
  PROVE  SyncMeans'
  BY DEF SyncMeans, KeptOf

LEMMA RequestStands ==
  ASSUME RequestMeans, UNCHANGED <<theta, xSequence, xPending, egress, nextRequest>>,
         air \subseteq air'
  PROVE  RequestMeans'
  BY DEF RequestMeans

LEMMA ExchangeInitInv == ExchangeInit => ExchangeInv
  <1> SUFFICES ASSUME ExchangeInit PROVE ExchangeInv
    OBVIOUS
  <1>1. ExchangeNumbers
    BY ExchangeConstants DEF ExchangeInit, ExchangeNumbers
  <1>2. AirMeans /\ NumbersMean /\ SyncMeans
    BY DEF ExchangeInit, AirMeans, NumbersMean, SyncMeans
  <1>3. RequestMeans /\ MeasuresOffset
    BY DEF ExchangeInit, RequestMeans, MeasuresOffset, NoMeasurement
  <1> QED
    BY <1>1, <1>2, <1>3 DEF ExchangeInv

\* Time passes.
LEMMA ExchangeTickInv == ExchangeInv /\ ExchangeTick => ExchangeInv'
  <1> SUFFICES ASSUME ExchangeInv, ExchangeTick PROVE ExchangeInv'
    OBVIOUS
  <1>1. ExchangeNumbers'
    BY DEF ExchangeInv, ExchangeNumbers, ExchangeTick, exchangeClientVars
  <1>2. AirMeans' /\ NumbersMean' /\ SyncMeans' /\ RequestMeans'
    BY AirStands, SyncStands, RequestStands DEF ExchangeInv, ExchangeTick, exchangeClientVars
  <1>3. MeasuresOffset'
    BY NothingMeasured DEF ExchangeTick
  <1> QED
    BY <1>1, <1>2, <1>3 DEF ExchangeInv

\* The client is stopped and started again.
LEMMA RestartInv == ExchangeInv /\ Restart => ExchangeInv'
  <1> SUFFICES ASSUME ExchangeInv, Restart PROVE ExchangeInv'
    OBVIOUS
  <1>1. ExchangeNumbers'
    BY DEF ExchangeInv, ExchangeNumbers, Restart
  <1>2. AirMeans' /\ NumbersMean' /\ SyncMeans'
    BY DEF Restart, AirMeans, NumbersMean, SyncMeans
  <1>3. RequestMeans'
    BY DEF Restart, RequestMeans
  <1>4. MeasuresOffset'
    BY NothingMeasured DEF Restart
  <1> QED
    BY <1>1, <1>2, <1>3, <1>4 DEF ExchangeInv

\* The master's Sync has a number of its own.
LEMMA SendSyncInv == ExchangeInv /\ SendSync => ExchangeInv'
  <1> SUFFICES ASSUME ExchangeInv, SendSync PROVE ExchangeInv'
    OBVIOUS
  <1>1. PICK c \in Corrections :
          \/ air' = air \cup {Message("sync", syncs', now, FALSE, c, [sent |-> now, residence |-> c])}
          \/ air' = air \cup
                {Message("sync", syncs', 0, TRUE, 0, [sent |-> now, residence |-> c]),
                 Message("followUp", syncs', now, FALSE, c, [sent |-> now, residence |-> c])}
    BY DEF SendSync
  <1>2. now \in Nat /\ syncs \in Nat /\ syncs' = syncs + 1 /\ c \in Nat
    BY ExchangeConstants DEF ExchangeInv, ExchangeNumbers, SendSync
  <1> DEFINE true == [sent |-> now, residence |-> c]
             one == Message("sync", syncs', now, FALSE, c, true)
             two == Message("sync", syncs', 0, TRUE, 0, true)
             follow == Message("followUp", syncs', now, FALSE, c, true)
  <1>3. true \in Truth /\ true.sent = now /\ true.residence = c /\ syncs' \in Nat \ {0}
    BY <1>2 DEF Truth
  <1> HIDE DEF true
  <1>4. \A m \in {one, two, follow} :
          Made(m) /\ Told(m) /\ m.type \in SyncTypes /\ m.sequence = syncs' /\ m.true = true
    <2>1. "sync" \in SyncTypes \cup DelayTypes /\ "followUp" \in SyncTypes \cup DelayTypes
      BY DEF SyncTypes
    <2>2. PICK number \in Nat \ {0}, time \in Int, part \in Nat, truth \in Truth :
             number = syncs' /\ time = now /\ part = c /\ truth = true
      BY <1>2, <1>3
    <2>3. \A m : m = one =>
            Made(m) /\ Told(m) /\ m.type \in SyncTypes /\ m.sequence = syncs' /\ m.true = true
      <3> SUFFICES ASSUME NEW m, m = Message("sync", number, time, FALSE, part, truth)
                   PROVE  /\ Made(m) /\ Told(m) /\ m.type \in SyncTypes
                          /\ m.sequence = number /\ m.true = truth
        BY <2>2
      <3>0. Made(m)
        BY <2>1, Sent
      <3>1. /\ m.type = "sync" /\ m.sequence = number /\ m.stamp = Stamp(time)
            /\ m.twoStep = FALSE /\ m.correction = part /\ m.true = truth
        BY DEF Message
      <3> QED
        BY <1>3, <2>2, <3>0, <3>1 DEF Told, SyncTypes
    <2>4. \A m : m = two =>
            Made(m) /\ Told(m) /\ m.type \in SyncTypes /\ m.sequence = syncs' /\ m.true = true
      <3> SUFFICES ASSUME NEW m, m = Message("sync", number, 0, TRUE, 0, truth)
                   PROVE  /\ Made(m) /\ Told(m) /\ m.type \in SyncTypes
                          /\ m.sequence = number /\ m.true = truth
        BY <2>2
      <3>0. Made(m)
        BY SentTwoStep
      <3>1. /\ m.type = "sync" /\ m.sequence = number
            /\ m.twoStep = TRUE /\ m.correction = 0 /\ m.true = truth
        BY DEF Message
      <3> QED
        BY <3>0, <3>1 DEF Told, SyncTypes
    <2>5. \A m : m = follow =>
            Made(m) /\ Told(m) /\ m.type \in SyncTypes /\ m.sequence = syncs' /\ m.true = true
      <3> SUFFICES ASSUME NEW m, m = Message("followUp", number, time, FALSE, part, truth)
                   PROVE  /\ Made(m) /\ Told(m) /\ m.type \in SyncTypes
                          /\ m.sequence = number /\ m.true = truth
        BY <2>2
      <3>0. Made(m)
        BY <2>1, Sent
      <3>1. /\ m.type = "followUp" /\ m.sequence = number /\ m.stamp = Stamp(time)
            /\ m.correction = part /\ m.true = truth
        BY DEF Message
      <3> QED
        BY <1>3, <2>2, <3>0, <3>1 DEF Told, SyncTypes
    <2> HIDE DEF one, two, follow
    <2> QED
      BY <2>3, <2>4, <2>5
  <1>5. air \subseteq air' /\ air' \subseteq air \cup {one, two, follow}
    BY <1>1 DEF true
  <1> HIDE DEF one, two, follow
  <1>6. \A m \in air : m.type \in SyncTypes => m.sequence \in Nat /\ m.sequence < syncs'
    BY <1>2 DEF ExchangeInv, AirMeans, Made, Messages
  <1>7. UNCHANGED <<theta, now, xSync, xSequence, xPending, egress, nextRequest>>
    BY DEF SendSync, exchangeClientVars
  <1>8. ExchangeNumbers'
    BY <1>2, <1>7 DEF ExchangeInv, ExchangeNumbers
  <1>9. AirMeans'
    <2> SUFFICES ASSUME NEW m \in air'
                 PROVE  /\ Made(m) /\ Told(m)
                        /\ m.type \in SyncTypes => m.sequence <= syncs'
                        /\ m.type \in DelayTypes => m.sequence <= xSequence'
      BY DEF AirMeans
    <2>1. CASE m \in air
      BY <1>2, <1>6, <1>7, <2>1 DEF ExchangeInv, AirMeans
    <2>2. CASE m \in {one, two, follow}
      BY <1>2, <1>4, <2>2 DEF SyncTypes, DelayTypes
    <2> QED
      BY <1>5, <2>1, <2>2
  <1>10. NumbersMean'
    <2> SUFFICES ASSUME NEW m \in air', NEW n \in air', m.sequence = n.sequence
                 PROVE  /\ m.type \in SyncTypes /\ n.type \in SyncTypes => m.true = n.true
                        /\ m.type \in DelayTypes /\ n.type \in DelayTypes => m.true.sent = n.true.sent
      BY DEF NumbersMean
    <2>1. CASE m \in air /\ n \in air
      BY <2>1 DEF ExchangeInv, NumbersMean
    <2>2. CASE m \in {one, two, follow} /\ n \in {one, two, follow}
      BY <1>4, <2>2
    <2>3. CASE m \in air /\ n \in {one, two, follow}
      BY <1>2, <1>4, <1>6, <2>3 DEF SyncTypes, DelayTypes
    <2>4. CASE n \in air /\ m \in {one, two, follow}
      BY <1>2, <1>4, <1>6, <2>4 DEF SyncTypes, DelayTypes
    <2> QED
      BY <1>5, <2>1, <2>2, <2>3, <2>4
  <1>11. SyncMeans' /\ RequestMeans'
    BY <1>5, <1>7, SyncStands, RequestStands DEF ExchangeInv
  <1>12. MeasuresOffset'
    BY NothingMeasured DEF SendSync
  <1> QED
    BY <1>8, <1>9, <1>10, <1>11, <1>12 DEF ExchangeInv

\* The master's answer has the number of its request.
LEMMA AnswerInv ==
  ASSUME ExchangeInv, NEW q \in air, Answer(q)
  PROVE  ExchangeInv'
  <1>1. PICK c \in Corrections :
          air' = air \cup
                {Message("delayResponse", q.sequence, now, FALSE, c,
                         [sent |-> q.true.sent, residence |-> c])}
    BY DEF Answer
  <1>2. /\ now \in Nat /\ c \in Nat /\ xSequence \in Nat /\ q.type = "delayRequest"
        /\ q.sequence \in Nat \ {0} /\ q.true.sent \in Nat /\ q.sequence <= xSequence
    BY ExchangeConstants
    DEF ExchangeInv, ExchangeNumbers, Answer, AirMeans, Made, Messages, Truth, DelayTypes
  <1> DEFINE true == [sent |-> q.true.sent, residence |-> c]
             response == Message("delayResponse", q.sequence, now, FALSE, c, true)
  <1>3. true \in Truth /\ true.sent = q.true.sent /\ true.residence = c
    BY <1>2 DEF Truth
  <1> HIDE DEF true
  <1>4. /\ Made(response) /\ response.type = "delayResponse" /\ response.sequence = q.sequence
        /\ response.correction = c /\ response.true = true
    <2>1. "delayResponse" \in SyncTypes \cup DelayTypes
      BY DEF DelayTypes
    <2>2. PICK number \in Nat \ {0}, time \in Int, part \in Nat, truth \in Truth :
             number = q.sequence /\ time = now /\ part = c /\ truth = true
      BY <1>2, <1>3
    <2>3. PICK m : m = Message("delayResponse", number, time, FALSE, part, truth)
      OBVIOUS
    <2>4. Made(m)
      BY <2>1, <2>3, Sent
    <2>5. /\ m.type = "delayResponse" /\ m.sequence = number
          /\ m.correction = part /\ m.true = truth
      BY <2>3 DEF Message
    <2> QED
      BY <2>2, <2>3, <2>4, <2>5
  <1>5. air' = air \cup {response}
    BY <1>1 DEF true
  <1> HIDE DEF response
  <1>6. Told(response)
    BY <1>3, <1>4 DEF Told
  <1>7. UNCHANGED <<theta, now, syncs, xSync, xSequence, xPending, egress, nextRequest>>
    BY DEF Answer, exchangeClientVars
  <1>8. ExchangeNumbers'
    BY <1>7 DEF ExchangeInv, ExchangeNumbers
  <1>9. AirMeans'
    <2> SUFFICES ASSUME NEW m \in air'
                 PROVE  /\ Made(m) /\ Told(m)
                        /\ m.type \in SyncTypes => m.sequence <= syncs'
                        /\ m.type \in DelayTypes => m.sequence <= xSequence'
      BY DEF AirMeans
    <2>1. CASE m \in air
      BY <1>7, <2>1 DEF ExchangeInv, AirMeans
    <2>2. CASE m = response
      BY <1>2, <1>4, <1>6, <1>7, <2>2 DEF SyncTypes
    <2> QED
      BY <1>5, <2>1, <2>2
  <1>10. NumbersMean'
    <2> SUFFICES ASSUME NEW m \in air', NEW n \in air', m.sequence = n.sequence
                 PROVE  /\ m.type \in SyncTypes /\ n.type \in SyncTypes => m.true = n.true
                        /\ m.type \in DelayTypes /\ n.type \in DelayTypes => m.true.sent = n.true.sent
      BY DEF NumbersMean
    <2>0. \A o \in air : o.type \in DelayTypes /\ o.sequence = q.sequence =>
             o.true.sent = q.true.sent
      BY <1>2 DEF ExchangeInv, NumbersMean, DelayTypes
    <2>1. CASE m \in air /\ n \in air
      BY <2>1 DEF ExchangeInv, NumbersMean
    <2>2. CASE m \in air /\ n = response
      BY <1>3, <1>4, <2>0, <2>2 DEF SyncTypes
    <2>3. CASE n \in air /\ m = response
      BY <1>3, <1>4, <2>0, <2>3 DEF SyncTypes
    <2> QED
      BY <1>5, <2>1, <2>2, <2>3
  <1>11. SyncMeans' /\ RequestMeans'
    BY <1>5, <1>7, SyncStands, RequestStands DEF ExchangeInv
  <1>12. MeasuresOffset'
    BY NothingMeasured DEF Answer
  <1> QED
    BY <1>8, <1>9, <1>10, <1>11, <1>12 DEF ExchangeInv

\* A request has a number of its own, and is at least an interval after the
\* one before, whether that was sent or not.
LEMMA SendRequestInv ==
  ASSUME ExchangeInv, NEW sent \in BOOLEAN, SendRequest(sent)
  PROVE  ExchangeInv'
  <1>1. /\ now \in Nat /\ theta \in Int /\ xSequence \in Nat /\ xSequence' = xSequence + 1
        /\ egress \in Int /\ egress' = now + theta /\ nextRequest \in Int
        /\ now >= nextRequest /\ nextRequest' = now + ExchangeInterval
        /\ ExchangeInterval \in Nat
    BY ExchangeConstants DEF ExchangeInv, ExchangeNumbers, SendRequest
  <1>2. UNCHANGED <<now, theta, syncs, xSync>>
    BY DEF SendRequest
  <1> DEFINE true == [sent |-> now, residence |-> 0]
             request == Message("delayRequest", xSequence', now + theta, FALSE, 0, true)
  <1>3. true \in Truth /\ true.sent = now
    BY <1>1 DEF Truth
  <1>4. air' = IF sent THEN air \cup {request} ELSE air
    BY DEF SendRequest
  <1> HIDE DEF true
  <1>5. /\ Made(request) /\ request.type = "delayRequest" /\ request.sequence = xSequence'
        /\ request.true = true
    <2>1. "delayRequest" \in SyncTypes \cup DelayTypes
      BY DEF DelayTypes
    <2>2. PICK number \in Nat \ {0}, time \in Int, part \in Nat, truth \in Truth :
             number = xSequence' /\ time = now + theta /\ part = 0 /\ truth = true
      BY <1>1, <1>3
    <2>3. PICK m : m = Message("delayRequest", number, time, FALSE, part, truth)
      OBVIOUS
    <2>4. Made(m)
      BY <2>1, <2>3, Sent
    <2>5. m.type = "delayRequest" /\ m.sequence = number /\ m.true = truth
      BY <2>3 DEF Message
    <2> QED
      BY <2>2, <2>3, <2>4, <2>5
  <1> HIDE DEF request
  <1>6. Told(request)
    BY <1>5 DEF Told
  <1>7. air \subseteq air' /\ air' \subseteq air \cup {request}
    BY <1>4
  <1>8. \A m \in air : m.type \in DelayTypes => m.sequence \in Nat /\ m.sequence <= xSequence
    BY DEF ExchangeInv, AirMeans, Made, Messages
  <1>9. ExchangeNumbers'
    BY <1>1, <1>2 DEF ExchangeInv, ExchangeNumbers
  <1>10. AirMeans'
    <2> SUFFICES ASSUME NEW m \in air'
                 PROVE  /\ Made(m) /\ Told(m)
                        /\ m.type \in SyncTypes => m.sequence <= syncs'
                        /\ m.type \in DelayTypes => m.sequence <= xSequence'
      BY DEF AirMeans
    <2>1. CASE m \in air
      BY <1>1, <1>2, <1>8, <2>1 DEF ExchangeInv, AirMeans
    <2>2. CASE m = request
      BY <1>1, <1>5, <1>6, <2>2 DEF SyncTypes
    <2> QED
      BY <1>7, <2>1, <2>2
  <1>11. NumbersMean'
    <2> SUFFICES ASSUME NEW m \in air', NEW n \in air', m.sequence = n.sequence
                 PROVE  /\ m.type \in SyncTypes /\ n.type \in SyncTypes => m.true = n.true
                        /\ m.type \in DelayTypes /\ n.type \in DelayTypes => m.true.sent = n.true.sent
      BY DEF NumbersMean
    <2>1. CASE m \in air /\ n \in air
      BY <2>1 DEF ExchangeInv, NumbersMean
    <2>2. CASE m = n
      BY <2>2
    <2>3. CASE m \in air /\ n = request
      BY <1>1, <1>5, <1>8, <2>3 DEF SyncTypes
    <2>4. CASE n \in air /\ m = request
      BY <1>1, <1>5, <1>8, <2>4 DEF SyncTypes
    <2> QED
      BY <1>7, <2>1, <2>2, <2>3, <2>4
  <1>12. SyncMeans'
    BY <1>2, <1>7, SyncStands DEF ExchangeInv
  <1>13. RequestMeans'
    <2>1. xSequence' # 0 => nextRequest' = egress' - theta' + ExchangeInterval
      BY <1>1, <1>2
    <2>2. CASE sent
      <3>1. xPending' = xSequence' /\ request \in air'
        BY <1>4, <2>2 DEF SendRequest
      <3>2. egress' - theta' = request.true.sent
        BY <1>1, <1>2, <1>3, <1>5
      <3>3. xPending' \in 0 .. xSequence'
        BY <1>1, <3>1
      <3> QED
        BY <1>5, <2>1, <3>1, <3>2, <3>3 DEF RequestMeans
    <2>3. CASE ~sent
      <3>1. xPending' = xPending /\ air' = air /\ xPending \in 0 .. xSequence
        BY <1>4, <2>3 DEF SendRequest, ExchangeInv, RequestMeans
      <3>2. ASSUME xPending # 0
            PROVE  \E m \in air : /\ m.type = "delayRequest" /\ m.sequence = xPending
                                  /\ egress' - theta' >= m.true.sent + ExchangeInterval
        <4>1. PICK m \in air : /\ m.type = "delayRequest" /\ m.sequence = xPending
                               /\ \/ egress - theta = m.true.sent
                                  \/ egress - theta >= m.true.sent + ExchangeInterval
          BY <3>2 DEF ExchangeInv, RequestMeans
        <4>2. m.true.sent \in Nat
          BY DEF ExchangeInv, AirMeans, Made, Messages, Truth
        <4>3. now >= egress - theta + ExchangeInterval
          BY <1>1, <3>1, <3>2 DEF ExchangeInv, RequestMeans
        <4>4. egress' - theta' >= m.true.sent + ExchangeInterval
          BY <1>1, <1>2, <4>1, <4>2, <4>3
        <4> QED
          BY <4>1, <4>4
      <3>3. xPending' \in 0 .. xSequence'
        BY <1>1, <3>1
      <3> QED
        BY <2>1, <3>1, <3>2, <3>3 DEF RequestMeans
    <2> QED
      BY <2>2, <2>3
  <1>14. MeasuresOffset'
    BY NothingMeasured DEF SendRequest
  <1> QED
    BY <1>9, <1>10, <1>11, <1>12, <1>13, <1>14 DEF ExchangeInv

\* What stays as it is when a message arrives.
LEMMA ReceiveKeeps ==
  ASSUME ExchangeInv, UNCHANGED <<now, theta, air, syncs, xSequence, egress, nextRequest>>
  PROVE  ExchangeNumbers' /\ AirMeans' /\ NumbersMean'
  BY AirStands DEF ExchangeInv, ExchangeNumbers

\* A Sync that is kept: its times are its own.
LEMMA ReceiveSyncInv ==
  ASSUME ExchangeInv, NEW m \in air, NEW arrived \in Damaged(m), Decodes(arrived),
         ReceiveSync(arrived), UNCHANGED <<now, theta, air, syncs>>
  PROVE  ExchangeInv'
  <1>1. UNCHANGED <<xSequence, xPending, egress, nextRequest>> /\ measured' = NoMeasurement
    BY DEF ReceiveSync
  <1>2. Made(m) /\ Told(m)
    BY DEF ExchangeInv, AirMeans
  <1>3. /\ arrived.type = m.type /\ arrived.sequence = m.sequence /\ arrived.stamp = m.stamp
        /\ arrived.twoStep = m.twoStep /\ arrived.correction = m.correction
        /\ arrived.true = m.true
    BY <1>2, Arrives
  <1>4. xSync' = [known |-> TRUE, sequence |-> m.sequence, ingress |-> now + theta,
                  timed |-> ~m.twoStep, origin |-> Time(m.stamp), correction |-> m.correction,
                  true |-> ScaledUnit * (now - m.true.sent) - m.true.residence, again |-> 0]
    BY <1>3 DEF ReceiveSync
  <1>5. /\ m.type = "sync" /\ m.sequence \in Nat /\ m.twoStep \in BOOLEAN /\ m.correction \in Nat
        /\ m.true.sent \in Nat /\ m.true.residence \in Nat
        /\ m.stamp.seconds \in Nat /\ m.stamp.nanos \in Nat
        /\ now \in Nat /\ theta \in Int
    BY <1>2, <1>3 DEF Made, Messages, Truth, ReceiveSync, ExchangeInv, ExchangeNumbers
  <1>6. Time(m.stamp) \in Int
    BY <1>5, ExchangeConstants DEF Time
  <1>7. SyncMeans'
    <2>1. PICK origin \in Int, took \in Int, came \in Int :
             /\ origin = Time(m.stamp) /\ came = now + theta
             /\ took = ScaledUnit * (now - m.true.sent) - m.true.residence
      BY <1>5, <1>6, ExchangeConstants
    <2>2. /\ xSync'.sequence = m.sequence /\ xSync'.ingress = came /\ xSync'.timed = (~m.twoStep)
          /\ xSync'.origin = origin /\ xSync'.correction = m.correction /\ xSync'.true = took
          /\ xSync'.again = 0
      BY <1>4, <2>1
    <2>3. xSync' \in KeptSyncs
      BY <1>4, <1>5, <2>1 DEF KeptSyncs
    <2>4. came - theta - m.true.sent = now - m.true.sent
      BY <1>5, <2>1
    <2>5. xSync'.true = ScaledUnit * (xSync'.ingress - theta' - m.true.sent) - m.true.residence
      BY <2>1, <2>2, <2>4
    <2>6. CASE m.twoStep
      <3>1. m.correction = 0
        BY <1>2, <1>5, <2>6 DEF Told
      <3>2. KeptOf(m.true)'
        BY <2>2, <2>5, <2>6, <3>1 DEF KeptOf
      <3> QED
        BY <1>5, <2>2, <2>3, <3>2 DEF SyncMeans
    <2>7. CASE ~m.twoStep
      <3>1. m.stamp = Stamp(m.true.sent) /\ m.correction = m.true.residence
        BY <1>2, <1>5, <2>7 DEF Told
      <3>2. Time(m.stamp) = m.true.sent
        BY <1>5, <3>1, StampRead
      <3>3. KeptOf(m.true)'
        <4>1. xSync'.origin = m.true.sent /\ xSync'.correction = m.true.residence + xSync'.again
          BY <1>5, <2>1, <2>2, <3>1, <3>2
        <4>2. xSync'.timed
          BY <2>2, <2>7
        <4> QED
          BY <2>5, <4>1, <4>2 DEF KeptOf
      <3> QED
        BY <1>5, <2>2, <2>3, <3>3 DEF SyncMeans
    <2> QED
      BY <2>6, <2>7
  <1>8. RequestMeans'
    BY <1>1, RequestStands DEF ExchangeInv
  <1> QED
    BY <1>1, <1>7, <1>8, ReceiveKeeps, NothingMeasured DEF ExchangeInv

\* A Follow_Up brings the time of the Sync that has its number.
LEMMA ReceiveFollowUpInv ==
  ASSUME ExchangeInv, NEW m \in air, NEW arrived \in Damaged(m), Decodes(arrived),
         ReceiveFollowUp(arrived), UNCHANGED <<now, theta, air, syncs>>
  PROVE  ExchangeInv'
  <1>1. UNCHANGED <<xSequence, xPending, egress, nextRequest>> /\ measured' = NoMeasurement
    BY DEF ReceiveFollowUp
  <1>2. Made(m) /\ Told(m)
    BY DEF ExchangeInv, AirMeans
  <1>3. /\ arrived.type = m.type /\ arrived.sequence = m.sequence /\ arrived.stamp = m.stamp
        /\ arrived.correction = m.correction
    BY <1>2, Arrives
  <1>4. xSync' = [xSync EXCEPT !.timed = TRUE, !.origin = Time(m.stamp),
                               !.correction = @ + m.correction,
                               !.again = IF xSync.timed THEN @ + m.correction ELSE @]
    BY <1>3 DEF ReceiveFollowUp
  <1>5. /\ m.type = "followUp" /\ xSync.known /\ xSync.sequence = m.sequence /\ xSync.again = 0
        /\ m.true.sent \in Nat /\ m.true.residence \in Nat
    BY <1>2, <1>3 DEF ReceiveFollowUp, Made, Messages, Truth
  <1>6. m.correction = m.true.residence /\ Time(m.stamp) = m.true.sent
    BY <1>2, <1>5, StampRead DEF Told
  <1>7. xSync \in KeptSyncs
    BY <1>5 DEF ExchangeInv, SyncMeans, NoExchange
  <1>8. PICK s \in air : s.type = "sync" /\ s.sequence = xSync.sequence /\ KeptOf(s.true)
    BY <1>5 DEF ExchangeInv, SyncMeans, NoExchange
  <1>9. s.true = m.true
    BY <1>5, <1>8 DEF ExchangeInv, NumbersMean, SyncTypes
  <1>10. SyncMeans'
    <2>1. /\ xSync'.sequence = xSync.sequence /\ xSync'.ingress = xSync.ingress
          /\ xSync'.true = xSync.true /\ xSync'.timed = TRUE /\ xSync'.origin = m.true.sent
          /\ xSync'.correction = xSync.correction + m.true.residence
          /\ xSync'.again = IF xSync.timed THEN xSync.again + m.true.residence ELSE xSync.again
      BY <1>4, <1>6, <1>7 DEF KeptSyncs
    <2>2. xSync' \in KeptSyncs
      <3>1. PICK origin \in Int, corrected \in Nat, twice \in Nat :
               xSync' = [xSync EXCEPT !.timed = TRUE, !.origin = origin,
                                      !.correction = corrected, !.again = twice]
        <4>1. /\ xSync.correction \in Nat /\ xSync.again \in Nat
              /\ xSync.correction + m.correction \in Nat /\ xSync.again + m.correction \in Nat
              /\ Time(m.stamp) \in Int
          BY <1>5, <1>6, <1>7 DEF KeptSyncs
        <4> QED
          BY <1>4, <4>1
      <3> QED
        BY <1>7, <3>1 DEF KeptSyncs
    <2>3. xSync'.true = ScaledUnit * (xSync'.ingress - theta' - m.true.sent) - m.true.residence
      BY <1>8, <1>9, <2>1 DEF KeptOf
    <2>4. xSync.correction = IF xSync.timed THEN m.true.residence ELSE 0
      BY <1>5, <1>8, <1>9 DEF KeptOf
    <2>5. xSync'.correction = m.true.residence + xSync'.again
      BY <1>5, <2>1, <2>4
    <2>6. KeptOf(m.true)'
      BY <2>1, <2>3, <2>5 DEF KeptOf
    <2> QED
      BY <1>8, <1>9, <2>1, <2>2, <2>6 DEF SyncMeans
  <1>11. RequestMeans'
    BY <1>1, RequestStands DEF ExchangeInv
  <1> QED
    BY <1>1, <1>10, <1>11, ReceiveKeeps, NothingMeasured DEF ExchangeInv

\* A measurement that is accepted: the four times belong to one Sync and to
\* one request, or the delay is negative.
LEMMA ReceiveDelayResponseMeasures ==
  ASSUME ExchangeInv, NEW m \in air, NEW arrived \in Damaged(m), Decodes(arrived),
         ReceiveDelayResponse(arrived), UNCHANGED <<now, theta, air, syncs>>
  PROVE  MeasuresOffset'
  <1>1. Made(m) /\ Told(m)
    BY DEF ExchangeInv, AirMeans
  <1>2. /\ arrived.type = m.type /\ arrived.sequence = m.sequence /\ arrived.stamp = m.stamp
        /\ arrived.correction = m.correction /\ arrived.true = m.true
    BY <1>1, Arrives
  <1>3. /\ m.type = "delayResponse" /\ m.sequence = xPending /\ xPending # 0
        /\ xSync.known /\ xSync.timed
    BY <1>2 DEF ReceiveDelayResponse
  <1>4. /\ m.true.sent \in Nat /\ m.true.residence \in Nat /\ m.correction = m.true.residence
        /\ m.stamp.seconds \in Nat /\ m.stamp.nanos \in Nat
    BY <1>1, <1>3 DEF Made, Told, Messages, Truth
  <1>5. xSync \in KeptSyncs
    BY <1>3 DEF ExchangeInv, SyncMeans, NoExchange
  <1>6. PICK s \in air : s.type = "sync" /\ KeptOf(s.true)
    BY <1>3 DEF ExchangeInv, SyncMeans, NoExchange
  <1>7. s.true.sent \in Nat /\ s.true.residence \in Nat
    BY DEF ExchangeInv, AirMeans, Made, Messages, Truth
  <1>8. PICK q \in air :
          /\ q.type = "delayRequest" /\ q.sequence = xPending
          /\ \/ egress - theta = q.true.sent
             \/ egress - theta >= q.true.sent + ExchangeInterval
    BY <1>3 DEF ExchangeInv, RequestMeans
  <1>9. q.true.sent = m.true.sent
    BY <1>3, <1>8 DEF ExchangeInv, NumbersMean, DelayTypes
  <1> DEFINE whole1 == Truncated(xSync.correction, ScaledUnit)
             whole2 == Truncated(m.correction, ScaledUnit)
             receipt == Time(m.stamp)
             there == xSync.ingress - xSync.origin - whole1
             back == receipt - egress - whole2
             result == calculateE2E(xSync.origin, xSync.ingress, egress, receipt,
                                    xSync.correction, m.correction)
             d == xSync.ingress - theta - s.true.sent
             u == receipt - m.true.sent
             gap == egress - theta - m.true.sent
  <1>10. /\ xSync.origin = s.true.sent /\ xSync.correction = s.true.residence + xSync.again
         /\ xSync.true = ScaledUnit * d - s.true.residence
    BY <1>3, <1>6 DEF KeptOf
  <1>11. /\ xSync.ingress \in Int /\ xSync.origin \in Int /\ xSync.correction \in Nat
         /\ xSync.again \in Nat
         /\ theta \in Int /\ egress \in Int
    BY <1>5 DEF KeptSyncs, ExchangeInv, ExchangeNumbers
  <1>12. receipt \in Int /\ ScaledUnit \in Nat /\ ScaledUnit > 0 /\ ExchangeInterval \in Nat
    BY <1>4, ExchangeConstants DEF Time
  <1>13. PICK part1 \in 0 .. ScaledUnit - 1 : xSync.correction = ScaledUnit * whole1 + part1
    BY <1>11, WholeUnits
  <1>14. PICK part2 \in 0 .. ScaledUnit - 1 : m.correction = ScaledUnit * whole2 + part2
    BY <1>4, WholeUnits
  <1>15. whole1 \in Int /\ whole2 \in Int
    BY <1>4, <1>11, WholeUnits
  <1>16. /\ there \in Int /\ back \in Int /\ d \in Int /\ u \in Int /\ gap \in Int
         /\ there = d + theta - whole1 /\ back = u - gap - theta - whole2
         /\ gap = 0 \/ gap >= ExchangeInterval
    <2> HIDE DEF whole1, whole2, receipt
    <2> QED
      BY <1>4, <1>7, <1>8, <1>9, <1>10, <1>11, <1>12, <1>15
  <1>17. measured' = IF result.known /\ result.delay <= DelayLimit
                       THEN [known |-> TRUE, offset |-> result.offset, down |-> xSync.true,
                             up |-> ScaledUnit * u - m.true.residence, again |-> xSync.again]
                       ELSE NoMeasurement
    BY <1>2 DEF ReceiveDelayResponse
  <1>18. result.known => there + back > -2 /\ result.offset = Truncated(there - back, 2)
    <2>1. /\ there = xSync.ingress - xSync.origin - Truncated(xSync.correction, ScaledUnit)
          /\ back = receipt - egress - Truncated(m.correction, ScaledUnit)
      OBVIOUS
    <2> HIDE DEF there, back, receipt, whole1, whole2
    <2> QED
      <3>1. PICK o \in Int, i \in Int, e \in Int, r \in Int, a \in Int, b \in Int :
              /\ o = xSync.origin /\ i = xSync.ingress /\ e = egress /\ r = receipt
              /\ a = there /\ b = back
        BY <1>11, <1>12, <1>16
      <3>2. PICK down, up : down = xSync.correction /\ up = m.correction
        OBVIOUS
      <3>3. /\ a = i - o - Truncated(down, ScaledUnit) /\ b = r - e - Truncated(up, ScaledUnit)
            /\ result = calculateE2E(o, i, e, r, down, up)
        BY <2>1, <3>1, <3>2
      <3>4. calculateE2E(o, i, e, r, down, up).known =>
              a + b > -2 /\ calculateE2E(o, i, e, r, down, up).offset = Truncated(a - b, 2)
        BY <3>3, CalculateParts
      <3> QED
        BY <3>1, <3>2, <3>3, <3>4
  <1> HIDE DEF whole1, whole2, receipt, there, back, result, d, u, gap
  <1>19. CASE ~(result.known /\ result.delay <= DelayLimit)
    BY <1>17, <1>19, NothingMeasured
  <1>20. CASE result.known /\ result.delay <= DelayLimit
    <2> DEFINE h == Truncated(there - back, 2)
    <2>1. /\ measured'.offset = h /\ measured'.down = ScaledUnit * d - s.true.residence
          /\ measured'.up = ScaledUnit * u - m.correction /\ measured'.again = xSync.again
      BY <1>4, <1>10, <1>17, <1>18, <1>20
    <2>2. h \in Int /\ there - back - 1 <= 2 * h /\ 2 * h <= there - back + 1
      <3>1. there - back \in Int
        BY <1>16
      <3> HIDE DEF h
      <3>2. PICK a \in Int : a = there - back
        BY <3>1
      <3>3. Truncated(a, 2) \in Int /\ a - 1 <= 2 * Truncated(a, 2) /\ 2 * Truncated(a, 2) <= a + 1
        BY Halved
      <3> QED
        BY <3>2, <3>3 DEF h
    <2> HIDE DEF h
    <2> SUFFICES
          ASSUME (ScaledUnit * d - s.true.residence) + (ScaledUnit * u - m.correction)
                    < ScaledUnit * (ExchangeInterval - 3)
          PROVE  Within(2 * ScaledUnit * (h - theta),
                        (ScaledUnit * d - s.true.residence) - (ScaledUnit * u - m.correction)
                           - xSync.again, 2 * ScaledUnit)
      BY <2>1 DEF MeasuresOffset
    <2>3. CASE gap >= ExchangeInterval
      <3>1. there + back <= -2
        BY <1>4, <1>7, <1>10, <1>11, <1>12, <1>13, <1>14, <1>15, <1>16, <2>3, GapArithmetic
      <3> QED
        BY <1>16, <1>18, <1>20, <3>1
    <2>4. CASE gap = 0
      <3>1. back = u - theta - whole2
        BY <1>11, <1>15, <1>16, <2>4
      <3>2. s.true.residence + xSync.again = ScaledUnit * whole1 + part1
        BY <1>10, <1>13
      <3>3. s.true.residence \in Nat /\ xSync.again \in Nat /\ m.correction \in Nat
        BY <1>4, <1>7, <1>11
      <3>4. there \in Int /\ back \in Int /\ d \in Int /\ u \in Int /\ there = d + theta - whole1
        BY <1>16
      <3>5. theta \in Int /\ ScaledUnit \in Nat
        BY <1>11, <1>12
      <3> QED
        BY <1>14, <1>15, <2>2, <3>1, <3>2, <3>3, <3>4, <3>5, OffsetArithmetic, ZenonT(60)
    <2> QED
      BY <1>16, <2>3, <2>4
  <1> QED
    BY <1>19, <1>20

LEMMA ReceiveDelayResponseInv ==
  ASSUME ExchangeInv, NEW m \in air, NEW arrived \in Damaged(m), Decodes(arrived),
         ReceiveDelayResponse(arrived), UNCHANGED <<now, theta, air, syncs>>
  PROVE  ExchangeInv'
  <1>1. UNCHANGED <<xSync, xSequence, egress, nextRequest>> /\ xPending' = 0
    BY DEF ReceiveDelayResponse
  <1>2. SyncMeans'
    BY <1>1, SyncStands DEF ExchangeInv
  <1>3. RequestMeans'
    BY <1>1 DEF ExchangeInv, ExchangeNumbers, RequestMeans
  <1> QED
    BY <1>1, <1>2, <1>3, ReceiveKeeps, ReceiveDelayResponseMeasures DEF ExchangeInv

\* Every step of the exchange keeps the invariant.
LEMMA ExchangeNextInv == ExchangeInv /\ [ExchangeNext]_exchangeVars => ExchangeInv'
  <1> SUFFICES ASSUME ExchangeInv, [ExchangeNext]_exchangeVars PROVE ExchangeInv'
    OBVIOUS
  <1>1. CASE ExchangeTick \/ Restart \/ SendSync
    BY <1>1, ExchangeTickInv, RestartInv, SendSyncInv
  <1>2. ASSUME NEW m \in air, Answer(m) PROVE ExchangeInv'
    BY <1>2, AnswerInv
  <1>3. ASSUME NEW m \in air, Receive(m) PROVE ExchangeInv'
    <2>1. PICK arrived \in Damaged(m) : Decodes(arrived) /\ Useful(arrived)
      BY <1>3 DEF Receive
    <2>2. UNCHANGED <<now, theta, air, syncs>>
      BY <1>3 DEF Receive
    <2> QED
      BY <2>1, <2>2, ReceiveSyncInv, ReceiveFollowUpInv, ReceiveDelayResponseInv DEF Useful
  <1>4. CASE \E sent \in BOOLEAN : SendRequest(sent)
    BY <1>4, SendRequestInv
  <1>5. CASE UNCHANGED exchangeVars
    <2>1. ExchangeNumbers' /\ AirMeans' /\ NumbersMean' /\ SyncMeans' /\ RequestMeans'
      BY <1>5, AirStands, SyncStands, RequestStands DEF ExchangeInv, exchangeVars, ExchangeNumbers
    <2>2. MeasuresOffset'
      BY <1>5 DEF ExchangeInv, exchangeVars, MeasuresOffset, Within
    <2> QED
      BY <2>1, <2>2 DEF ExchangeInv
  <1> QED
    BY <1>1, <1>2, <1>3, <1>4, <1>5 DEF ExchangeNext

----------------------------------------------------------------------------

\* Whatever is lost, damaged, repeated or overtaken, and whatever the clocks'
\* difference and the times in switches: a measurement that is accepted is the
\* offset of the clocks plus half the difference of the two paths, within one
\* unit (PTPClient::process, PTPCodec::decode, calculateE2E).
THEOREM AcceptedMeasuresOffset == ExchangeSpec => []MeasuresOffset
  <1>1. ExchangeInv => MeasuresOffset
    BY DEF ExchangeInv
  <1> QED
    BY <1>1, ExchangeInitInv, ExchangeNextInv, PTL DEF ExchangeSpec
=============================================================================
