----------------------- MODULE SharedAudioRingProofs -----------------------
(***************************************************************************)
(* The way of the samples through the shared memory, for every capacity,   *)
(* every index width that is a multiple of it, every block length and      *)
(* every set of samples.  First one ring at the granularity of its loads   *)
(* and stores: its safety (IInv) and that it implements the bounded FIFO.  *)
(* Then the channel loops over the rings of a block, which use each ring   *)
(* as that FIFO: a skew between channels has a recorded cause (FrameInv).  *)
(*                                                                         *)
(* Last the packets that carry the frames: timestamps keep pace with the   *)
(* frames, decode() accepts what RTP allows and nothing else, and the      *)
(* samples of an engine arrive where they were sent (PacketInv).           *)
(***************************************************************************)
EXTENDS SharedAudioRing, FramePath, AudioPacket, SequenceTheorems, TLAPS

\* The range of an index as a positive multiple of the capacity.
LEMMA RangeFacts ==
    /\ Capacity \in Nat /\ Capacity > 0
    /\ IndexRange \in Nat /\ IndexRange > Capacity /\ IndexRange > 0
  BY CapacityAssumption, IndexRangeAssumption, SMT

\* Remainders below the divisor and one round above it.
LEMMA ModBelow ==
    ASSUME NEW m \in Nat, m > 0, NEW a \in Nat, a < m
    PROVE  a % m = a
  BY SMT

\* A number one round above the divisor loses one divisor.
LEMMA ModOnce ==
    ASSUME NEW m \in Nat, m > 0, NEW a \in Nat, m <= a, a < 2 * m
    PROVE  a % m = a - m
  BY SMT

\* A natural number is a whole number of rounds and a remainder.
LEMMA ModEuclid ==
    ASSUME NEW m \in Nat, m > 0, NEW a \in Nat
    PROVE  /\ a \div m \in Nat
           /\ a % m \in 0 .. m - 1
           /\ a = m * (a \div m) + (a % m)
  BY SMT

\* A quotient and remainder are unique.
LEMMA ModUnique ==
    ASSUME NEW m \in Nat, m > 0, NEW a \in Nat,
           NEW q \in Nat, NEW r \in 0 .. m - 1, a = m * q + r
    PROVE  a % m = r
<1> DEFINE p == a \div m
           s == a % m
<1>1. p \in Nat /\ s \in 0 .. m - 1 /\ a = m * p + s
  BY ModEuclid
<1> HIDE DEF p, s
<1>2. m * p + s = m * q + r
  BY <1>1
<1>3. CASE p = q
  <2>1. s = r
    BY <1>1, <1>2, <1>3, SMT
  <2> QED BY <2>1 DEF s
<1>4. CASE p < q
  <2>1. PICK d \in Nat : q = p + 1 + d
    BY <1>1, <1>4, SMT
  <2>2. m * q = m * p + m + m * d
    BY <1>1, <2>1, SMT
  <2>3. m * d \in Nat /\ m * p \in Nat
    BY <1>1, SMT
  <2> QED BY <1>1, <1>2, <2>2, <2>3, SMT
<1>5. CASE q < p
  <2>1. PICK d \in Nat : p = q + 1 + d
    BY <1>1, <1>5, SMT
  <2>2. m * p = m * q + m + m * d
    BY <1>1, <2>1, SMT
  <2>3. m * d \in Nat /\ m * q \in Nat
    BY <1>1, SMT
  <2> QED BY <1>1, <1>2, <2>2, <2>3, SMT
<1> QED BY <1>1, <1>3, <1>4, <1>5, SMT

\* Numbers less than one round apart have different remainders.
LEMMA ModDistinct ==
    ASSUME NEW m \in Nat, m > 0, NEW a \in Nat, NEW b \in Nat, a < b, b < a + m
    PROVE  a % m # b % m
<1> DEFINE q == a \div m
           r == a % m
           d == b - a
<1>1. q \in Nat /\ r \in 0 .. m - 1 /\ a = m * q + r
  BY ModEuclid
<1>2. d \in 1 .. m - 1 /\ b = a + d
  BY SMT
<1> HIDE DEF q, r, d
<1>3. CASE r + d < m
  <2>1. b = m * q + (r + d) /\ r + d \in 0 .. m - 1
    BY <1>1, <1>2, <1>3, SMT
  <2>2. b % m = r + d
    BY <1>1, <2>1, ModUnique
  <2> QED BY <1>1, <1>2, <2>2, SMT DEF r
<1>4. CASE m <= r + d
  <2>1. b = m * (q + 1) + (r + d - m) /\ r + d - m \in 0 .. m - 1 /\ q + 1 \in Nat
    BY <1>1, <1>2, <1>4, SMT
  <2>2. b % m = r + d - m
    BY <1>1, <2>1, ModUnique
  <2> QED BY <1>1, <1>2, <2>2, SMT DEF r
<1> QED BY <1>1, <1>2, <1>3, <1>4, SMT

\* Whole rounds do not change a remainder.
LEMMA ModMultiple ==
    ASSUME NEW m \in Nat, m > 0, NEW k \in Nat, NEW a \in Nat
    PROVE  (a + k * m) % m = a % m
<1> DEFINE q == a \div m
           r == a % m
<1>1. q \in Nat /\ r \in 0 .. m - 1 /\ a = m * q + r
  BY ModEuclid
<1> HIDE DEF q, r
<1>2. a + k * m = m * (q + k) + r
  BY <1>1, SMT
<1>3. a + k * m \in Nat /\ q + k \in Nat
  BY <1>1, SMT
<1> QED BY <1>1, <1>2, <1>3, ModUnique DEF r
----------------------------------------------------------------------------
(* Index arithmetic.                                                       *)

\* Advancing an index by at most the capacity wraps at most once.
LEMMA AdvanceCases ==
    ASSUME NEW x \in Indices, NEW n \in 0 .. Capacity
    PROVE  /\ Advance(x, n) \in Indices
           /\ Advance(x, n) = IF x + n < IndexRange THEN x + n ELSE x + n - IndexRange
<1>1. x \in Nat /\ n \in Nat /\ x < IndexRange /\ n < IndexRange
  BY RangeFacts, SMT DEF Indices
<1>2. CASE x + n < IndexRange
  BY <1>1, <1>2, RangeFacts, ModBelow, SMT DEF Advance, Indices
<1>3. CASE IndexRange <= x + n
  <2> DEFINE y == x + n
  <2>1. y \in Nat /\ IndexRange <= y /\ y < 2 * IndexRange
    BY <1>1, <1>3, RangeFacts, SMT
  <2>2. y % IndexRange = y - IndexRange
    <3> HIDE DEF y
    <3> QED BY <2>1, RangeFacts, ModOnce
  <2> QED BY <1>1, <1>3, <2>1, <2>2, RangeFacts, SMT DEF Advance, Indices
<1> QED BY <1>1, <1>2, <1>3, RangeFacts, SMT

\* The unsigned difference of two indices.
LEMMA DistanceCases ==
    ASSUME NEW w \in Indices, NEW r \in Indices
    PROVE  /\ Distance(w, r) \in Indices
           /\ Distance(w, r) = IF r <= w THEN w - r ELSE w + IndexRange - r
<1>1. w \in Nat /\ r \in Nat /\ w < IndexRange /\ r < IndexRange
  BY RangeFacts, SMT DEF Indices
<1>2. CASE r <= w
  <2>1. w + IndexRange - r \in Nat /\ IndexRange <= w + IndexRange - r
        /\ w + IndexRange - r < 2 * IndexRange
    BY <1>1, <1>2, RangeFacts, SMT
  <2>2. (w + IndexRange - r) % IndexRange = (w + IndexRange - r) - IndexRange
    BY <2>1, RangeFacts, ModOnce
  <2> QED BY <1>1, <1>2, <2>1, <2>2, RangeFacts, SMT DEF Distance, Indices
<1>3. CASE w < r
  <2>1. w + IndexRange - r \in Nat /\ w + IndexRange - r < IndexRange
    BY <1>1, <1>3, RangeFacts, SMT
  <2>2. (w + IndexRange - r) % IndexRange = w + IndexRange - r
    BY <2>1, RangeFacts, ModBelow
  <2> QED BY <1>1, <1>3, <2>1, <2>2, RangeFacts, SMT DEF Distance, Indices
<1> QED BY <1>1, <1>2, <1>3, SMT

\* What is published is what is added to the distance; what is consumed is
\* what is taken from it.
LEMMA DistanceAfterWrite ==
    ASSUME NEW w \in Indices, NEW r \in Indices, NEW n \in Nat,
           Distance(w, r) + n <= Capacity
    PROVE  Distance(Advance(w, n), r) = Distance(w, r) + n
<1> DEFINE d == Distance(w, r)
           y == Advance(w, n)
<1>1. d \in Indices /\ d = IF r <= w THEN w - r ELSE w + IndexRange - r
  BY DistanceCases
<1>2. n \in 0 .. Capacity /\ d + n <= Capacity
  BY <1>1, RangeFacts, SMT DEF Indices
<1>3. y \in Indices /\ y = IF w + n < IndexRange THEN w + n ELSE w + n - IndexRange
  BY <1>2, AdvanceCases
<1> HIDE DEF d, y
<1>4. Distance(y, r) = IF r <= y THEN y - r ELSE y + IndexRange - r
  BY <1>3, DistanceCases
<1>5. Distance(y, r) = d + n
  BY <1>1, <1>2, <1>3, <1>4, RangeFacts, SMT DEF Indices
<1> QED BY <1>5 DEF d, y

\* Advancing readIndex by n takes n samples off the distance.
LEMMA DistanceAfterRead ==
    ASSUME NEW w \in Indices, NEW r \in Indices, NEW n \in Nat,
           n <= Distance(w, r), Distance(w, r) <= Capacity
    PROVE  Distance(w, Advance(r, n)) = Distance(w, r) - n
<1> DEFINE d == Distance(w, r)
           y == Advance(r, n)
<1>1. d \in Indices /\ d = IF r <= w THEN w - r ELSE w + IndexRange - r
  BY DistanceCases
<1>2. n \in 0 .. Capacity /\ n <= d /\ d <= Capacity
  BY <1>1, RangeFacts, SMT DEF Indices
<1>3. y \in Indices /\ y = IF r + n < IndexRange THEN r + n ELSE r + n - IndexRange
  BY <1>2, AdvanceCases
<1> HIDE DEF d, y
<1>4. Distance(w, y) = IF y <= w THEN w - y ELSE w + IndexRange - y
  BY <1>3, DistanceCases
<1>5. Distance(w, y) = d - n
  BY <1>1, <1>2, <1>3, <1>4, RangeFacts, SMT DEF Indices
<1> QED BY <1>5 DEF d, y

\* The wrap of an index does not move its slot, because the capacity divides
\* the range.
LEMMA SlotOfAdvance ==
    ASSUME NEW x \in Indices, NEW n \in 0 .. Capacity
    PROVE  Slot(Advance(x, n)) = (x + n) % Capacity
<1>1. x \in Nat /\ n \in Nat
  BY RangeFacts, SMT DEF Indices
<1>2. CASE x + n < IndexRange
  BY <1>1, <1>2, AdvanceCases DEF Slot
<1>3. CASE IndexRange <= x + n
  <2>1. PICK k \in 2 .. IndexRange : IndexRange = k * Capacity
    BY IndexRangeAssumption
  <2> DEFINE a == x + n - IndexRange
  <2>2. a \in Nat /\ Advance(x, n) = a /\ x + n = a + IndexRange
    BY <1>1, <1>3, AdvanceCases, RangeFacts, SMT
  <2> HIDE DEF a
  <2>3. k \in Nat
    BY RangeFacts, SMT
  <2>4. (a + k * Capacity) % Capacity = a % Capacity
    BY <2>2, <2>3, RangeFacts, ModMultiple
  <2> QED BY <2>1, <2>2, <2>4 DEF Slot
<1> QED BY <1>1, <1>2, <1>3, RangeFacts, SMT

\* Every advanced index names an element of the array.
LEMMA SlotInRange ==
    ASSUME NEW x \in Indices, NEW n \in 0 .. Capacity
    PROVE  Slot(Advance(x, n)) \in 0 .. Capacity - 1
<1>1. x + n \in Nat
  BY RangeFacts, SMT DEF Indices
<1> QED BY <1>1, SlotOfAdvance, ModEuclid, RangeFacts

\* Advancing the read index by what is unread gives the write index.
LEMMA AdvanceByDistance ==
    ASSUME NEW w \in Indices, NEW r \in Indices, Distance(w, r) <= Capacity
    PROVE  Advance(r, Distance(w, r)) = w
<1> DEFINE d == Distance(w, r)
<1>1. d \in Indices /\ d = IF r <= w THEN w - r ELSE w + IndexRange - r
  BY DistanceCases
<1>2. d \in 0 .. Capacity
  BY <1>1, RangeFacts, SMT DEF Indices
<1> HIDE DEF d
<1>3. Advance(r, d) = IF r + d < IndexRange THEN r + d ELSE r + d - IndexRange
  BY <1>2, AdvanceCases
<1>4. Advance(r, d) = w
  BY <1>1, <1>2, <1>3, RangeFacts, SMT DEF Indices
<1> QED BY <1>4 DEF d

\* Advances add up.
LEMMA AdvanceTwice ==
    ASSUME NEW x \in Indices, NEW m \in Nat, NEW n \in Nat, m + n <= Capacity
    PROVE  Advance(Advance(x, m), n) = Advance(x, m + n)
<1>1. m \in 0 .. Capacity /\ n \in 0 .. Capacity /\ m + n \in 0 .. Capacity
  BY RangeFacts, SMT
<1> DEFINE y == Advance(x, m)
<1>2. y \in Indices /\ y = IF x + m < IndexRange THEN x + m ELSE x + m - IndexRange
  BY <1>1, AdvanceCases
<1> HIDE DEF y
<1>3. Advance(y, n) = IF y + n < IndexRange THEN y + n ELSE y + n - IndexRange
  BY <1>1, <1>2, AdvanceCases
<1>4. Advance(x, m + n) = IF x + (m + n) < IndexRange THEN x + (m + n)
                          ELSE x + (m + n) - IndexRange
  BY <1>1, AdvanceCases
<1>5. Advance(y, n) = Advance(x, m + n)
  BY <1>1, <1>2, <1>3, <1>4, RangeFacts, SMT DEF Indices
<1> QED BY <1>5 DEF y

\* A free position and an unread position of the ring are different slots.
LEMMA FreeAndUnreadDiffer ==
    ASSUME NEW w \in Indices, NEW r \in Indices, NEW i \in Nat, NEW j \in Nat,
           Distance(w, r) + i < Capacity, j < Distance(w, r)
    PROVE  Slot(Advance(w, i)) # Slot(Advance(r, j))
<1> DEFINE d == Distance(w, r)
<1>1. d \in Nat /\ d + i < Capacity /\ j < d
  BY DistanceCases DEF Indices
<1>2. d <= Capacity /\ d + i <= Capacity /\ d + i \in 0 .. Capacity /\ j \in 0 .. Capacity
  <2> HIDE DEF d
  <2> QED BY <1>1, RangeFacts, SMT
<1>3. Advance(r, d) = w
  BY <1>2, AdvanceByDistance
<1> HIDE DEF d
<1>4. Advance(w, i) = Advance(r, d + i)
  BY <1>1, <1>2, <1>3, AdvanceTwice
<1>5. Slot(Advance(r, d + i)) = (r + (d + i)) % Capacity
  BY <1>2, SlotOfAdvance
<1>6. Slot(Advance(r, j)) = (r + j) % Capacity
  BY <1>2, SlotOfAdvance
<1>7. r + j \in Nat /\ r + (d + i) \in Nat /\ r + j < r + (d + i)
      /\ r + (d + i) < (r + j) + Capacity
  BY <1>1, RangeFacts, SMT DEF Indices
<1>8. (r + j) % Capacity # (r + (d + i)) % Capacity
  BY <1>7, ModDistinct, RangeFacts
<1> QED BY <1>4, <1>5, <1>6, <1>8

\* Two different positions less than a capacity apart are different slots.
LEMMA AdvancesDiffer ==
    ASSUME NEW x \in Indices, NEW i \in Nat, NEW j \in Nat,
           i < j, j < Capacity
    PROVE  Slot(Advance(x, i)) # Slot(Advance(x, j))
<1>1. x \in Nat /\ i \in 0 .. Capacity /\ j \in 0 .. Capacity
  BY RangeFacts, SMT DEF Indices
<1>2. x + i \in Nat /\ x + j \in Nat /\ x + i < x + j /\ x + j < (x + i) + Capacity
  BY <1>1, RangeFacts, SMT
<1> QED BY <1>1, <1>2, SlotOfAdvance, ModDistinct, RangeFacts
----------------------------------------------------------------------------
(* The inductive invariant.                                                *)

IInv == TypeOK /\ Bounded /\ CopiesIntact

\* The number of unread samples is a natural number.
LEMMA DistanceIsNat ==
    ASSUME TypeOK
    PROVE  Distance(writeIndex, readIndex) \in Nat
<1>1. writeIndex \in Indices /\ readIndex \in Indices
  BY DEF TypeOK
<1>2. Distance(writeIndex, readIndex) \in Indices
  BY <1>1, DistanceCases
<1> QED BY <1>2, RangeFacts, SMT DEF Indices

\* The ring starts empty with both sides idle.
LEMMA InitInv == Init => IInv
<1> SUFFICES ASSUME Init PROVE IInv
  OBVIOUS
<1>1. writeIndex \in Indices /\ readIndex \in Indices
  BY RangeFacts, SMT DEF Init, Indices
<1>2. TypeOK
  BY <1>1, SMT DEF Init, TypeOK
<1>3. Distance(writeIndex, readIndex) = 0
  BY <1>1, DistanceCases, SMT DEF Init
<1>4. Bounded
  BY <1>3, RangeFacts, SMT DEF Init, Bounded
<1>5. CopiesIntact
  BY SMT DEF Init, CopiesIntact
<1> QED BY <1>2, <1>4, <1>5 DEF IInv

\* write() computes a count that fits.
LEMMA WriteBeginInv == IInv /\ WriteBegin => IInv'
<1> SUFFICES ASSUME IInv, WriteBegin PROVE IInv'
  OBVIOUS
<1> DEFINE d == Distance(writeIndex, readIndex)
<1>1. d \in Nat /\ d <= Capacity
  BY DistanceIsNat, RangeFacts, SMT DEF IInv, Bounded, TypeOK
<1>2. PICK source \in BoundedSeq(Samples, MaxBlock) :
         wSource' = source /\ wCount' = WriteCount(Len(source), d)
  BY DEF WriteBegin
<1>3. source \in Seq(Samples) /\ Len(source) \in Nat
  BY MaxBlockAssumption, SMT DEF BoundedSeq, SeqOf
<1> HIDE DEF d
<1>4. wCount' \in Nat /\ wCount' <= Len(source) /\ d + wCount' <= Capacity
  BY <1>1, <1>2, <1>3, RangeFacts, SMT DEF WriteCount, Least
<1>5. TypeOK'
  BY <1>2, <1>3, <1>4, SMT DEF WriteBegin, IInv, TypeOK, readerVars
<1>6. Bounded'
  <2>1. Distance(writeIndex, readIndex)' = d
    BY DEF WriteBegin, d
  <2>2. rCount' = rCount /\ rCount <= d
    BY DEF WriteBegin, readerVars, IInv, Bounded, d
  <2> QED BY <1>4, <2>1, <2>2 DEF Bounded
<1>7. CopiesIntact'
  BY SMT DEF WriteBegin, IInv, CopiesIntact, readerVars
<1> QED BY <1>5, <1>6, <1>7 DEF IInv

\* A copied sample lands in a free slot: not one copied before, not an unread one.
LEMMA WriteCopyInv == IInv /\ WriteCopy => IInv'
<1> SUFFICES ASSUME IInv, WriteCopy PROVE IInv'
  OBVIOUS
<1> DEFINE d == Distance(writeIndex, readIndex)
           place == Slot(Advance(writeIndex, wDone))
<1>1. /\ d \in Nat /\ d + wCount <= Capacity /\ rCount <= d
      /\ wDone \in Nat /\ wCount \in Nat /\ wDone < wCount /\ wCount <= Len(wSource)
      /\ rCount \in Nat /\ rDone \in 0 .. rCount
      /\ writeIndex \in Indices /\ readIndex \in Indices
      /\ wSource \in Seq(Samples) /\ samples \in [0 .. Capacity - 1 -> Samples]
  BY DistanceIsNat, SMT DEF IInv, Bounded, TypeOK, WriteCopy
<1>2. wSource[wDone + 1] \in Samples
  BY <1>1, SMT
<1>3. wDone \in 0 .. Capacity /\ wDone < Capacity /\ d + wDone < Capacity
  <2> HIDE DEF d
  <2> QED BY <1>1, RangeFacts, SMT
<1>4. place \in 0 .. Capacity - 1
  BY <1>1, <1>3, SlotInRange
<1>5. samples' = [samples EXCEPT ![place] = wSource[wDone + 1]]
  BY DEF WriteCopy
<1>6. TypeOK'
  <2>1. samples' \in [0 .. Capacity - 1 -> Samples]
    BY <1>1, <1>2, <1>4, <1>5
  <2> QED BY <1>1, <2>1, SMT DEF WriteCopy, IInv, TypeOK, readerVars
<1>7. Bounded'
  BY DEF WriteCopy, IInv, Bounded, readerVars
<1>8. CopiesIntact'
  <2>1. ASSUME NEW i \in 0 .. wDone
        PROVE  samples'[Slot(Advance(writeIndex, i))] = wSource[i + 1]
    <3>1. i \in Nat /\ i \in 0 .. Capacity /\ i <= wDone
      <4> HIDE DEF d, place
      <4> QED BY <1>1, <1>3, RangeFacts, SMT
    <3>2. CASE i = wDone
      BY <1>1, <1>4, <1>5, <3>2
    <3>3. CASE i < wDone
      <4>1. Slot(Advance(writeIndex, i)) # place
        BY <1>1, <1>3, <3>1, <3>3, AdvancesDiffer
      <4>2. Slot(Advance(writeIndex, i)) \in 0 .. Capacity - 1
        BY <1>1, <3>1, SlotInRange
      <4>3. samples[Slot(Advance(writeIndex, i))] = wSource[i + 1]
        BY <1>1, <3>1, <3>3, SMT DEF IInv, CopiesIntact
      <4> QED BY <1>1, <1>5, <4>1, <4>2, <4>3
    <3> QED BY <1>1, <3>1, <3>2, <3>3, SMT
  <2>2. ASSUME NEW i \in 0 .. rDone - 1
        PROVE  samples'[Slot(Advance(readIndex, i))] = rDest[i + 1]
    <3>1. i \in Nat /\ i < d /\ i \in 0 .. Capacity
      <4> HIDE DEF d
      <4> QED BY <1>1, RangeFacts, SMT
    <3>2. Slot(Advance(readIndex, i)) # place
      BY <1>1, <1>3, <3>1, FreeAndUnreadDiffer
    <3>3. Slot(Advance(readIndex, i)) \in 0 .. Capacity - 1
      BY <1>1, <3>1, SlotInRange
    <3>4. samples[Slot(Advance(readIndex, i))] = rDest[i + 1]
      BY DEF IInv, CopiesIntact
    <3> QED BY <1>1, <1>5, <3>2, <3>3, <3>4
  <2>3. wDone' = wDone + 1 /\ UNCHANGED <<writeIndex, readIndex, wSource, rDone, rDest>>
    BY DEF WriteCopy, readerVars
  <2>4. 0 .. wDone' - 1 = 0 .. wDone
    BY <1>1, <2>3, SMT
  <2> QED BY <2>1, <2>2, <2>3, <2>4 DEF CopiesIntact
<1> QED BY <1>6, <1>7, <1>8 DEF IInv

\* Storing writeIndex moves wCount samples from the write to the queue.
LEMMA WritePublishInv == IInv /\ WritePublish => IInv'
<1> SUFFICES ASSUME IInv, WritePublish PROVE IInv'
  OBVIOUS
<1>1. /\ Distance(writeIndex, readIndex) \in Nat
      /\ Distance(writeIndex, readIndex) + wCount <= Capacity
      /\ rCount <= Distance(writeIndex, readIndex)
      /\ wCount \in Nat /\ rCount \in Nat
      /\ writeIndex \in Indices /\ readIndex \in Indices
  BY DistanceIsNat, SMT DEF IInv, Bounded, TypeOK
<1>2. wCount \in 0 .. Capacity
  BY <1>1, RangeFacts, SMT
<1>3. Advance(writeIndex, wCount) \in Indices
  BY <1>1, <1>2, AdvanceCases
<1>4. Distance(Advance(writeIndex, wCount), readIndex)
        = Distance(writeIndex, readIndex) + wCount
  BY <1>1, DistanceAfterWrite
<1>5. TypeOK'
  BY <1>3, SMT DEF WritePublish, IInv, TypeOK, readerVars
<1>6. Bounded'
  <2>1. Distance(writeIndex, readIndex)' = Distance(writeIndex, readIndex) + wCount
        /\ wCount' = 0 /\ rCount' = rCount
    BY <1>4 DEF WritePublish, readerVars
  <2> QED BY <1>1, <2>1, SMT DEF Bounded
<1>7. CopiesIntact'
  BY SMT DEF WritePublish, IInv, CopiesIntact, readerVars
<1> QED BY <1>5, <1>6, <1>7 DEF IInv

\* A writer that dies gives its unpublished slots back.
LEMMA WriterCrashInv == IInv /\ WriterCrash => IInv'
<1> SUFFICES ASSUME IInv, WriterCrash PROVE IInv'
  OBVIOUS
<1>1. TypeOK'
  BY SMT DEF WriterCrash, IInv, TypeOK, readerVars
<1>2. Bounded'
  <2>1. Distance(writeIndex, readIndex)' = Distance(writeIndex, readIndex)
        /\ wCount' = 0 /\ rCount' = rCount
    BY DEF WriterCrash, readerVars
  <2>2. Distance(writeIndex, readIndex) \in Nat /\ wCount \in Nat
    BY DistanceIsNat DEF IInv, TypeOK
  <2> QED BY <2>1, <2>2, RangeFacts, SMT DEF IInv, Bounded
<1>3. CopiesIntact'
  BY SMT DEF WriterCrash, IInv, CopiesIntact, readerVars
<1> QED BY <1>1, <1>2, <1>3 DEF IInv

\* read() asks for no more than is published.
LEMMA ReadBeginInv == IInv /\ ReadBegin => IInv'
<1> SUFFICES ASSUME IInv, ReadBegin PROVE IInv'
  OBVIOUS
<1> DEFINE d == Distance(writeIndex, readIndex)
<1>1. d \in Nat
  BY DistanceIsNat DEF IInv
<1>2. PICK size \in 0 .. MaxBlock : rCount' = ReadCount(size, d)
  BY DEF ReadBegin
<1> HIDE DEF d
<1>3. rCount' \in Nat /\ rCount' <= d
  BY <1>1, <1>2, MaxBlockAssumption, SMT DEF ReadCount, Least
<1>4. TypeOK'
  BY <1>3, SMT DEF ReadBegin, IInv, TypeOK, writerVars
<1>5. Bounded'
  <2>1. Distance(writeIndex, readIndex)' = d /\ wCount' = wCount /\ d + wCount <= Capacity
    BY DEF ReadBegin, writerVars, IInv, Bounded, d
  <2> QED BY <1>3, <2>1 DEF Bounded
<1>6. CopiesIntact'
  BY SMT DEF ReadBegin, IInv, CopiesIntact, writerVars
<1> QED BY <1>4, <1>5, <1>6 DEF IInv

\* A sample read is the one in its slot.
LEMMA ReadCopyInv == IInv /\ ReadCopy => IInv'
<1> SUFFICES ASSUME IInv, ReadCopy PROVE IInv'
  OBVIOUS
<1> DEFINE d == Distance(writeIndex, readIndex)
           sample == samples[Slot(Advance(readIndex, rDone))]
<1>1. /\ d \in Nat /\ wCount \in Nat /\ d + wCount <= Capacity /\ rCount <= d
      /\ rDone \in Nat /\ rCount \in Nat /\ rDone < rCount /\ rDone = Len(rDest)
      /\ readIndex \in Indices
      /\ rDest \in Seq(Samples) /\ samples \in [0 .. Capacity - 1 -> Samples]
  BY DistanceIsNat, SMT DEF IInv, Bounded, TypeOK, ReadCopy
<1>2. rDone \in 0 .. Capacity
  <2> HIDE DEF d
  <2> QED BY <1>1, RangeFacts, SMT
<1>3. Slot(Advance(readIndex, rDone)) \in 0 .. Capacity - 1
  BY <1>1, <1>2, SlotInRange
<1>4. sample \in Samples
  BY <1>1, <1>3
<1>5. rDest' = Append(rDest, sample) /\ rDone' = rDone + 1
      /\ UNCHANGED <<writeIndex, readIndex, samples, wDone, wSource>>
  BY DEF ReadCopy, writerVars
<1>6. rDest' \in Seq(Samples) /\ Len(rDest') = rDone + 1
      /\ rDest'[rDone + 1] = sample
      /\ \A i \in 0 .. rDone - 1 : rDest'[i + 1] = rDest[i + 1]
  <2> HIDE DEF sample, d
  <2> QED BY <1>1, <1>4, <1>5, SMT
<1>7. TypeOK'
  <2> HIDE DEF sample
  <2> QED BY <1>1, <1>5, <1>6, SMT DEF ReadCopy, IInv, TypeOK, writerVars
<1>8. Bounded'
  BY DEF ReadCopy, IInv, Bounded, writerVars
<1>9. CopiesIntact'
  <2>1. ASSUME NEW i \in 0 .. rDone
        PROVE  samples[Slot(Advance(readIndex, i))] = rDest'[i + 1]
    <3>1. CASE i = rDone
      BY <1>6, <3>1
    <3>2. CASE i # rDone
      <4>1. i \in 0 .. rDone - 1
        BY <1>1, <3>2, SMT
      <4> QED BY <1>6, <4>1 DEF IInv, CopiesIntact
    <3> QED BY <3>1, <3>2
  <2>2. 0 .. rDone' - 1 = 0 .. rDone
    BY <1>1, <1>5, SMT
  <2> QED BY <1>5, <2>1, <2>2 DEF IInv, CopiesIntact
<1> QED BY <1>7, <1>8, <1>9 DEF IInv

\* Storing readIndex frees the rCount slots that were read.
LEMMA ReadPublishInv == IInv /\ ReadPublish => IInv'
<1> SUFFICES ASSUME IInv, ReadPublish PROVE IInv'
  OBVIOUS
<1>1. /\ Distance(writeIndex, readIndex) \in Nat
      /\ Distance(writeIndex, readIndex) + wCount <= Capacity
      /\ rCount <= Distance(writeIndex, readIndex)
      /\ wCount \in Nat /\ rCount \in Nat
      /\ writeIndex \in Indices /\ readIndex \in Indices
  BY DistanceIsNat, SMT DEF IInv, Bounded, TypeOK
<1>2. rCount \in 0 .. Capacity /\ Distance(writeIndex, readIndex) <= Capacity
  BY <1>1, RangeFacts, SMT
<1>3. Advance(readIndex, rCount) \in Indices
  BY <1>1, <1>2, AdvanceCases
<1>4. Distance(writeIndex, Advance(readIndex, rCount))
        = Distance(writeIndex, readIndex) - rCount
  BY <1>1, <1>2, DistanceAfterRead
<1>5. TypeOK'
  BY <1>3, SMT DEF ReadPublish, IInv, TypeOK, writerVars
<1>6. Bounded'
  <2> DEFINE d == Distance(writeIndex, readIndex)
  <2>1. Distance(writeIndex, readIndex)' = d - rCount /\ rCount' = 0 /\ wCount' = wCount
    BY <1>4 DEF ReadPublish, writerVars
  <2>2. d \in Nat /\ d + wCount <= Capacity /\ rCount <= d
    BY <1>1
  <2> HIDE DEF d
  <2>3. (d - rCount) + wCount <= Capacity /\ 0 <= d - rCount
    BY <1>1, <2>2, RangeFacts, SMT
  <2> QED BY <2>1, <2>3 DEF Bounded
<1>7. CopiesIntact'
  BY SMT DEF ReadPublish, IInv, CopiesIntact, writerVars
<1> QED BY <1>5, <1>6, <1>7 DEF IInv

\* A reader that dies leaves its samples in the queue.
LEMMA ReaderCrashInv == IInv /\ ReaderCrash => IInv'
<1> SUFFICES ASSUME IInv, ReaderCrash PROVE IInv'
  OBVIOUS
<1>1. TypeOK'
  BY SMT DEF ReaderCrash, IInv, TypeOK, writerVars
<1>2. Bounded'
  <2>1. Distance(writeIndex, readIndex)' = Distance(writeIndex, readIndex)
        /\ rCount' = 0 /\ wCount' = wCount
    BY DEF ReaderCrash, writerVars
  <2>2. Distance(writeIndex, readIndex) \in Nat
    BY DistanceIsNat DEF IInv
  <2> QED BY <2>1, <2>2, SMT DEF IInv, Bounded
<1>3. CopiesIntact'
  BY SMT DEF ReaderCrash, IInv, CopiesIntact, writerVars
<1> QED BY <1>1, <1>2, <1>3 DEF IInv

\* Resetting both indices between calls leaves an empty ring.
LEMMA ResetWhenIdleInv == IInv /\ ResetWhenIdle => IInv'
<1> SUFFICES ASSUME IInv, ResetWhenIdle PROVE IInv'
  OBVIOUS
<1>1. 0 \in Indices
  BY RangeFacts, SMT DEF Indices
<1>2. wCount = 0 /\ rCount = 0 /\ wDone = 0 /\ rDone = 0
  BY SMT DEF ResetWhenIdle, IInv, TypeOK
<1>3. TypeOK'
  BY <1>1, SMT DEF ResetWhenIdle, IInv, TypeOK, writerVars, readerVars
<1>4. Bounded'
  <2>1. Distance(0, 0) = 0
    BY <1>1, DistanceCases, SMT
  <2>2. Distance(writeIndex, readIndex)' = 0 /\ rCount' = 0 /\ wCount' = 0
    BY <1>2, <2>1 DEF ResetWhenIdle, writerVars, readerVars
  <2> QED BY <2>2, RangeFacts, SMT DEF Bounded
<1>5. CopiesIntact'
  BY <1>2, SMT DEF ResetWhenIdle, IInv, CopiesIntact, writerVars, readerVars
<1> QED BY <1>3, <1>4, <1>5 DEF IInv

\* The invariant depends on the variables only.
LEMMA StutterInv == IInv /\ UNCHANGED vars => IInv'
  BY DEF IInv, vars, writerVars, readerVars, TypeOK, Bounded, CopiesIntact

\* Every step preserves the invariant.
LEMMA NextInv == IInv /\ [Next]_vars => IInv'
  BY WriteBeginInv, WriteCopyInv, WritePublishInv, WriterCrashInv,
     ReadBeginInv, ReadCopyInv, ReadPublishInv, ReaderCrashInv,
     ResetWhenIdleInv, StutterInv, Zenon
     DEF Next, Writer, Reader

\* Every reachable state of SharedAudioRing::write, read, their crashes and
\* resetWhenIdle is well typed.
THEOREM TypeCorrect == Spec => []TypeOK
<1>1. IInv => TypeOK
  BY DEF IInv
<1> QED BY InitInv, NextInv, <1>1, PTL DEF Spec

\* For every capacity and index width, write() never publishes past what is
\* free and read() never returns what is not published, whatever stale index
\* either side works from.
THEOREM RingIsBounded == Spec => []Bounded
<1>1. IInv => Bounded
  BY DEF IInv
<1> QED BY InitInv, NextInv, <1>1, PTL DEF Spec

\* For every capacity and index width, a write() in progress and a read() in
\* progress never touch the same element of the plain array `samples`.
THEOREM RingHasNoRace == Spec => []NoSlotShared
<1>1. IInv => NoSlotShared
  <2> SUFFICES ASSUME IInv,
                      NEW i \in 0 .. wCount - 1, NEW j \in 0 .. rCount - 1
               PROVE  Slot(Advance(writeIndex, i)) # Slot(Advance(readIndex, j))
    BY DEF NoSlotShared, WriterSlots, ReaderSlots
  <2> DEFINE d == Distance(writeIndex, readIndex)
  <2>1. /\ d \in Nat /\ d + wCount <= Capacity /\ rCount <= d
        /\ wCount \in Nat /\ rCount \in Nat
        /\ writeIndex \in Indices /\ readIndex \in Indices
    BY DistanceIsNat, SMT DEF IInv, Bounded, TypeOK
  <2>2. i \in Nat /\ j \in Nat /\ d + i < Capacity /\ j < d
    <3> HIDE DEF d
    <3> QED BY <2>1, RangeFacts, SMT
  <2> QED BY <2>1, <2>2, FreeAndUnreadDiffer
<1> QED BY InitInv, NextInv, <1>1, PTL DEF Spec

\* What either side has copied is still in the array until it publishes.
THEOREM CopiesStayIntact == Spec => []CopiesIntact
<1>1. IInv => CopiesIntact
  BY DEF IInv
<1> QED BY InitInv, NextInv, <1>1, PTL DEF Spec
----------------------------------------------------------------------------
(* The ring implements the bounded FIFO.                                   *)

\* The blocks in flight are no longer than the callers' spans.
BlocksBounded == Len(wSource) <= MaxBlock /\ rCount <= MaxBlock

\* Only the begin of a call sets the length of a block.
LEMMA BlocksStayBounded ==
    /\ Init => BlocksBounded
    /\ IInv /\ BlocksBounded /\ [Next]_vars => BlocksBounded'
<1>1. Init => BlocksBounded
  BY MaxBlockAssumption, SMT DEF Init, BlocksBounded
<1>2. ASSUME IInv, BlocksBounded, WriteBegin PROVE BlocksBounded'
  <2>1. PICK source \in BoundedSeq(Samples, MaxBlock) : wSource' = source
    BY <1>2 DEF WriteBegin
  <2>2. Len(source) <= MaxBlock
    BY MaxBlockAssumption, SMT DEF BoundedSeq, SeqOf
  <2> QED BY <1>2, <2>1, <2>2 DEF WriteBegin, readerVars, BlocksBounded
<1>3. ASSUME IInv, BlocksBounded, ReadBegin PROVE BlocksBounded'
  <2>1. PICK size \in 0 .. MaxBlock :
           rCount' = ReadCount(size, Distance(writeIndex, readIndex))
    BY <1>3 DEF ReadBegin
  <2>2. PICK d \in Nat : d = Distance(writeIndex, readIndex)
    BY <1>3, DistanceIsNat DEF IInv
  <2>3. rCount' <= MaxBlock
    BY <2>1, <2>2, MaxBlockAssumption, SMT DEF ReadCount, Least
  <2> QED BY <1>3, <2>3 DEF ReadBegin, writerVars, BlocksBounded
<1>4. ASSUME BlocksBounded, WriteCopy PROVE BlocksBounded'
  BY <1>4 DEF WriteCopy, readerVars, BlocksBounded
<1>5. ASSUME BlocksBounded, WritePublish \/ WriterCrash PROVE BlocksBounded'
  <2>1. wSource' = <<>> /\ rCount' = rCount
    BY <1>5 DEF WritePublish, WriterCrash, readerVars
  <2> QED BY <1>5, <2>1, MaxBlockAssumption, SMT DEF BlocksBounded
<1>6. ASSUME BlocksBounded, ReadCopy \/ ResetWhenIdle \/ UNCHANGED vars
      PROVE  BlocksBounded'
  BY <1>6 DEF ReadCopy, ResetWhenIdle, vars, writerVars, readerVars, BlocksBounded
<1>7. ASSUME BlocksBounded, ReadPublish \/ ReaderCrash PROVE BlocksBounded'
  <2>1. wSource' = wSource /\ rCount' = 0
    BY <1>7 DEF ReadPublish, ReaderCrash, writerVars
  <2> QED BY <1>7, <2>1, MaxBlockAssumption, SMT DEF BlocksBounded
<1> QED BY <1>1, <1>2, <1>3, <1>4, <1>5, <1>6, <1>7, Zenon DEF Next, Writer, Reader

\* An interval from 1 determines its upper end.
LEMMA IntervalEnds ==
    ASSUME NEW a \in Nat, NEW b \in Nat, 1 .. a = 1 .. b
    PROVE  a = b
  BY SMT

\* The unread part of an array is a sequence with one sample per unit of
\* distance.
LEMMA UnreadFacts ==
    ASSUME NEW w \in Indices, NEW r \in Indices, Distance(w, r) <= Capacity,
           NEW s \in [0 .. Capacity - 1 -> Samples], NEW q,
           q = [i \in 1 .. Distance(w, r) |-> s[Slot(Advance(r, i - 1))]]
    PROVE  /\ q \in Seq(Samples)
           /\ Distance(w, r) \in Nat
           /\ Len(q) = Distance(w, r)
           /\ \A i \in 1 .. Distance(w, r) : q[i] = s[Slot(Advance(r, i - 1))]
<1>1. PICK d \in Nat : d = Distance(w, r)
  <2>1. Distance(w, r) \in Indices
    BY DistanceCases
  <2> QED BY <2>1, RangeFacts, SMT DEF Indices
<1>2. \A i \in 1 .. d : s[Slot(Advance(r, i - 1))] \in Samples
  <2> SUFFICES ASSUME NEW i \in 1 .. d
               PROVE  s[Slot(Advance(r, i - 1))] \in Samples
    OBVIOUS
  <2>1. i - 1 \in 0 .. Capacity
    BY <1>1, RangeFacts, SMT
  <2>2. Slot(Advance(r, i - 1)) \in 0 .. Capacity - 1
    BY <2>1, SlotInRange
  <2> QED BY <2>2
<1>3. q = [i \in 1 .. d |-> s[Slot(Advance(r, i - 1))]]
  BY <1>1
<1>4. q \in [1 .. d -> Samples]
  BY <1>2, <1>3
<1>5. q \in Seq(Samples)
  BY <1>4, SeqDef, ZenonT(40)
<1>6. Len(q) = d
  <2>1. DOMAIN q = 1 .. d /\ DOMAIN q = 1 .. Len(q) /\ Len(q) \in Nat
    BY <1>4, <1>5, LenProperties
  <2> QED BY <2>1, IntervalEnds
<1> QED BY <1>1, <1>3, <1>5, <1>6

\* What an observer sees as the queue is a sequence of the unread samples.
LEMMA QueueFacts ==
    ASSUME IInv
    PROVE  /\ Queue \in Seq(Samples)
           /\ Distance(writeIndex, readIndex) \in Nat
           /\ Len(Queue) = Distance(writeIndex, readIndex)
           /\ \A i \in 1 .. Distance(writeIndex, readIndex) :
                 Queue[i] = samples[Slot(Advance(readIndex, i - 1))]
<1>1. writeIndex \in Indices /\ readIndex \in Indices /\ wCount \in Nat
      /\ samples \in [0 .. Capacity - 1 -> Samples]
  BY DEF IInv, TypeOK
<1>2. Distance(writeIndex, readIndex) <= Capacity
  BY <1>1, DistanceIsNat, RangeFacts, SMT DEF IInv, Bounded
<1> QED BY <1>1, <1>2, UnreadFacts DEF Queue

\* The same facts about the queue in the next state.
LEMMA QueueFactsAfter ==
    ASSUME IInv'
    PROVE  /\ Queue' \in Seq(Samples)
           /\ Len(Queue') = Distance(writeIndex', readIndex')
           /\ \A i \in 1 .. Distance(writeIndex', readIndex') :
                 Queue'[i] = samples'[Slot(Advance(readIndex', i - 1))]
<1>1. writeIndex' \in Indices /\ readIndex' \in Indices /\ wCount' \in Nat
      /\ samples' \in [0 .. Capacity - 1 -> Samples]
      /\ Distance(writeIndex', readIndex') + wCount' <= Capacity
  BY DEF IInv, TypeOK, Bounded
<1>2. PICK d \in Nat : d = Distance(writeIndex', readIndex')
  <2>1. Distance(writeIndex', readIndex') \in Indices
    BY <1>1, DistanceCases
  <2> QED BY <2>1, RangeFacts, SMT DEF Indices
<1>3. Distance(writeIndex', readIndex') <= Capacity
  BY <1>1, <1>2, RangeFacts, SMT
<1>4. Queue' = [i \in 1 .. Distance(writeIndex', readIndex') |->
                   samples'[Slot(Advance(readIndex', i - 1))]]
  BY DEF Queue
<1> QED BY <1>1, <1>3, <1>4, UnreadFacts, ZenonT(40)

\* A sample copied into a free slot does not show in the queue.
LEMMA WriteCopyKeepsQueue == IInv /\ WriteCopy => Queue' = Queue
<1> SUFFICES ASSUME IInv, WriteCopy PROVE Queue' = Queue
  OBVIOUS
<1>1. PICK d \in Nat : d = Distance(writeIndex, readIndex)
  BY DistanceIsNat DEF IInv
<1>2. /\ d + wCount <= Capacity
      /\ wDone \in Nat /\ wCount \in Nat /\ wDone < wCount
      /\ writeIndex \in Indices /\ readIndex \in Indices
      /\ samples \in [0 .. Capacity - 1 -> Samples]
  BY <1>1, SMT DEF IInv, Bounded, TypeOK, WriteCopy
<1>3. wDone \in 0 .. Capacity /\ d + wDone < Capacity
  BY <1>1, <1>2, RangeFacts, SMT
<1>4. UNCHANGED <<writeIndex, readIndex>>
      /\ samples' = [samples EXCEPT ![Slot(Advance(writeIndex, wDone))] = wSource[wDone + 1]]
  BY DEF WriteCopy
<1>5. ASSUME NEW i \in 1 .. d
      PROVE  samples'[Slot(Advance(readIndex, i - 1))]
                = samples[Slot(Advance(readIndex, i - 1))]
  <2>1. i - 1 \in Nat /\ i - 1 < d /\ i - 1 \in 0 .. Capacity
    BY <1>1, <1>2, RangeFacts, SMT
  <2>2. Slot(Advance(writeIndex, wDone)) # Slot(Advance(readIndex, i - 1))
    BY <1>1, <1>2, <1>3, <2>1, FreeAndUnreadDiffer
  <2>3. Slot(Advance(readIndex, i - 1)) \in 0 .. Capacity - 1
    BY <1>2, <2>1, SlotInRange
  <2> QED BY <1>2, <1>4, <2>2, <2>3
<1>6. Queue = [i \in 1 .. d |-> samples[Slot(Advance(readIndex, i - 1))]]
  BY <1>1 DEF Queue
<1>7. Queue' = [i \in 1 .. d |-> samples'[Slot(Advance(readIndex, i - 1))]]
  BY <1>1, <1>4 DEF Queue
<1> QED BY <1>5, <1>6, <1>7

\* The release store of writeIndex appends the copied block to the queue.
LEMMA WritePublishIsWrite ==
    IInv /\ BlocksBounded /\ WritePublish => Fifo!Write
<1> SUFFICES ASSUME IInv, BlocksBounded, WritePublish PROVE Fifo!Write
  OBVIOUS
<1>1. IInv'
  BY WritePublishInv
<1>2. PICK d \in Nat : d = Distance(writeIndex, readIndex)
  BY DistanceIsNat DEF IInv
<1>3. /\ d + wCount <= Capacity /\ wCount \in Nat /\ wDone = wCount
      /\ wCount <= Len(wSource) /\ Len(wSource) <= MaxBlock
      /\ wSource \in Seq(Samples)
      /\ writeIndex \in Indices /\ readIndex \in Indices
  BY <1>2 DEF IInv, Bounded, TypeOK, BlocksBounded, WritePublish
<1>4. PICK copied : copied = SubSeq(wSource, 1, wCount)
  OBVIOUS
<1>5. copied \in Seq(Samples) /\ Len(copied) = wCount
      /\ \A i \in 1 .. wCount : copied[i] = wSource[i]
  BY <1>3, <1>4, SMT
<1>6. copied \in Fifo!Block
  <2>1. copied \in [1 .. wCount -> Samples] /\ wCount \in 0 .. MaxBlock
    <3>1. Len(wSource) \in Nat
      BY <1>3, LenProperties
    <3>2. wCount \in 0 .. MaxBlock
      BY <1>3, <3>1, MaxBlockAssumption, SMT
    <3> QED BY <1>5, <3>2, LenProperties
  <2> QED BY <2>1 DEF Fifo!Block, Fifo!BoundedSeq, Fifo!SeqOf
<1>7. /\ Distance(writeIndex', readIndex') = d + wCount
      /\ UNCHANGED <<readIndex, samples, delivered>>
  <2>1. Distance(Advance(writeIndex, wCount), readIndex) = d + wCount
    BY <1>2, <1>3, DistanceAfterWrite
  <2> QED BY <2>1 DEF WritePublish
<1>8. /\ Queue \in Seq(Samples) /\ Len(Queue) = d
      /\ \A i \in 1 .. d : Queue[i] = samples[Slot(Advance(readIndex, i - 1))]
  BY <1>2, QueueFacts
<1>9. /\ Queue' \in Seq(Samples) /\ Len(Queue') = d + wCount
      /\ \A i \in 1 .. d + wCount : Queue'[i] = samples[Slot(Advance(readIndex, i - 1))]
  BY <1>1, <1>7, QueueFactsAfter
<1>10. /\ Queue \o copied \in Seq(Samples)
       /\ Len(Queue \o copied) = d + wCount
       /\ \A i \in 1 .. d + wCount :
             (Queue \o copied)[i] = IF i <= d THEN Queue[i] ELSE copied[i - d]
  BY <1>5, <1>8, ConcatProperties
<1>11. ASSUME NEW i \in 1 .. d + wCount PROVE Queue'[i] = (Queue \o copied)[i]
  <2>1. CASE i <= d
    <3>1. i \in 1 .. d
      BY <1>2, <1>3, <2>1, SMT
    <3> QED BY <1>8, <1>9, <1>10, <2>1, <3>1
  <2>2. CASE ~ (i <= d)
    <3>1. PICK k \in Nat : k < wCount /\ i = d + (k + 1)
      <4>1. (i - d) - 1 \in Nat /\ (i - d) - 1 < wCount /\ i = d + (((i - d) - 1) + 1)
        BY <1>2, <1>3, <2>2, SMT
      <4> QED BY <4>1
    <3>2. k \in 0 .. wDone - 1 /\ k + 1 \in 1 .. wCount /\ i - 1 = d + k /\ i - d = k + 1
          /\ d + k <= Capacity /\ d <= Capacity
      BY <1>2, <1>3, <3>1, RangeFacts, SMT
    <3>3. Advance(readIndex, i - 1) = Advance(writeIndex, k)
      <4>1. Advance(readIndex, d) = writeIndex
        BY <1>2, <1>3, <3>2, AdvanceByDistance
      <4>2. Advance(Advance(readIndex, d), k) = Advance(readIndex, d + k)
        BY <1>2, <1>3, <3>1, <3>2, AdvanceTwice
      <4> QED BY <3>2, <4>1, <4>2
    <3>4. samples[Slot(Advance(writeIndex, k))] = wSource[k + 1]
      BY <3>2 DEF IInv, CopiesIntact
    <3>5. (Queue \o copied)[i] = copied[k + 1]
      BY <1>10, <2>2, <3>2
    <3> QED BY <1>5, <1>9, <3>2, <3>3, <3>4, <3>5
  <2> QED BY <2>1, <2>2
<1>12. Queue' = Queue \o copied
  BY <1>9, <1>10, <1>11, SeqEqual
<1>13. Len(Queue) + Len(copied) <= Capacity
  BY <1>3, <1>5, <1>8
<1> QED BY <1>6, <1>7, <1>12, <1>13, Zenon DEF Fifo!Write

\* The release store of readIndex removes the block that was copied out, and
\* the block is the front of the queue.
LEMMA ReadPublishIsRead ==
    IInv /\ BlocksBounded /\ ReadPublish => Fifo!Read
<1> SUFFICES ASSUME IInv, BlocksBounded, ReadPublish PROVE Fifo!Read
  OBVIOUS
<1>1. IInv'
  BY ReadPublishInv
<1>2. PICK d \in Nat : d = Distance(writeIndex, readIndex)
  BY DistanceIsNat DEF IInv
<1>3. /\ d + wCount <= Capacity /\ wCount \in Nat
      /\ rCount \in Nat /\ rDone = rCount /\ rCount <= d /\ rCount <= MaxBlock
      /\ rDest \in Seq(Samples) /\ Len(rDest) = rCount
      /\ writeIndex \in Indices /\ readIndex \in Indices
  BY <1>2 DEF IInv, Bounded, TypeOK, BlocksBounded, ReadPublish
<1>4. d <= Capacity /\ rCount \in 0 .. MaxBlock
  BY <1>2, <1>3, RangeFacts, MaxBlockAssumption, SMT
<1>5. /\ Distance(writeIndex', readIndex') = d - rCount
      /\ readIndex' = Advance(readIndex, rCount)
      /\ samples' = samples /\ delivered' = rDest
  <2>1. Distance(writeIndex, Advance(readIndex, rCount)) = d - rCount
    BY <1>2, <1>3, <1>4, DistanceAfterRead
  <2> QED BY <2>1 DEF ReadPublish
<1>6. /\ Queue \in Seq(Samples) /\ Len(Queue) = d
      /\ \A i \in 1 .. d : Queue[i] = samples[Slot(Advance(readIndex, i - 1))]
  BY <1>2, QueueFacts
<1>7. /\ Queue' \in Seq(Samples) /\ Len(Queue') = d - rCount
      /\ \A i \in 1 .. d - rCount :
            Queue'[i] = samples[Slot(Advance(Advance(readIndex, rCount), i - 1))]
  BY <1>1, <1>5, QueueFactsAfter
<1>8. delivered' = SubSeq(Queue, 1, rCount)
  <2>1. /\ SubSeq(Queue, 1, rCount) \in Seq(Samples)
        /\ Len(SubSeq(Queue, 1, rCount)) = rCount
        /\ \A i \in 1 .. rCount : SubSeq(Queue, 1, rCount)[i] = Queue[i]
    BY <1>2, <1>3, <1>6, SMT
  <2>2. ASSUME NEW i \in 1 .. rCount PROVE rDest[i] = Queue[i]
    <3>1. i - 1 \in 0 .. rDone - 1 /\ (i - 1) + 1 = i /\ i \in 1 .. d
      BY <1>2, <1>3, SMT
    <3>2. samples[Slot(Advance(readIndex, i - 1))] = rDest[(i - 1) + 1]
      BY <3>1 DEF IInv, CopiesIntact
    <3> QED BY <1>6, <3>1, <3>2
  <2> QED BY <1>3, <1>5, <2>1, <2>2, SeqEqual
<1>9. Queue' = SubSeq(Queue, rCount + 1, Len(Queue))
  <2>1. PICK rest : rest = SubSeq(Queue, rCount + 1, Len(Queue))
    OBVIOUS
  <2>2. /\ rest \in Seq(Samples) /\ Len(rest) = d - rCount
        /\ \A i \in 1 .. d - rCount : rest[i] = Queue[rCount + i]
    BY <1>2, <1>3, <1>6, <2>1, SMT
  <2>3. ASSUME NEW i \in 1 .. d - rCount PROVE Queue'[i] = rest[i]
    <3>1. i - 1 \in Nat /\ rCount + (i - 1) <= Capacity /\ rCount + i \in 1 .. d
          /\ (rCount + i) - 1 = rCount + (i - 1)
      BY <1>2, <1>3, <1>4, RangeFacts, SMT
    <3>2. Advance(Advance(readIndex, rCount), i - 1) = Advance(readIndex, rCount + (i - 1))
      BY <1>3, <3>1, AdvanceTwice
    <3>3. Queue[rCount + i] = samples[Slot(Advance(readIndex, rCount + (i - 1)))]
      BY <1>6, <3>1
    <3> QED BY <1>7, <2>2, <3>2, <3>3
  <2> QED BY <1>7, <2>1, <2>2, <2>3, SeqEqual
<1> QED BY <1>3, <1>4, <1>6, <1>8, <1>9 DEF Fifo!Read

\* An empty ring shows an empty queue.
LEMMA EqualIndicesAreEmpty ==
    ASSUME NEW x \in Indices
    PROVE  Distance(x, x) = 0
<1>1. x \in Nat
  BY RangeFacts, SMT DEF Indices
<1> QED BY <1>1, DistanceCases, SMT

\* Every step of the ring is a step of the FIFO or leaves it unchanged.
LEMMA StepSimulates ==
    IInv /\ BlocksBounded /\ [Next]_vars => [Fifo!Next]_(Fifo!vars)
<1> SUFFICES ASSUME IInv, BlocksBounded, [Next]_vars PROVE [Fifo!Next]_(Fifo!vars)
  OBVIOUS
<1>1. CASE WritePublish
  BY <1>1, WritePublishIsWrite DEF Fifo!Next
<1>2. CASE ReadPublish
  BY <1>2, ReadPublishIsRead DEF Fifo!Next
<1>3. CASE ResetWhenIdle
  <2>1. 0 \in Indices
    BY RangeFacts, SMT DEF Indices
  <2>2. Distance(writeIndex', readIndex') = 0
    BY <1>3, <2>1, EqualIndicesAreEmpty DEF ResetWhenIdle
  <2>3. Queue' \in Seq(Samples) /\ Len(Queue') = 0
    BY <1>3, <2>2, ResetWhenIdleInv, QueueFactsAfter
  <2>4. Queue' = <<>>
    BY <2>3, EmptySeq, SMT
  <2> QED BY <1>3, <2>4 DEF ResetWhenIdle, Fifo!Next, Fifo!Clear
<1>4. CASE WriteCopy
  BY <1>4, WriteCopyKeepsQueue DEF WriteCopy, Fifo!vars
<1>5. CASE WriteBegin \/ WriterCrash \/ ReadBegin \/ ReadCopy \/ ReaderCrash \/ UNCHANGED vars
  <2>1. UNCHANGED <<writeIndex, readIndex, samples, delivered>>
    BY <1>5 DEF WriteBegin, WriterCrash, ReadBegin, ReadCopy, ReaderCrash, vars
  <2> QED BY <2>1 DEF Queue, Fifo!vars
<1> QED BY <1>1, <1>2, <1>3, <1>4, <1>5, Zenon DEF Next, Writer, Reader

\* SharedAudioRing's write() and read(), interleaved, interrupted and restarted
\* at any load or store, implement a bounded FIFO with one-step calls: no
\* sample is lost, duplicated or reordered, for every capacity, index width,
\* block length and set of samples.
THEOREM RingImplementsFifo == Spec => ImplementsFifo
<1>1. Init => Fifo!Init
  <2> SUFFICES ASSUME Init PROVE Fifo!Init
    OBVIOUS
  <2>1. 0 \in Indices
    BY RangeFacts, SMT DEF Indices
  <2>2. Distance(writeIndex, readIndex) = 0
    BY <2>1, EqualIndicesAreEmpty DEF Init
  <2>3. Queue \in Seq(Samples) /\ Len(Queue) = 0
    BY <2>2, InitInv, QueueFacts
  <2>4. Queue = <<>>
    BY <2>3, EmptySeq, SMT
  <2> QED BY <2>4 DEF Init, Fifo!Init
<1> QED BY <1>1, InitInv, NextInv, BlocksStayBounded, StepSimulates, PTL
        DEF Spec, ImplementsFifo, Fifo!Spec
----------------------------------------------------------------------------
(* The channel loops over the rings of a block: FramePath takes a call on  *)
(* one ring as one step, as RingImplementsFifo allows.                     *)

\* Blocks have whole numbers of channels and frames, and rings a capacity.
LEMMA FrameSizes ==
    /\ ChannelCount \in Nat /\ WriteSizes \subseteq Nat /\ ReadSizes \subseteq Nat
    /\ RingCapacity \in Nat
  BY FrameAssumption DEF FrameAssumption

FrameValues == Nat \cup {Silence}

\* Two sequences agree as far as both go.
Agree(s, t) == \A i \in 1 .. Len(s) : i <= Len(t) => s[i] = t[i]

\* n frames from `first` on
RunFrom(first, n) == [i \in 1 .. n |-> first + i - 1]

\* What the loop of the writer has not yet written to channel c.
Coming(c) == IF wChannel # 0 /\ wChannel <= c THEN RunFrom(nextFrame, wSize) ELSE <<>>

\* Channel c as if the reader had not begun and the writer had ended: what the
\* reader has taken, what waits, and what is to come.
Whole(c) == block[c] \o (ring[c] \o Coming(c))

\* The positions and flags of the two loops.
LoopsMean ==
    /\ wChannel \in 0 .. ChannelCount + 1 /\ rChannel \in 0 .. ChannelCount + 1
    /\ nextFrame \in Nat /\ wSize \in Nat /\ rSize \in Nat
    /\ overrun \in BOOLEAN /\ underrun \in BOOLEAN
    /\ counted \in BOOLEAN /\ excused \in BOOLEAN /\ overlapped \in BOOLEAN
    /\ wChannel = 0 => ~overrun
    /\ rChannel = 0 => ~underrun
    /\ rChannel # 0 /\ wChannel # 0 => overlapped

\* Every channel passed has given a whole block, the others nothing yet.
Shape ==
    /\ ring \in [Channels -> Seq(FrameValues)]
    /\ block \in [Channels -> Seq(FrameValues)]
    /\ \A c \in Channels :
          /\ Len(ring[c]) <= RingCapacity
          /\ Len(block[c]) = IF c < rChannel THEN rSize ELSE 0

\* All channels are whole copies of the same frames; an overrun not yet counted
\* may have cut some of them short.
Agreeing ==
    \A c, d \in Channels :
        Agree(Whole(c), Whole(d)) /\ (~overrun => Whole(c) = Whole(d))

\* A read that nobody wrote beside ran short of every channel alike: those passed
\* have given all they had, the others hold it still.
Starved ==
    /\ wChannel = 0 /\ rChannel # 0
    /\ ring \in [Channels -> Seq(FrameValues)] /\ DOMAIN block = Channels
    /\ \E s \in Seq(FrameValues) :
          /\ Len(s) < rSize /\ Len(s) <= RingCapacity
          /\ \A c \in Channels :
                IF c < rChannel THEN block[c] = Filled(s, rSize) /\ ring[c] = <<>>
                                ELSE ring[c] = s

\* Unless a cause of skew is recorded, the channels agree.
Aligned ==
    \/ counted \/ excused \/ (underrun /\ overlapped)
    \/ Shape /\ Agreeing /\ ~underrun
    \/ underrun /\ Starved

FrameInv == LoopsMean /\ Aligned /\ SkewIsExplained

\* Dropping equally long fronts of two sequences that agree leaves two that agree.
LEMMA DropFront ==
    ASSUME NEW S, NEW s1 \in Seq(S), NEW s2 \in Seq(S), NEW t1 \in Seq(S), NEW t2 \in Seq(S),
           Len(s1) = Len(s2), Agree(s1 \o t1, s2 \o t2)
    PROVE  s1 = s2 /\ Agree(t1, t2)
<1>1. PICK n \in Nat : n = Len(s1) /\ n = Len(s2)
  BY LenProperties
<1>2. PICK a \in Nat, b \in Nat : a = Len(t1) /\ b = Len(t2)
  BY LenProperties
<1>3. /\ Len(s1 \o t1) = n + a /\ Len(s2 \o t2) = n + b
      /\ \A i \in 1 .. n + a : (s1 \o t1)[i] = IF i <= n THEN s1[i] ELSE t1[i - n]
      /\ \A i \in 1 .. n + b : (s2 \o t2)[i] = IF i <= n THEN s2[i] ELSE t2[i - n]
  <2>1. /\ Len(s1 \o t1) = n + a
        /\ \A i \in 1 .. n + a : (s1 \o t1)[i] = IF i <= n THEN s1[i] ELSE t1[i - n]
    BY <1>1, <1>2, SMT
  <2>2. /\ Len(s2 \o t2) = n + b
        /\ \A i \in 1 .. n + b : (s2 \o t2)[i] = IF i <= n THEN s2[i] ELSE t2[i - n]
    BY <1>1, <1>2, SMT
  <2> QED BY <2>1, <2>2
<1>4. ASSUME NEW i \in 1 .. n + a, i <= n + b PROVE (s1 \o t1)[i] = (s2 \o t2)[i]
  BY <1>3, <1>4 DEF Agree
<1>5. s1 = s2
  <2>1. ASSUME NEW i \in 1 .. n PROVE s1[i] = s2[i]
    <3>1. i \in 1 .. n + a /\ i \in 1 .. n + b /\ i <= n /\ i <= n + b
      BY <1>1, <1>2, SMT
    <3> QED BY <1>3, <1>4, <3>1
  <2> QED BY <1>1, <2>1, SeqEqual
<1>6. ASSUME NEW i \in 1 .. a, i <= b PROVE t1[i] = t2[i]
  <2>1. PICK j \in Nat : j = n + i
    BY <1>1, <1>2, SMT
  <2>2. j \in 1 .. n + a /\ j \in 1 .. n + b /\ ~(j <= n) /\ j <= n + b /\ j - n = i
    BY <1>1, <1>2, <1>6, <2>1, SMT
  <2> QED BY <1>3, <1>4, <2>2
<1> QED BY <1>2, <1>5, <1>6 DEF Agree

\* A sequence cut short agrees with what the whole agreed with.
LEMMA CutAgrees ==
    ASSUME NEW S, NEW s \in Seq(S), NEW t \in Seq(S), NEW u \in Seq(S),
           Len(t) <= Len(s), Agree(t, s)
    PROVE  /\ Agree(s, u) => Agree(t, u)
           /\ Agree(u, s) => Agree(u, t)
<1>1. PICK a \in Nat, b \in Nat, c \in Nat : a = Len(s) /\ b = Len(t) /\ c = Len(u)
  BY LenProperties
<1>2. b <= a /\ \A i \in 1 .. b : t[i] = s[i]
  BY <1>1, SMT DEF Agree
<1>3. ASSUME Agree(s, u) PROVE Agree(t, u)
  <2>1. \A i \in 1 .. a : i <= c => s[i] = u[i]
    BY <1>1, <1>3 DEF Agree
  <2>2. \A i \in 1 .. b : i <= c => t[i] = u[i]
    BY <1>1, <1>2, <2>1, SMT
  <2> QED BY <1>1, <2>2 DEF Agree
<1>4. ASSUME Agree(u, s) PROVE Agree(u, t)
  <2>1. \A i \in 1 .. c : i <= a => u[i] = s[i]
    BY <1>1, <1>4 DEF Agree
  <2>2. \A i \in 1 .. c : i <= b => u[i] = t[i]
    BY <1>1, <1>2, <2>1, SMT
  <2> QED BY <1>1, <2>2 DEF Agree
<1> QED BY <1>3, <1>4

\* Sequences that agree do so behind a common front.
LEMMA FrontAgrees ==
    ASSUME NEW S, NEW s \in Seq(S), NEW p \in Seq(S), NEW q \in Seq(S),
           Len(p) <= Len(q), Agree(p, q)
    PROVE  /\ s \o p \in Seq(S) /\ s \o q \in Seq(S)
           /\ Len(s \o p) <= Len(s \o q) /\ Agree(s \o p, s \o q)
<1>1. PICK n \in Nat, a \in Nat, b \in Nat : n = Len(s) /\ a = Len(p) /\ b = Len(q)
  BY LenProperties
<1>2. a <= b /\ \A i \in 1 .. a : p[i] = q[i]
  BY <1>1, SMT DEF Agree
<1>3. /\ s \o p \in Seq(S) /\ Len(s \o p) = n + a
      /\ \A i \in 1 .. n + a : (s \o p)[i] = IF i <= n THEN s[i] ELSE p[i - n]
  BY <1>1, SMT
<1>4. /\ s \o q \in Seq(S) /\ Len(s \o q) = n + b
      /\ \A i \in 1 .. n + b : (s \o q)[i] = IF i <= n THEN s[i] ELSE q[i - n]
  BY <1>1, SMT
<1>5. ASSUME NEW i \in 1 .. n + a PROVE (s \o p)[i] = (s \o q)[i]
  <2>1. i \in 1 .. n + b /\ (~(i <= n) => i - n \in 1 .. a)
    BY <1>1, <1>2, SMT
  <2> QED BY <1>2, <1>3, <1>4, <2>1
<1>6. n + a <= n + b
  BY <1>1, <1>2, SMT
<1> QED BY <1>3, <1>4, <1>5, <1>6 DEF Agree

\* Equal sequences agree.
LEMMA EqualAgrees == ASSUME NEW s PROVE Agree(s, s)
  BY DEF Agree

\* A run of n frames is a sequence of n frames.
LEMMA RunFacts ==
    ASSUME NEW first \in Nat, NEW n \in Nat
    PROVE  /\ RunFrom(first, n) \in Seq(FrameValues)
           /\ Len(RunFrom(first, n)) = n
           /\ \A i \in 1 .. n : RunFrom(first, n)[i] = first + i - 1
<1>1. PICK q : q = [i \in 1 .. n |-> first + i - 1]
  OBVIOUS
<1>2. \A i \in 1 .. n : first + i - 1 \in FrameValues
  BY SMT DEF FrameValues
<1>3. q \in [1 .. n -> FrameValues]
  BY <1>1, <1>2
<1>4. q \in Seq(FrameValues)
  BY <1>3, SeqDef
<1>5. Len(q) = n
  <2>1. DOMAIN q = 1 .. n /\ DOMAIN q = 1 .. Len(q) /\ Len(q) \in Nat
    BY <1>3, <1>4, LenProperties
  <2> QED BY <2>1, IntervalEnds
<1>6. RunFrom(first, n) = q
  BY <1>1 DEF RunFrom
<1> QED BY <1>1, <1>4, <1>5, <1>6

\* A channel is one of the numbers from 1 on.
LEMMA ChannelFacts ==
    ASSUME NEW c \in Channels
    PROVE  c \in Nat /\ 1 <= c /\ c <= ChannelCount
  BY FrameSizes, SMT DEF Channels

\* The three parts of a channel are sequences of frames.
LEMMA PartsFacts ==
    ASSUME LoopsMean, Shape, NEW c \in Channels
    PROVE  /\ block[c] \in Seq(FrameValues) /\ ring[c] \in Seq(FrameValues)
           /\ Coming(c) \in Seq(FrameValues)
           /\ ring[c] \o Coming(c) \in Seq(FrameValues)
           /\ Whole(c) \in Seq(FrameValues)
<1>1. block[c] \in Seq(FrameValues) /\ ring[c] \in Seq(FrameValues)
  BY DEF Shape
<1>2. RunFrom(nextFrame, wSize) \in Seq(FrameValues) /\ <<>> \in Seq(FrameValues)
  BY RunFacts, EmptySeq DEF LoopsMean
<1>3. Coming(c) \in Seq(FrameValues)
  BY <1>2 DEF Coming
<1>4. ring[c] \o Coming(c) \in Seq(FrameValues)
  BY <1>1, <1>3, ConcatProperties
<1> QED BY <1>1, <1>3, <1>4, ConcatProperties DEF Whole

\* The property is kept while no block is delivered.
LEMMA SkewKept ==
    ASSUME SkewIsExplained, counted => counted', excused => excused',
           UNCHANGED deliveredBlock
    PROVE  SkewIsExplained'
  BY DEF SkewIsExplained, FramesTogether

\* Channels that stay whole as they were go on agreeing.
LEMMA WholesKept ==
    ASSUME Agreeing, overrun' = overrun,
           \A c \in Channels : Whole(c)' = Whole(c)
    PROVE  Agreeing'
<1> SUFFICES ASSUME NEW c \in Channels, NEW d \in Channels
             PROVE  Agree(Whole(c)', Whole(d)') /\ (~overrun' => Whole(c)' = Whole(d)')
  BY DEF Agreeing, Agree, Channels
<1> QED BY DEF Agreeing

----------------------------------------------------------------------------
\* A new block is to come in every channel.
LEMMA WriteStartFrames ==
    ASSUME FrameInv, WriteStart
    PROVE  FrameInv'
<1>1. /\ wChannel = 0 /\ wChannel' = 1 /\ wSize' \in Nat /\ ~overrun /\ overrun' = FALSE
      /\ overlapped' = (rChannel # 0)
      /\ UNCHANGED <<ring, nextFrame, rChannel, rSize, underrun, block, deliveredBlock, counted, excused>>
  BY FrameSizes DEF FrameInv, LoopsMean, WriteStart, frameReaderVars
<1>2. LoopsMean'
  <2>1. 1 \in 0 .. ChannelCount + 1
    BY FrameSizes, SMT
  <2> QED BY <1>1, <2>1, Zenon DEF FrameInv, LoopsMean
<1>3. SkewIsExplained'
  BY <1>1, SkewKept DEF FrameInv
<1>4. CASE Shape /\ Agreeing /\ ~underrun
  <2>1. Shape'
    BY <1>1, <1>4 DEF Shape, Channels
  <2>2. PICK run \in Seq(FrameValues) : run = RunFrom(nextFrame, wSize')
    BY <1>1, RunFacts DEF FrameInv, LoopsMean
  <2>3. ASSUME NEW c \in Channels
        PROVE  Whole(c)' = Whole(c) \o run
    <3>1. Coming(c) = <<>> /\ Coming(c)' = run
      BY <1>1, <2>2, ChannelFacts DEF Coming
    <3>2. PICK x \in Seq(FrameValues), y \in Seq(FrameValues) : x = block[c] /\ y = ring[c]
      BY <1>4, PartsFacts DEF FrameInv
    <3>3. Whole(c)' = x \o (y \o run)
      BY <1>1, <3>1, <3>2 DEF Whole
    <3>4. Whole(c) = x \o y
      BY <3>1, <3>2, ConcatEmptySeq DEF Whole
    <3>5. (x \o y) \o run = x \o (y \o run)
      BY ConcatAssociative
    <3> QED BY <3>3, <3>4, <3>5
  <2>4. ASSUME NEW c \in Channels, NEW d \in Channels
        PROVE  Whole(c)' = Whole(d)'
    BY <1>1, <1>4, <2>3 DEF Agreeing
  <2>5. Agreeing'
    BY <2>4, EqualAgrees DEF Agreeing, Agree, Channels
  <2> QED BY <1>1, <1>2, <1>3, <1>4, <2>1, <2>5 DEF FrameInv, Aligned
<1>5. CASE counted \/ excused
  BY <1>1, <1>2, <1>3, <1>5 DEF FrameInv, Aligned
<1>6. CASE underrun
  <2>1. rChannel # 0
    BY <1>6 DEF FrameInv, LoopsMean
  <2> QED BY <1>1, <1>2, <1>3, <1>6, <2>1 DEF FrameInv, Aligned
<1> QED BY <1>4, <1>5, <1>6 DEF FrameInv, Aligned

\* The block joins the ring of one channel, in full or cut short.
LEMMA WriteChannelFrames ==
    ASSUME FrameInv, WriteChannel
    PROVE  FrameInv'
<1>1. PICK w \in Channels : w = wChannel
  BY DEF WriteChannel
<1>2. w \in Nat /\ 1 <= w /\ w <= ChannelCount /\ ChannelCount \in Nat
  BY ChannelFacts, FrameSizes
<1>3. PICK count : count = Smaller(wSize, RingCapacity - Len(ring[w]))
  OBVIOUS
<1>4. /\ ring' = [ring EXCEPT ![w] = ring[w] \o RunFrom(nextFrame, count)]
      /\ overrun' = (overrun \/ count # wSize)
      /\ wChannel' = w + 1
      /\ UNCHANGED <<nextFrame, wSize, rChannel, rSize, underrun, block, deliveredBlock, counted,
                      overlapped, excused>>
  BY <1>1, <1>3 DEF WriteChannel, Run, RunFrom, frameReaderVars
<1>5. LoopsMean'
  <2>1. w + 1 \in 0 .. ChannelCount + 1 /\ w + 1 # 0
    BY <1>2, SMT
  <2>2. overrun' \in BOOLEAN
    BY <1>4 DEF FrameInv, LoopsMean
  <2>3. wChannel # 0
    BY <1>1, <1>2, SMT
  <2>4. rChannel' # 0 /\ wChannel' # 0 => overlapped'
    BY <1>4, <2>3 DEF FrameInv, LoopsMean
  <2> QED BY <1>4, <2>1, <2>2, <2>4, Zenon DEF FrameInv, LoopsMean
<1>6. SkewIsExplained'
  BY <1>4, SkewKept DEF FrameInv
<1>7. CASE counted \/ excused \/ underrun
  <2>1. CASE counted \/ excused \/ (underrun /\ overlapped)
    BY <1>4, <1>5, <1>6, <2>1 DEF FrameInv, Aligned
  <2>2. CASE underrun
    <3>1. rChannel # 0 /\ wChannel # 0
      BY <1>1, <1>2, <2>2, SMT DEF FrameInv, LoopsMean
    <3>2. overlapped
      BY <3>1 DEF FrameInv, LoopsMean
    <3> QED BY <2>1, <2>2, <3>2
  <2> QED BY <1>7, <2>1, <2>2
<1>8. CASE Shape /\ Agreeing /\ ~underrun
  <2>1. PICK y \in Seq(FrameValues), x \in Seq(FrameValues) : y = ring[w] /\ x = block[w]
    BY <1>1, <1>8, PartsFacts DEF FrameInv
  <2>2. PICK n \in Nat : n = Len(y)
    BY LenProperties
  <2>3. n <= RingCapacity /\ wSize \in Nat /\ nextFrame \in Nat
    BY <1>1, <1>8, <2>1, <2>2 DEF Shape, FrameInv, LoopsMean
  <2>4. count \in Nat /\ count <= wSize /\ n + count <= RingCapacity
    <3>1. count = Smaller(wSize, RingCapacity - n)
      BY <1>3, <2>1, <2>2
    <3>2. PICK z \in Nat : z = wSize
      BY <2>3
    <3> QED BY <2>2, <2>3, <3>1, <3>2, FrameSizes, SMT DEF Smaller
  <2>5. PICK part \in Seq(FrameValues), run \in Seq(FrameValues) :
           /\ part = RunFrom(nextFrame, count) /\ run = RunFrom(nextFrame, wSize)
           /\ Len(part) = count /\ Len(run) = wSize
           /\ \A i \in 1 .. count : part[i] = run[i]
    <3>1. \A i \in 1 .. count : i \in 1 .. wSize
      BY <2>3, <2>4, SMT
    <3> QED BY <2>3, <2>4, <3>1, RunFacts
  <2>6. y \o part \in Seq(FrameValues) /\ Len(y \o part) = n + count
    BY <2>2, <2>5, ConcatProperties, ZenonT(40)
  <2>7. ring' = [ring EXCEPT ![w] = y \o part]
    BY <1>4, <2>1, <2>5
  <2>8. Shape'
    <3>1. ring \in [Channels -> Seq(FrameValues)]
      BY <1>8 DEF Shape
    <3>2. ring' \in [Channels -> Seq(FrameValues)]
      BY <2>6, <2>7, <3>1
    <3>3. ASSUME NEW c \in Channels PROVE Len(ring'[c]) <= RingCapacity
      <4>1. CASE c = w
        BY <2>4, <2>6, <2>7, <3>1, <4>1
      <4>2. CASE c # w
        BY <1>8, <2>7, <3>1, <4>2 DEF Shape
      <4> QED BY <4>1, <4>2
    <3> QED BY <1>4, <1>8, <3>2, <3>3 DEF Shape, Channels
  <2>9. ASSUME NEW c \in Channels, c # w PROVE Whole(c)' = Whole(c)
    <3>1. ring'[c] = ring[c]
      BY <1>8, <2>7, <2>9 DEF Shape
    <3>2. c \in Nat /\ (w <= c <=> w + 1 <= c) /\ w # 0 /\ w + 1 # 0
      BY <1>2, <2>9, ChannelFacts, SMT
    <3>3. Coming(c)' = Coming(c)
      BY <1>1, <1>4, <3>2 DEF Coming
    <3> QED BY <1>4, <3>1, <3>3 DEF Whole
  <2>10. Whole(w) = x \o (y \o run) /\ Whole(w)' = x \o (y \o part)
    <3>1. w <= w /\ w # 0 /\ ~(w + 1 <= w)
      BY <1>2, SMT
    <3>2. Coming(w) = run
      BY <1>1, <2>5, <3>1 DEF Coming
    <3>3. Coming(w)' = <<>>
      BY <1>4, <3>1 DEF Coming
    <3>4. ring'[w] = y \o part
      BY <1>1, <1>8, <2>7 DEF Shape
    <3>5. (y \o part) \o <<>> = y \o part
      BY <2>6, ConcatEmptySeq
    <3> QED BY <1>4, <2>1, <3>2, <3>3, <3>4, <3>5 DEF Whole
  <2>11. CASE count = wSize
    <3>1. part = run
      BY <2>5, <2>11
    <3>2. \A c \in Channels : Whole(c)' = Whole(c)
      BY <2>9, <2>10, <3>1
    <3>3. overrun' = overrun
      BY <1>4, <2>11 DEF FrameInv, LoopsMean
    <3>4. Agreeing'
      BY <1>8, <3>2, <3>3, WholesKept
    <3> QED BY <1>4, <1>5, <1>6, <1>8, <2>8, <3>4 DEF FrameInv, Aligned
  <2>12. CASE count # wSize
    <3>1. overrun' = TRUE
      BY <1>4, <2>12
    <3>2. PICK short \in Seq(FrameValues), full \in Seq(FrameValues) :
             /\ short = x \o (y \o part) /\ full = x \o (y \o run)
             /\ Len(short) <= Len(full) /\ Agree(short, full)
      <4>1. Len(part) <= Len(run) /\ Agree(part, run)
        BY <2>4, <2>5 DEF Agree
      <4>2. PICK p \in Seq(FrameValues), q \in Seq(FrameValues) :
               p = y \o part /\ q = y \o run /\ Len(p) <= Len(q) /\ Agree(p, q)
        BY <4>1, FrontAgrees
      <4>3. /\ x \o p \in Seq(FrameValues) /\ x \o q \in Seq(FrameValues)
            /\ Len(x \o p) <= Len(x \o q) /\ Agree(x \o p, x \o q)
        BY <4>2, FrontAgrees
      <4> QED BY <4>2, <4>3
    <3>3. ASSUME NEW c \in Channels, NEW d \in Channels
          PROVE  Agree(Whole(c)', Whole(d)')
      <4>1. PICK s \in Seq(FrameValues), u \in Seq(FrameValues) :
               s = Whole(c) /\ u = Whole(d) /\ Agree(s, u)
        BY <1>8, PartsFacts DEF FrameInv, Agreeing
      <4>2. CASE c # w /\ d # w
        BY <2>9, <4>1, <4>2
      <4>3. CASE c = w /\ d # w
        <5>1. Whole(c)' = short /\ s = full /\ Whole(d)' = u
          BY <2>9, <2>10, <3>2, <4>1, <4>3
        <5>2. Agree(full, u) => Agree(short, u)
          BY <3>2, CutAgrees
        <5> QED BY <4>1, <5>1, <5>2
      <4>4. CASE c # w /\ d = w
        <5>1. Whole(d)' = short /\ u = full /\ Whole(c)' = s
          BY <2>9, <2>10, <3>2, <4>1, <4>4
        <5>2. Agree(s, full) => Agree(s, short)
          BY <3>2, CutAgrees
        <5> QED BY <4>1, <5>1, <5>2
      <4>5. CASE c = w /\ d = w
        BY <4>5, EqualAgrees
      <4> QED BY <4>2, <4>3, <4>4, <4>5
    <3>4. Agreeing'
      BY <3>1, <3>3 DEF Agreeing, Agree, Channels
    <3> QED BY <1>4, <1>5, <1>6, <1>8, <2>8, <3>4 DEF FrameInv, Aligned
  <2> QED BY <2>11, <2>12
<1> QED BY <1>7, <1>8 DEF FrameInv, Aligned

\* A writer between its last channel and its next block leaves every channel
\* as it is; an overrun becomes a count or, if the process dies, a cause that
\* no counter shows.
LEMMA WriterDoneFrames ==
    ASSUME FrameInv, WriteEnd \/ KillWriter
    PROVE  FrameInv'
<1>1. /\ wChannel' = 0 /\ wSize' = 0 /\ overrun' = FALSE /\ nextFrame' = nextFrame + wSize
      /\ counted' \in BOOLEAN /\ excused' \in BOOLEAN
      /\ (counted => counted') /\ (excused => excused') /\ (overrun => counted' \/ excused')
      /\ UNCHANGED <<ring, rChannel, rSize, underrun, block, deliveredBlock, overlapped>>
  BY DEF WriteEnd, KillWriter, frameReaderVars, FrameInv, LoopsMean
<1>2. LoopsMean'
  <2>1. nextFrame + wSize \in Nat /\ 0 \in 0 .. ChannelCount + 1
    BY FrameSizes, SMT DEF FrameInv, LoopsMean
  <2> QED BY <1>1, <2>1, Zenon DEF FrameInv, LoopsMean
<1>3. SkewIsExplained'
  BY <1>1, SkewKept DEF FrameInv
<1>4. CASE counted' \/ excused' \/ underrun'
  <2>1. CASE underrun
    <3>1. rChannel # 0 /\ wChannel # 0
      BY <2>1 DEF FrameInv, LoopsMean, WriteEnd, KillWriter
    <3>2. overlapped
      BY <3>1 DEF FrameInv, LoopsMean
    <3> QED BY <1>1, <1>2, <1>3, <2>1, <3>2 DEF FrameInv, Aligned
  <2> QED BY <1>1, <1>2, <1>3, <1>4, <2>1 DEF FrameInv, Aligned
<1>5. CASE ~(counted' \/ excused' \/ underrun')
  <2>1. Shape /\ Agreeing /\ ~overrun
    BY <1>1, <1>5 DEF FrameInv, Aligned
  <2>2. Shape'
    BY <1>1, <2>1 DEF Shape, Channels
  <2>3. wChannel = ChannelCount + 1 \/ wChannel = 1
    <3>1. CASE WriteEnd
      BY <3>1 DEF WriteEnd
    <3>2. CASE KillWriter
      <4>1. wChannel # 0 /\ ~(wChannel \in 2 .. ChannelCount) /\ wChannel \in 0 .. ChannelCount + 1
        BY <1>5, <3>2 DEF KillWriter, FrameInv, LoopsMean
      <4> QED BY <4>1, FrameSizes, SMT
    <3> QED BY <3>1, <3>2
  <2>4. PICK rest \in Seq(FrameValues) : \A c \in Channels : Coming(c) = rest
    <3>1. RunFrom(nextFrame, wSize) \in Seq(FrameValues) /\ <<>> \in Seq(FrameValues)
      BY RunFacts, EmptySeq DEF FrameInv, LoopsMean
    <3>2. CASE wChannel = ChannelCount + 1
      <4>1. \A c \in Channels : ~(ChannelCount + 1 <= c)
        BY FrameSizes, SMT DEF Channels
      <4> QED BY <3>1, <3>2, <4>1 DEF Coming
    <3>3. CASE wChannel = 1
      <4>1. \A c \in Channels : 1 <= c
        BY ChannelFacts
      <4> QED BY <3>1, <3>3, <4>1 DEF Coming
    <3> QED BY <2>3, <3>2, <3>3
  <2>5. ASSUME NEW c \in Channels
        PROVE  Whole(c)' \in Seq(FrameValues) /\ Whole(c) = Whole(c)' \o rest
    <3>1. PICK x \in Seq(FrameValues), y \in Seq(FrameValues) : x = block[c] /\ y = ring[c]
      BY <2>1, PartsFacts DEF FrameInv
    <3>2. Coming(c)' = <<>>
      BY <1>1 DEF Coming
    <3>3. Whole(c)' = x \o y
      BY <1>1, <3>1, <3>2, ConcatEmptySeq DEF Whole
    <3>4. Whole(c) = x \o (y \o rest)
      BY <2>4, <3>1 DEF Whole
    <3>5. (x \o y) \o rest = x \o (y \o rest)
      BY ConcatAssociative, SMTT(30)
    <3>6. x \o y \in Seq(FrameValues)
      BY ConcatProperties
    <3> QED BY <3>3, <3>4, <3>5, <3>6
  <2>6. ASSUME NEW c \in Channels, NEW d \in Channels
        PROVE  Whole(c)' = Whole(d)'
    <3>1. PICK s \in Seq(FrameValues), u \in Seq(FrameValues) :
             s = Whole(c)' /\ u = Whole(d)' /\ s \o rest = u \o rest
      BY <2>1, <2>5 DEF Agreeing
    <3>2. s = u
      BY <3>1, ConcatSimplifications
    <3> QED BY <3>1, <3>2
  <2>7. Agreeing'
    BY <2>6, EqualAgrees DEF Agreeing, Agree, Channels
  <2> QED BY <1>2, <1>3, <1>5, <2>2, <2>7 DEF FrameInv, Aligned
<1> QED BY <1>4, <1>5

\* Channels that nothing has been taken from have an empty part of the block.
LEMMA NothingTaken ==
    ASSUME Shape, NEW c \in Channels, ~(c < rChannel)
    PROVE  block[c] = <<>>
<1>1. block[c] \in Seq(FrameValues) /\ Len(block[c]) = 0
  BY DEF Shape
<1> QED BY <1>1, EmptySeq

\* A reader that begins has taken nothing.
LEMMA ReadStartFrames ==
    ASSUME FrameInv, ReadStart
    PROVE  FrameInv'
<1>1. /\ rChannel = 0 /\ rChannel' = 1 /\ rSize' \in Nat /\ ~underrun /\ underrun' = FALSE
      /\ block' = NoBlock
      /\ overlapped' = (wChannel # 0)
      /\ UNCHANGED <<ring, nextFrame, wChannel, wSize, overrun, deliveredBlock, counted, excused>>
  BY FrameSizes DEF FrameInv, LoopsMean, ReadStart, frameWriterVars
<1>2. LoopsMean'
  <2>1. 1 \in 0 .. ChannelCount + 1 /\ 1 # 0
    BY FrameSizes, SMT
  <2> QED BY <1>1, <2>1, Zenon DEF FrameInv, LoopsMean
<1>3. SkewIsExplained'
  BY <1>1, SkewKept DEF FrameInv
<1>4. CASE counted \/ excused
  BY <1>1, <1>2, <1>3, <1>4 DEF FrameInv, Aligned
<1>5. CASE Shape /\ Agreeing
  <2>1. ASSUME NEW c \in Channels
        PROVE  block[c] = <<>> /\ block'[c] = <<>> /\ ~(c < 1)
    <3>1. ~(c < rChannel) /\ ~(c < 1)
      BY <1>1, ChannelFacts, SMT
    <3> QED BY <1>1, <1>5, <3>1, NothingTaken DEF NoBlock
  <2>2. <<>> \in Seq(FrameValues) /\ Len(<<>>) = 0
    BY EmptySeq
  <2>3. block' \in [Channels -> Seq(FrameValues)]
    BY <1>1, <2>2 DEF NoBlock
  <2>4. Shape'
    BY <1>1, <1>5, <2>1, <2>2, <2>3 DEF Shape, Channels
  <2>5. \A c \in Channels : Whole(c)' = Whole(c)
    BY <1>1, <2>1 DEF Whole, Coming
  <2>6. Agreeing'
    BY <1>1, <1>5, <2>5, WholesKept
  <2> QED BY <1>1, <1>2, <1>3, <2>4, <2>6 DEF FrameInv, Aligned
<1> QED BY <1>1, <1>4, <1>5 DEF FrameInv, Aligned

\* All of a sequence, and what is left of it then.
LEMMA TakeAll ==
    ASSUME NEW s \in Seq(FrameValues)
    PROVE  SubSeq(s, 1, Len(s)) = s /\ SubSeq(s, Len(s) + 1, Len(s)) = <<>>
<1>1. PICK n \in Nat : n = Len(s)
  BY LenProperties
<1>2. SubSeq(s, n + 1, n) \in Seq(FrameValues) /\ Len(SubSeq(s, n + 1, n)) = 0
  BY <1>1, SMT
<1>3. SubSeq(s, n + 1, n) = <<>>
  BY <1>2, EmptySeq
<1>4. SubSeq(s, 1, n) = s
  BY <1>1, SubSeqFull
<1> QED BY <1>1, <1>3, <1>4

\* Nobody writes: the first read that is short is that of the first channel, since
\* all channels have the same, and every other is short like it.
LEMMA ReadShort ==
    ASSUME LoopsMean, Aligned, ~counted, ~excused, ~overlapped, ReadChannel, underrun'
    PROVE  Starved'
<1>1. PICK r \in Channels : r = rChannel
  BY DEF ReadChannel
<1>2. r \in Nat /\ 1 <= r /\ r <= ChannelCount /\ r # 0 /\ r + 1 # 0
  BY <1>1, ChannelFacts, SMT
<1>3. wChannel = 0 /\ ~overrun
  BY <1>1, <1>2 DEF LoopsMean
<1>4. PICK m \in Nat : m = rSize
  BY DEF LoopsMean
<1>5. PICK s \in Seq(FrameValues) :
         /\ ring \in [Channels -> Seq(FrameValues)] /\ DOMAIN block = Channels
         /\ ring[r] = s
         /\ Len(s) < m /\ Len(s) <= RingCapacity
         /\ \A c \in Channels :
               IF c < r THEN block[c] = Filled(s, m) /\ ring[c] = <<>> ELSE ring[c] = s
  <2>1. CASE underrun
    <3>1. Starved
      BY <2>1 DEF Aligned
    <3>2. ~(r < r)
      BY <1>2, SMT
    <3> QED BY <1>1, <1>4, <3>1, <3>2 DEF Starved
  <2>2. CASE ~underrun
    <3>1. Shape /\ Agreeing
      BY <2>2 DEF Aligned
    <3>2. PICK s \in Seq(FrameValues), n \in Nat : s = ring[r] /\ n = Len(s)
      BY <3>1, PartsFacts, LenProperties
    <3>3. n < m
      <4>1. Smaller(m, n) < m
        BY <1>1, <1>4, <2>2, <3>2 DEF ReadChannel
      <4> QED BY <1>4, <3>2, <4>1, SMT DEF Smaller
    <3>4. ASSUME NEW c \in Channels PROVE Whole(c) = block[c] \o ring[c]
      <4>1. PICK y \in Seq(FrameValues) : y = ring[c]
        BY <3>1, PartsFacts
      <4>2. Coming(c) = <<>>
        BY <1>3 DEF Coming
      <4> QED BY <4>1, <4>2, ConcatEmptySeq DEF Whole
    <3>5. ASSUME NEW c \in Channels, ~(c < r) PROVE Whole(c) = ring[c]
      <4>1. PICK y \in Seq(FrameValues) : y = ring[c]
        BY <3>1, PartsFacts
      <4>2. block[c] = <<>>
        BY <1>1, <3>1, <3>5, NothingTaken
      <4>3. <<>> \o y = y
        BY <4>1, ConcatEmptySeq
      <4> QED BY <3>4, <4>1, <4>2, <4>3
    <3>6. ~(r < r)
      BY <1>2, SMT
    <3>7. ASSUME NEW c \in Channels PROVE ~(c < r) /\ ring[c] = s
      <4>1. Whole(c) = Whole(r) /\ Whole(r) = s
        BY <1>3, <3>1, <3>2, <3>5, <3>6 DEF Agreeing
      <4>2. ASSUME c < r PROVE FALSE
        <5>1. PICK x \in Seq(FrameValues), y \in Seq(FrameValues) :
                 x = block[c] /\ y = ring[c] /\ Len(x) = m
          BY <1>1, <1>4, <3>1, <4>2, PartsFacts DEF Shape
        <5>2. x \o y = s
          BY <3>4, <4>1, <5>1
        <5>3. Len(x \o y) = Len(x) + Len(y) /\ Len(y) \in Nat
          BY ConcatProperties, LenProperties
        <5>4. PICK k \in Nat : k = Len(y) /\ n = m + k
          BY <3>2, <5>1, <5>2, <5>3
        <5> QED BY <1>4, <3>2, <3>3, <5>4, SMT
      <4> QED BY <3>5, <4>1, <4>2
    <3> QED BY <3>1, <3>2, <3>3, <3>7 DEF Shape
  <2> QED BY <2>1, <2>2
<1>6. PICK n \in Nat : n = Len(s) /\ n < m
  BY <1>5, LenProperties
<1>7. Smaller(rSize, Len(ring[r])) = n
  <2>1. Smaller(m, n) = n
    BY <1>4, <1>6, SMT DEF Smaller
  <2> QED BY <1>4, <1>5, <1>6, <2>1
<1>8. SubSeq(s, 1, n) = s /\ SubSeq(s, n + 1, n) = <<>>
  BY <1>6, TakeAll
<1>9. /\ block' = [block EXCEPT ![r] = Filled(s, m)]
      /\ ring' = [ring EXCEPT ![r] = <<>>]
      /\ rChannel' = r + 1 /\ rSize' = m /\ wChannel' = 0
  BY <1>1, <1>3, <1>4, <1>5, <1>6, <1>7, <1>8 DEF ReadChannel, frameWriterVars
<1>10. /\ ring' \in [Channels -> Seq(FrameValues)] /\ DOMAIN block' = Channels
       /\ ring'[r] = <<>> /\ block'[r] = Filled(s, m)
       /\ \A c \in Channels : c # r => ring'[c] = ring[c] /\ block'[c] = block[c]
  <2>1. <<>> \in Seq(FrameValues)
    BY EmptySeq
  <2> QED BY <1>5, <1>9, <2>1
<1>11. ASSUME NEW c \in Channels
       PROVE  IF c < r + 1 THEN block'[c] = Filled(s, m) /\ ring'[c] = <<>> ELSE ring'[c] = s
  <2>1. CASE c = r
    <3>1. r < r + 1
      BY <1>2, SMT
    <3> QED BY <1>10, <2>1, <3>1
  <2>2. CASE c # r
    <3>1. c < r + 1 <=> c < r
      BY <1>2, <2>2, ChannelFacts, SMT
    <3> QED BY <1>5, <1>10, <2>2, <3>1
  <2> QED BY <2>1, <2>2
<1> QED BY <1>2, <1>5, <1>9, <1>10, <1>11 DEF Starved, Channels, Filled

\* What is taken from a ring in full leaves the channel whole; a short read is
\* an underrun.
LEMMA ReadChannelFrames ==
    ASSUME FrameInv, ReadChannel
    PROVE  FrameInv'
<1>1. PICK r \in Channels : r = rChannel
  BY DEF ReadChannel
<1>2. r \in Nat /\ 1 <= r /\ r <= ChannelCount /\ ChannelCount \in Nat
  BY ChannelFacts, FrameSizes
<1>3. PICK count : count = Smaller(rSize, Len(ring[r]))
  OBVIOUS
<1>4. /\ block' = [block EXCEPT ![r] = Filled(SubSeq(ring[r], 1, count), rSize)]
      /\ ring' = [ring EXCEPT ![r] = SubSeq(ring[r], count + 1, Len(ring[r]))]
      /\ underrun' = (underrun \/ count < rSize)
      /\ rChannel' = r + 1
      /\ UNCHANGED <<nextFrame, wChannel, wSize, overrun, rSize, deliveredBlock, counted,
                      overlapped, excused>>
  BY <1>1, <1>3 DEF ReadChannel, frameWriterVars
<1>5. LoopsMean'
  <2>1. r + 1 \in 0 .. ChannelCount + 1 /\ r + 1 # 0
    BY <1>2, SMT
  <2>2. underrun' \in BOOLEAN
    BY <1>4 DEF FrameInv, LoopsMean
  <2>3. rChannel # 0
    BY <1>1, <1>2, SMT
  <2>4. rChannel' # 0 /\ wChannel' # 0 => overlapped'
    BY <1>4, <2>3 DEF FrameInv, LoopsMean
  <2> QED BY <1>4, <2>1, <2>2, <2>4, Zenon DEF FrameInv, LoopsMean
<1>6. SkewIsExplained'
  BY <1>4, SkewKept DEF FrameInv
<1>7. CASE counted \/ excused \/ (underrun' /\ overlapped)
  BY <1>4, <1>5, <1>6, <1>7 DEF FrameInv, Aligned
<1>8. CASE ~(counted \/ excused) /\ underrun' /\ ~overlapped
  <2>1. Starved'
    BY <1>1, <1>8, ReadShort DEF FrameInv
  <2> QED BY <1>5, <1>6, <1>8, <2>1 DEF FrameInv, Aligned
<1>9. CASE ~(counted \/ excused \/ underrun')
  <2>1. Shape /\ Agreeing /\ ~(count < rSize)
    BY <1>4, <1>9 DEF FrameInv, Aligned
  <2>2. PICK y \in Seq(FrameValues) : y = ring[r]
    BY <2>1, PartsFacts DEF FrameInv
  <2>3. PICK n \in Nat, m \in Nat : n = Len(y) /\ m = rSize
    BY LenProperties DEF FrameInv, LoopsMean
  <2>4. count = m /\ m <= n
    <3>1. count = Smaller(m, n) /\ ~(count < m)
      BY <1>3, <2>1, <2>2, <2>3
    <3> QED BY <2>3, <3>1, SMT DEF Smaller
  <2>5. n <= RingCapacity
    BY <2>1, <2>2, <2>3 DEF Shape
  <2>6. PICK front \in Seq(FrameValues), back \in Seq(FrameValues) :
           /\ front = SubSeq(y, 1, m) /\ back = SubSeq(y, m + 1, n)
           /\ Len(front) = m /\ Len(back) = n - m
    <3>1. SubSeq(y, 1, m) \in Seq(FrameValues) /\ Len(SubSeq(y, 1, m)) = m
      BY <2>3, <2>4, SMT
    <3>2. SubSeq(y, m + 1, n) \in Seq(FrameValues) /\ Len(SubSeq(y, m + 1, n)) = n - m
      BY <2>3, <2>4, SMT
    <3> QED BY <3>1, <3>2
  <2>7. front \o back = y
    <3>1. 1 \in 1 .. Len(y) + 1 /\ m \in 1 - 1 .. Len(y) /\ n \in m .. Len(y)
      BY <2>3, <2>4, SMT
    <3>2. SubSeq(y, 1, m) \o SubSeq(y, m + 1, n) = SubSeq(y, 1, n)
      BY <3>1, ConcatAdjacentSubSeq
    <3>3. SubSeq(y, 1, n) = y
      BY <2>3, SubSeqFull
    <3> QED BY <2>6, <3>2, <3>3
  <2>8. Filled(front, m) = front
    <3>1. m - Len(front) = 0 /\ 1 .. 0 = {}
      BY <2>3, <2>6, SMT
    <3>2. [i \in 1 .. 0 |-> Silence] = <<>>
      BY <3>1
    <3>3. front \o <<>> = front
      BY <2>6, ConcatEmptySeq
    <3> QED BY <3>1, <3>2, <3>3 DEF Filled
  <2>9. /\ block' = [block EXCEPT ![r] = front]
        /\ ring' = [ring EXCEPT ![r] = back]
    BY <1>4, <2>2, <2>3, <2>4, <2>6, <2>8
  <2>10. /\ ring \in [Channels -> Seq(FrameValues)]
         /\ block \in [Channels -> Seq(FrameValues)]
    BY <2>1 DEF Shape
  <2>11. Shape'
    <3>1. /\ ring' \in [Channels -> Seq(FrameValues)]
          /\ block' \in [Channels -> Seq(FrameValues)]
      BY <2>9, <2>10
    <3>2. ASSUME NEW c \in Channels
          PROVE  /\ Len(ring'[c]) <= RingCapacity
                 /\ Len(block'[c]) = IF c < r + 1 THEN m ELSE 0
      <4>1. CASE c = r
        <5>1. n - m <= RingCapacity /\ r < r + 1
          BY <1>2, <2>3, <2>4, <2>5, FrameSizes, SMT
        <5> QED BY <2>6, <2>9, <2>10, <4>1, <5>1
      <4>2. CASE c # r
        <5>1. c < r + 1 <=> c < r
          BY <1>2, <4>2, ChannelFacts, SMT
        <5> QED BY <1>1, <2>1, <2>3, <2>9, <2>10, <4>2, <5>1 DEF Shape
      <4> QED BY <4>1, <4>2
    <3> QED BY <1>4, <2>3, <3>1, <3>2 DEF Shape, Channels
  <2>12. ASSUME NEW c \in Channels PROVE Whole(c)' = Whole(c)
    <3>1. Coming(c)' = Coming(c)
      BY <1>4 DEF Coming
    <3>2. CASE c # r
      BY <2>9, <2>10, <3>1, <3>2 DEF Whole
    <3>3. CASE c = r
      <4>1. PICK z \in Seq(FrameValues) : z = Coming(c)
        BY <2>1, PartsFacts DEF FrameInv
      <4>2. block[c] = <<>>
        <5>1. ~(c < rChannel)
          BY <1>1, <1>2, <3>3, SMT
        <5> QED BY <2>1, <5>1, NothingTaken
      <4>3. Whole(c)' = front \o (back \o z)
        BY <2>9, <2>10, <3>1, <3>3, <4>1 DEF Whole
      <4>4. (front \o back) \o z = front \o (back \o z)
        BY ConcatAssociative, SMTT(30)
      <4>5. Whole(c) = <<>> \o (y \o z)
        BY <2>2, <3>3, <4>1, <4>2 DEF Whole
      <4>6. y \o z \in Seq(FrameValues)
        BY ConcatProperties
      <4>7. <<>> \o (y \o z) = y \o z
        BY <4>6, ConcatEmptySeq
      <4> QED BY <2>7, <4>3, <4>4, <4>5, <4>7
    <3> QED BY <3>2, <3>3
  <2>13. Agreeing'
    BY <1>4, <2>1, <2>12, WholesKept
  <2> QED BY <1>5, <1>6, <1>9, <2>11, <2>13 DEF FrameInv, Aligned
<1> QED BY <1>7, <1>8, <1>9

\* A block that was taken from every channel is of the same frames in each, and
\* so is what is left.
LEMMA TakenTogether ==
    ASSUME LoopsMean, Shape, Agreeing, rChannel = ChannelCount + 1,
           NEW c \in Channels, NEW d \in Channels
    PROVE  /\ block[c] = block[d]
           /\ Agree(ring[c] \o Coming(c), ring[d] \o Coming(d))
           /\ ~overrun => ring[c] \o Coming(c) = ring[d] \o Coming(d)
<1>1. PICK s1 \in Seq(FrameValues), s2 \in Seq(FrameValues),
           t1 \in Seq(FrameValues), t2 \in Seq(FrameValues) :
         /\ s1 = block[c] /\ s2 = block[d]
         /\ t1 = ring[c] \o Coming(c) /\ t2 = ring[d] \o Coming(d)
  BY PartsFacts
<1>2. Len(s1) = Len(s2)
  <2>1. c < rChannel /\ d < rChannel
    BY ChannelFacts, FrameSizes, SMT
  <2> QED BY <1>1, <2>1 DEF Shape
<1>3. Agree(s1 \o t1, s2 \o t2) /\ (~overrun => s1 \o t1 = s2 \o t2)
  BY <1>1 DEF Agreeing, Whole
<1>4. s1 = s2 /\ Agree(t1, t2)
  BY <1>2, <1>3, DropFront
<1>5. s1 \o t1 = s1 \o t2 => t1 = t2
  BY ConcatSimplifications
<1> QED BY <1>1, <1>3, <1>4, <1>5

\* A read that ran short in every channel alike gives channels that are alike and
\* leaves rings that are empty.
LEMMA StarvedEnds ==
    ASSUME LoopsMean', Starved, ReadEnd, rChannel = ChannelCount + 1
    PROVE  FrameInv'
<1>1. /\ wChannel' = 0 /\ rChannel' = 0 /\ underrun' = FALSE /\ block' = NoBlock
      /\ ring' = ring /\ deliveredBlock' = block
  BY DEF ReadEnd, Delivered, frameWriterVars, Starved
<1>2. ASSUME NEW c \in Channels PROVE c < rChannel /\ ~(c < 0) /\ ~(c < rChannel')
  BY <1>1, ChannelFacts, FrameSizes, SMT
<1>3. \A c \in Channels : ring[c] = <<>>
  BY <1>2 DEF Starved
<1>4. \A c, d \in Channels : block[c] = block[d]
  BY <1>2 DEF Starved
<1>5. <<>> \in Seq(FrameValues) /\ Len(<<>>) = 0 /\ 0 <= RingCapacity
  BY EmptySeq, FrameSizes, SMT
<1>6. Shape'
  <2>1. block' \in [Channels -> Seq(FrameValues)]
    BY <1>1, <1>5 DEF NoBlock
  <2>2. ring \in [Channels -> Seq(FrameValues)]
    BY DEF Starved
  <2>3. \A c \in Channels : block'[c] = <<>>
    BY <1>1 DEF NoBlock
  <2> QED BY <1>1, <1>2, <1>3, <1>5, <2>1, <2>2, <2>3 DEF Shape, Channels
<1>7. Agreeing'
  <2>1. ASSUME NEW c \in Channels, NEW d \in Channels PROVE Whole(c)' = Whole(d)'
    BY <1>1, <1>3 DEF Whole, Coming, NoBlock
  <2> QED BY <2>1, EqualAgrees DEF Agreeing, Agree, Channels
<1>8. SkewIsExplained'
  BY <1>1, <1>4 DEF SkewIsExplained, FramesTogether, Channels
<1> QED BY <1>1, <1>6, <1>7, <1>8 DEF FrameInv, Aligned

\* A reader that ends, or is killed, has taken a block from every channel or
\* from none; an underrun beside a write becomes a count or a cause that no counter
\* shows.
LEMMA ReaderDoneFrames ==
    ASSUME FrameInv, ReadEnd \/ KillReader
    PROVE  FrameInv'
<1>1. /\ rChannel' = 0 /\ rSize' = 0 /\ underrun' = FALSE /\ block' = NoBlock
      /\ overlapped' = FALSE /\ counted' \in BOOLEAN /\ excused' \in BOOLEAN
      /\ (counted => counted') /\ (excused => excused')
      /\ (underrun /\ overlapped => counted' \/ excused')
      /\ UNCHANGED <<ring, nextFrame, wChannel, wSize, overrun>>
  BY DEF ReadEnd, Delivered, KillReader, frameWriterVars, FrameInv, LoopsMean
<1>2. LoopsMean'
  <2>1. 0 \in 0 .. ChannelCount + 1
    BY FrameSizes, SMT
  <2> QED BY <1>1, <2>1, Zenon DEF FrameInv, LoopsMean
<1>3. CASE counted' \/ excused'
  BY <1>1, <1>2, <1>3 DEF FrameInv, Aligned, SkewIsExplained
<1>4. CASE ~(counted' \/ excused') /\ underrun
  <2>1. ReadEnd /\ Starved /\ rChannel = ChannelCount + 1
    BY <1>1, <1>4 DEF FrameInv, Aligned, ReadEnd, Delivered, KillReader
  <2> QED BY <1>1, <1>2, <2>1, StarvedEnds
<1>5. CASE ~(counted' \/ excused') /\ ~underrun
  <2>1. Shape /\ Agreeing
    BY <1>1, <1>5 DEF FrameInv, Aligned
  <2>2. rChannel = ChannelCount + 1 \/ (rChannel = 1 /\ KillReader)
    <3>1. CASE ReadEnd
      BY <3>1 DEF ReadEnd, Delivered
    <3>2. CASE KillReader
      <4>1. rChannel # 0 /\ ~(rChannel \in 2 .. ChannelCount) /\ rChannel \in 0 .. ChannelCount + 1
        BY <1>5, <3>2 DEF KillReader, FrameInv, LoopsMean
      <4> QED BY <3>2, <4>1, FrameSizes, SMT
    <3> QED BY <3>1, <3>2
  <2>3. <<>> \in Seq(FrameValues) /\ Len(<<>>) = 0
    BY EmptySeq
  <2>4. ASSUME NEW c \in Channels PROVE block'[c] = <<>> /\ ~(c < 0)
    BY <1>1, ChannelFacts DEF NoBlock
  <2>5. Shape'
    <3>1. block' \in [Channels -> Seq(FrameValues)]
      BY <1>1, <2>3 DEF NoBlock
    <3> QED BY <1>1, <2>1, <2>3, <2>4, <3>1 DEF Shape, Channels
  <2>6. ASSUME NEW c \in Channels PROVE Whole(c)' = ring[c] \o Coming(c)
    <3>1. PICK z \in Seq(FrameValues) : z = ring[c] \o Coming(c)
      BY <2>1, PartsFacts DEF FrameInv
    <3>2. Whole(c)' = <<>> \o z
      BY <1>1, <2>4, <3>1 DEF Whole, Coming
    <3> QED BY <3>1, <3>2, ConcatEmptySeq
  <2>7. CASE rChannel = ChannelCount + 1
    <3>1. Agreeing'
      <4>1. ASSUME NEW c \in Channels, NEW d \in Channels
            PROVE  Agree(Whole(c)', Whole(d)') /\ (~overrun' => Whole(c)' = Whole(d)')
        <5>1. /\ Agree(ring[c] \o Coming(c), ring[d] \o Coming(d))
              /\ ~overrun => ring[c] \o Coming(c) = ring[d] \o Coming(d)
          BY <2>1, <2>7, TakenTogether DEF FrameInv
        <5> QED BY <1>1, <2>6, <5>1
      <4> QED BY <4>1 DEF Agreeing, Agree, Channels
    <3>2. \A c, d \in Channels : block[c] = block[d]
      BY <2>1, <2>7, TakenTogether DEF FrameInv
    <3>3. SkewIsExplained'
      <4>1. CASE ReadEnd
        <5>1. deliveredBlock' = block
          BY <4>1 DEF ReadEnd, Delivered
        <5> QED BY <3>2, <5>1 DEF SkewIsExplained, FramesTogether, Channels
      <4>2. CASE KillReader
        <5>1. UNCHANGED deliveredBlock
          BY <4>2 DEF KillReader
        <5> QED BY <1>1, <5>1, SkewKept DEF FrameInv
      <4> QED BY <4>1, <4>2
    <3> QED BY <1>1, <1>2, <2>5, <3>1, <3>3 DEF FrameInv, Aligned
  <2>8. CASE rChannel = 1 /\ KillReader
    <3>1. SkewIsExplained'
      <4>1. UNCHANGED deliveredBlock
        BY <2>8 DEF KillReader
      <4> QED BY <1>1, <4>1, SkewKept DEF FrameInv
    <3>2. ASSUME NEW c \in Channels PROVE Whole(c)' = Whole(c)
      <4>1. PICK z \in Seq(FrameValues) : z = ring[c] \o Coming(c)
        BY <2>1, PartsFacts DEF FrameInv
      <4>2. ~(c < rChannel)
        BY <2>8, ChannelFacts, SMT
      <4>3. Whole(c) = <<>> \o z
        BY <2>1, <4>1, <4>2, NothingTaken DEF Whole
      <4> QED BY <2>6, <4>1, <4>3, ConcatEmptySeq
    <3>3. Agreeing'
      BY <1>1, <2>1, <3>2, WholesKept
    <3> QED BY <1>1, <1>2, <2>5, <3>1, <3>3 DEF FrameInv, Aligned
  <2> QED BY <2>2, <2>7, <2>8
<1> QED BY <1>3, <1>4, <1>5

\* All rings start empty and nobody is in a loop.
LEMMA InitFrames ==
    ASSUME FrameInit
    PROVE  FrameInv
<1>1. LoopsMean
  <2>1. 0 \in 0 .. ChannelCount + 1 /\ 0 \in Nat
    BY FrameSizes, SMT
  <2> QED BY <2>1, Zenon DEF LoopsMean, FrameInit
<1>2. <<>> \in Seq(FrameValues) /\ Len(<<>>) = 0 /\ 0 <= RingCapacity
  BY EmptySeq, FrameSizes
<1>3. ASSUME NEW c \in Channels
      PROVE  ring[c] = <<>> /\ block[c] = <<>> /\ Coming(c) = <<>> /\ ~(c < rChannel)
  BY ChannelFacts DEF FrameInit, NoBlock, Coming
<1>4. Shape
  <2>1. /\ ring \in [Channels -> Seq(FrameValues)]
        /\ block \in [Channels -> Seq(FrameValues)]
    BY <1>2 DEF FrameInit, NoBlock
  <2> QED BY <1>2, <1>3, <2>1 DEF Shape
<1>5. Agreeing
  <2>1. ASSUME NEW c \in Channels, NEW d \in Channels
        PROVE  Whole(c) = Whole(d)
    BY <1>3 DEF Whole
  <2> QED BY <2>1, EqualAgrees DEF Agreeing
<1>6. SkewIsExplained
  BY DEF FrameInit, NoBlock, SkewIsExplained, FramesTogether
<1> QED BY <1>1, <1>4, <1>5, <1>6 DEF FrameInv, Aligned, FrameInit

\* What the driver does with its flag, and a new engine with the counters, leaves
\* the frames where they are; a count that is lost becomes an excuse.
LEMMA FlagFrames ==
    ASSUME FrameInv, counted' \in BOOLEAN, excused' \in BOOLEAN,
           counted \/ excused => counted' \/ excused',
           UNCHANGED <<ring, nextFrame, wChannel, wSize, overrun, rChannel, rSize, underrun,
                       block, deliveredBlock, overlapped>>
    PROVE  FrameInv'
<1>1. LoopsMean'
  BY Zenon DEF FrameInv, LoopsMean
<1>2. SkewIsExplained'
  BY DEF FrameInv, SkewIsExplained, FramesTogether
<1>3. CASE counted \/ excused \/ (underrun /\ overlapped)
  BY <1>1, <1>2, <1>3 DEF FrameInv, Aligned
<1>4. CASE Shape /\ Agreeing /\ ~underrun
  <2>1. Shape'
    BY <1>4 DEF Shape, Channels
  <2>2. \A c \in Channels : Whole(c)' = Whole(c)
    BY DEF Whole, Coming
  <2>3. Agreeing'
    BY <1>4, <2>2, WholesKept
  <2> QED BY <1>1, <1>2, <1>4, <2>1, <2>3 DEF FrameInv, Aligned
<1>5. CASE underrun /\ Starved
  <2>1. Starved'
    BY <1>5 DEF Starved, Channels, Filled
  <2> QED BY <1>1, <1>2, <1>5, <2>1 DEF FrameInv, Aligned
<1> QED BY <1>3, <1>4, <1>5 DEF FrameInv, Aligned

LEMMA OtherFrames ==
    ASSUME FrameInv, DriverFlag \/ NewEngine \/ UNCHANGED frameVars
    PROVE  FrameInv'
<1>1. /\ counted' \in BOOLEAN /\ excused' \in BOOLEAN
      /\ counted \/ excused => counted' \/ excused'
      /\ UNCHANGED <<ring, nextFrame, wChannel, wSize, overrun, rChannel, rSize, underrun,
                     block, deliveredBlock, overlapped>>
  BY DEF DriverFlag, NewEngine, frameVars, frameWriterVars, frameReaderVars, FrameInv, LoopsMean
<1> QED BY <1>1, FlagFrames

\* For any number of channels, any ring capacity and any block lengths, a
\* delivered block whose channels are not of the same frames goes back to an
\* underrun or overrun that a counter shows, or to one of the three causes that
\* none does: a process killed inside a block, a short read beside a write that
\* ended with ioRunning clear, or a new engine that set the counter to 0.
THEOREM SkewHasCause == FrameSpec => []SkewIsExplained
<1>1. FrameInit => FrameInv
  BY InitFrames
<1>2. FrameInv /\ [FrameNext]_frameVars => FrameInv'
  BY WriteStartFrames, WriteChannelFrames, WriterDoneFrames, ReadStartFrames,
     ReadChannelFrames, ReaderDoneFrames, OtherFrames, Zenon
     DEF FrameNext, FrameWriter, FrameReader
<1>3. FrameInv => SkewIsExplained
  BY DEF FrameInv
<1> QED BY <1>1, <1>2, <1>3, PTL DEF FrameSpec

----------------------------------------------------------------------------
(* The packets between two engines: numbers.                               *)

LEMMA PacketConstants ==
    /\ FrameCount \in Nat /\ FrameCount > 0 /\ Full \in Nat /\ Full > 0
    /\ Grid \in Nat /\ Grid > 0 /\ Second \in Nat /\ Second > 0
    /\ Rate \in Nat /\ Rate > 0 /\ StampRange \in Nat /\ StampRange > 0
    /\ \A w \in Widths : w \in Nat /\ w > 0
    /\ \A o \in Offsets : o \in Int
    /\ \A k \in Levels : k \in Int
    /\ {MaxSlots, MaxCsrc, MaxWords, MaxSize} \subseteq Nat
    /\ (Second * FrameCount) % Rate = 0
  BY PacketAssumption DEF PacketAssumption

\* Products of natural numbers.
LEMMA ProductIsNat ==
    ASSUME NEW a \in Nat, NEW b \in Nat
    PROVE  a * b \in Nat
  OBVIOUS

\* Products of integers.
LEMMA ProductIsInt ==
    ASSUME NEW a \in Int, NEW b \in Int
    PROVE  a * b \in Int
  OBVIOUS

\* A difference of natural numbers.
LEMMA Gap ==
    ASSUME NEW a \in Nat, NEW b \in Nat, b > a
    PROVE  b - a \in Nat /\ b = a + (b - a)
  OBVIOUS

\* Equal multiples of a positive number are of equal numbers.
LEMMA Cancel ==
    ASSUME NEW m \in Nat, m > 0, NEW p \in Nat, NEW q \in Nat, m * p = m * q
    PROVE  p = q
<1>1. CASE p < q
  <2>1. PICK d \in Nat : q = p + 1 + d
    BY <1>1
  <2>2. m * q = m * p + m + m * d
    BY <2>1
  <2>3. m * d \in Nat /\ m * p \in Nat
    BY ProductIsNat
  <2> QED BY <2>2, <2>3
<1>2. CASE q < p
  <2>1. PICK d \in Nat : p = q + 1 + d
    BY <1>2
  <2>2. m * p = m * q + m + m * d
    BY <2>1
  <2>3. m * d \in Nat /\ m * q \in Nat
    BY ProductIsNat
  <2> QED BY <2>2, <2>3
<1> QED BY <1>1, <1>2

\* A quotient is unique, as its remainder is.
LEMMA DivUnique ==
    ASSUME NEW m \in Nat, m > 0, NEW a \in Nat,
           NEW q \in Nat, NEW r \in 0 .. m - 1, a = m * q + r
    PROVE  a \div m = q
<1>1. PICK p \in Nat : p = a \div m /\ a = m * p + (a % m)
  BY ModEuclid
<1>2. a % m = r
  BY ModUnique
<1>3. PICK x \in Nat, y \in Nat : x = m * p /\ y = m * q
  BY ProductIsNat
<1>4. x = y
  BY <1>1, <1>2, <1>3
<1> QED BY <1>1, <1>3, <1>4, Cancel

----------------------------------------------------------------------------
(* The timestamps of the packets sent.                                     *)

\* Whole seconds and the rest of one counted apart, as
\* rtpTimestampForNanoseconds does so that its product does not overflow,
\* make as many frames as the time counted at once.
LEMMA FramesUntil ==
    ASSUME NEW t \in Nat
    PROVE  /\ (t \div Second) * Rate + ((t % Second) * Rate) \div Second = (t * Rate) \div Second
           /\ t * Rate \in Nat /\ (t * Rate) \div Second \in Nat
<1>1. PICK q \in Nat, r \in Nat : q = t \div Second /\ r = t % Second /\ t = Second * q + r
  BY PacketConstants, ModEuclid
<1>2. PICK u \in Nat : u = r * Rate
  BY PacketConstants, ProductIsNat
<1>3. PICK v \in Nat, w \in 0 .. Second - 1 : v = u \div Second /\ w = u % Second /\ u = Second * v + w
  BY PacketConstants, ModEuclid
<1>4. PICK s \in Nat, all \in Nat : s = q * Rate /\ all = t * Rate
  BY PacketConstants, ProductIsNat
<1>5. all = Second * s + u
  <2>1. (Second * q + r) * Rate = Second * (q * Rate) + r * Rate
    BY PacketConstants
  <2> QED BY <1>1, <1>2, <1>4, <2>1
<1>6. all = Second * (s + v) + w
  <2>1. Second * (s + v) = Second * s + Second * v
    BY PacketConstants
  <2>2. Second * s \in Nat /\ Second * v \in Nat
    BY PacketConstants, ProductIsNat
  <2> QED BY <1>3, <1>5, <2>1, <2>2
<1>7. all \div Second = s + v
  BY <1>6, PacketConstants, DivUnique
<1>8. (t \div Second) * Rate = s /\ ((t % Second) * Rate) \div Second = v
  BY <1>1, <1>2, <1>3, <1>4, Zenon
<1>9. (t * Rate) \div Second = s + v
  BY <1>4, <1>7, Zenon
<1>10. t * Rate \in Nat /\ s + v \in Nat
  BY <1>4
<1> QED BY <1>8, <1>9, <1>10, Zenon

\* The frames of a packet time, in units of time: nothing is left over.
LEMMA PeriodIsWhole == Period \in Nat /\ Period * Rate = Second * FrameCount
<1>1. PICK all \in Nat : all = Second * FrameCount
  BY PacketConstants, ProductIsNat
<1>2. PICK p \in Nat : p = all \div Rate /\ all = Rate * p + (all % Rate)
  BY PacketConstants, ModEuclid
<1>3. all % Rate = 0
  BY <1>1, PacketConstants
<1>4. Rate * p \in Nat /\ Rate * p = p * Rate
  BY PacketConstants, ProductIsNat
<1> QED BY <1>1, <1>2, <1>3, <1>4 DEF Period

\* A remainder can be taken before or after something is added.
LEMMA ModOfSum ==
    ASSUME NEW m \in Nat, m > 0, NEW a \in Nat, NEW b \in Nat
    PROVE  (a + b) % m = ((a % m) + b) % m
<1>1. PICK q \in Nat, r \in Nat : q = a \div m /\ r = a % m /\ a = m * q + r
  BY ModEuclid
<1>2. PICK s \in Nat : s = r + b
  OBVIOUS
<1>3. q * m = m * q /\ m * q \in Nat
  BY ProductIsNat
<1>4. a + b = s + q * m
  BY <1>1, <1>2, <1>3
<1>5. (s + q * m) % m = s % m
  BY ModMultiple
<1> QED BY <1>1, <1>2, <1>4, <1>5

\* k packet times later the timestamp is the frames of k packets further on.
LEMMA LaterStamp ==
    ASSUME NEW t \in Nat, NEW k \in Nat
    PROVE  rtpTimestamp(t + k * Period) = (rtpTimestamp(t) + k * FrameCount) % StampRange
<1>1. PICK p \in Nat : p = Period /\ p * Rate = Second * FrameCount
  BY PeriodIsWhole
<1>2. PICK time \in Nat, ticks \in Nat, frames \in Nat :
        time = t + ticks /\ ticks = k * p /\ frames = k * FrameCount
  BY <1>1, PacketConstants, ProductIsNat
<1>3. PICK all \in Nat, n \in Nat, r \in 0 .. Second - 1 :
        all = t * Rate /\ n = all \div Second /\ r = all % Second /\ all = Second * n + r
  BY PacketConstants, ProductIsNat, ModEuclid
<1>4. PICK more \in Nat, later \in Nat : more = Second * frames /\ later = time * Rate
  BY PacketConstants, ProductIsNat
<1>5. later = all + more
  <2>1. (t + k * p) * Rate = t * Rate + k * (p * Rate)
    BY PacketConstants
  <2>2. k * (Second * FrameCount) = Second * (k * FrameCount)
    BY PacketConstants
  <2> QED BY <1>1, <1>2, <1>3, <1>4, <2>1, <2>2
<1>6. later = Second * (n + frames) + r
  <2>1. Second * (n + frames) = Second * n + Second * frames
    BY PacketConstants
  <2>2. Second * n \in Nat
    BY PacketConstants, ProductIsNat
  <2> QED BY <1>3, <1>4, <1>5, <2>1, <2>2
<1>7. later \div Second = n + frames
  BY <1>6, PacketConstants, DivUnique
<1>8. rtpTimestamp(time) = (n + frames) % StampRange
  BY <1>4, <1>7, FramesUntil DEF rtpTimestamp
<1>9. rtpTimestamp(t) = n % StampRange
  BY <1>3, FramesUntil DEF rtpTimestamp
<1>10. (n + frames) % StampRange = ((n % StampRange) + frames) % StampRange
  BY PacketConstants, ModOfSum
<1> QED BY <1>1, <1>2, <1>8, <1>9, <1>10

\* The last timestamp is that of the last packet's time and offset.
StampMeans ==
    /\ slot \in Nat /\ offset \in Int
    /\ slot > 0 => stamp = rtpTimestamp(slot * Period - offset)

\* A packet sent later carries the later stamp; a restart forgets all of it.
LEMMA StampKept == StampMeans /\ [PacketNext]_packetVars => StampMeans' /\ KeepsStep
<1> SUFFICES ASSUME StampMeans, [PacketNext]_packetVars
             PROVE  StampMeans' /\ KeepsStep
  OBVIOUS
<1>1. CASE Transmit
  <2>1. /\ slot' \in slot + 1 .. MaxSlots /\ offset' \in Offsets
        /\ stamp' = rtpTimestamp(slot' * Period - offset')
    BY <1>1 DEF Transmit
  <2>2. slot' \in Nat /\ slot' > slot /\ offset' \in Int
    BY <2>1, PacketConstants DEF StampMeans
  <2>3. StampMeans'
    BY <2>1, <2>2 DEF StampMeans
  <2>4. PICK s \in Nat, n \in Nat, o \in Int :
          s = slot /\ slot' = s + n /\ n = slot' - slot /\ o = offset
    <3>1. slot \in Nat /\ offset \in Int
      BY DEF StampMeans
    <3>2. slot' - slot \in Nat /\ slot' = slot + (slot' - slot)
      BY <2>2, <3>1, Gap, Zenon
    <3> QED BY <3>1, <3>2, Zenon
  <2>5. PICK p \in Nat, before \in Nat, more \in Nat :
          p = Period /\ before = s * p /\ more = n * p /\ (s + n) * p = before + more
    BY PeriodIsWhole, ProductIsNat
  <2>6. ASSUME slot > 0, offset' = offset, slot * Period >= offset
        PROVE  stamp' = (stamp + (slot' - slot) * FrameCount) % StampRange
    <3>1. PICK t \in Nat : t = before - o
      BY <2>4, <2>5, <2>6
    <3>2. slot' * Period - offset' = t + n * Period
      BY <2>4, <2>5, <2>6, <3>1
    <3>3. stamp = rtpTimestamp(t)
      BY <2>4, <2>5, <2>6, <3>1 DEF StampMeans
    <3>4. rtpTimestamp(t + n * Period) = (rtpTimestamp(t) + n * FrameCount) % StampRange
      BY LaterStamp
    <3> QED BY <2>1, <2>4, <3>2, <3>3, <3>4, Zenon
  <2> QED BY <2>3, <2>6 DEF KeepsStep
<1>2. CASE Restart
  BY <1>2 DEF Restart, StampMeans, KeepsStep
<1>3. CASE Foreign \/ Receive \/ Forget \/ UNCHANGED packetVars
  <2>1. slot' = slot /\ offset' = offset /\ stamp' = stamp
    BY <1>3 DEF Foreign, Receive, Forget, packetVars
  <2> QED BY <2>1 DEF StampMeans, KeepsStep
<1> QED BY <1>1, <1>2, <1>3 DEF PacketNext

\* For any rate, packet time, width of the counter and offsets, as long as
\* the offset stays, timestamps advance by the frames of a packet for every
\* packet time.
THEOREM StampsKeepPace == PacketSpec => StampsAdvance
<1>1. PacketInit => StampMeans
  BY DEF PacketInit, StampMeans
<1> QED BY <1>1, StampKept, PTL DEF PacketSpec, StampsAdvance

----------------------------------------------------------------------------
(* What is made of a datagram.                                             *)

\* What transmitLoop puts into a datagram.
Made(d) ==
    /\ sent \in Blocks(txWidth)
    /\ d.size = HeaderBytes + PayloadBytes(txWidth) /\ d.csrc = 0
    /\ ~d.padding /\ ~d.extension
    /\ d.payload = Interleaved(sent, txWidth)

\* The fields of a datagram, ours or another sender's.
Fields(d) ==
    /\ d.size \in Nat /\ d.csrc \in Nat /\ d.words \in Nat /\ d.last \in Nat
    /\ d.padding \in BOOLEAN /\ d.extension \in BOOLEAN
    /\ d.ours => Made(d)

\* What receiveLoop and consumeLoop make of it.
Outcome(d) ==
    IF Decodes(d) /\ Expected(d)
      THEN [state |-> "played",
            block |-> IF d.ours THEN Deinterleaved(d.payload, rxWidth) ELSE <<>>]
      ELSE [state |-> "malformed", block |-> <<>>]

\* The inductive invariant of the packets.
PacketInv ==
    /\ txWidth \in Widths /\ rxWidth \in Widths
    /\ datagram = NoDatagram \/ Fields(datagram)
    /\ heard = Nothing \/ (Fields(datagram) /\ heard = Outcome(datagram))

\* A packet of ours has the fields of one.
LEMMA TransmitFields == PacketInv /\ Transmit => PacketInv'
<1> SUFFICES ASSUME PacketInv, Transmit PROVE PacketInv'
  OBVIOUS
<1>1. /\ txWidth' = txWidth /\ rxWidth' = rxWidth /\ heard' = Nothing
      /\ sent' \in Blocks(txWidth)
  BY DEF Transmit
<1>2. /\ datagram'.size = HeaderBytes + PayloadBytes(txWidth)
      /\ datagram'.csrc = 0 /\ datagram'.words = 0 /\ datagram'.last = 0
      /\ datagram'.padding = FALSE /\ datagram'.extension = FALSE
      /\ datagram'.payload = Interleaved(sent', txWidth)
  BY DEF Transmit
<1>3. PayloadBytes(txWidth) \in Nat
  <2>1. PICK w \in Nat : w = txWidth
    BY PacketConstants DEF PacketInv
  <2>2. PICK n \in Nat : n = w * FrameCount
    BY PacketConstants, ProductIsNat
  <2> QED BY <2>1, <2>2 DEF PayloadBytes
<1>4. datagram'.size \in Nat
  BY <1>2, <1>3 DEF HeaderBytes
<1>5. Made(datagram)'
  BY <1>1, <1>2, Zenon DEF Made, Blocks, PayloadBytes, Interleaved
<1>6. Fields(datagram)'
  <2>1. datagram'.csrc \in Nat /\ datagram'.words \in Nat /\ datagram'.last \in Nat
    BY <1>2
  <2>2. datagram'.padding \in BOOLEAN /\ datagram'.extension \in BOOLEAN
    BY <1>2, Zenon
  <2> QED BY <1>4, <1>5, <2>1, <2>2, Zenon DEF Fields
<1> QED BY <1>1, <1>6 DEF PacketInv, Nothing

\* Another sender's datagram has fields, whatever their values.
LEMMA ForeignFields == PacketInv /\ Foreign => PacketInv'
<1> SUFFICES ASSUME PacketInv, Foreign PROVE PacketInv'
  OBVIOUS
<1>1. txWidth' = txWidth /\ rxWidth' = rxWidth /\ heard' = Nothing
  BY DEF Foreign
<1>2. /\ datagram'.size \in Nat /\ datagram'.csrc \in Nat /\ datagram'.words \in Nat
      /\ datagram'.last \in Nat
      /\ datagram'.padding \in BOOLEAN /\ datagram'.extension \in BOOLEAN
      /\ datagram'.ours = FALSE
  BY PacketConstants DEF Foreign
<1>3. Fields(datagram)'
  BY <1>2 DEF Fields
<1> QED BY <1>1, <1>3 DEF PacketInv, Nothing

\* Every step keeps the invariant.
LEMMA PacketStep == PacketInv /\ [PacketNext]_packetVars => PacketInv'
<1> SUFFICES ASSUME PacketInv, [PacketNext]_packetVars PROVE PacketInv'
  OBVIOUS
<1>1. CASE Receive
  <2>1. /\ txWidth' = txWidth /\ rxWidth' = rxWidth /\ sent' = sent /\ datagram' = datagram
        /\ datagram # NoDatagram /\ heard' = Outcome(datagram)
    BY <1>1 DEF Receive, Outcome
  <2>2. Fields(datagram)
    BY <2>1 DEF PacketInv
  <2>3. Fields(datagram)'
    BY <2>1, <2>2, Zenon DEF Fields, Made, Blocks, PayloadBytes, Interleaved
  <2>4. heard' = Outcome(datagram)'
    BY <2>1, Zenon DEF Outcome, Decodes, Expected, Deinterleaved, Padding, PayloadStart,
       PayloadSize, PayloadBytes, Fixed
  <2> QED BY <2>1, <2>3, <2>4, Zenon DEF PacketInv
<1>2. CASE Forget
  BY <1>2 DEF Forget, PacketInv, NoDatagram, Nothing
<1>3. CASE Restart \/ UNCHANGED packetVars
  <2>1. /\ txWidth' = txWidth /\ rxWidth' = rxWidth /\ sent' = sent /\ datagram' = datagram
        /\ heard' = heard
    BY <1>3 DEF Restart, packetVars
  <2>2. Fields(datagram) => Fields(datagram)'
    BY <2>1, Zenon DEF Fields, Made, Blocks, PayloadBytes, Interleaved
  <2>3. Outcome(datagram)' = Outcome(datagram)
    BY <2>1, Zenon DEF Outcome, Decodes, Expected, Deinterleaved, Padding, PayloadStart,
       PayloadSize, PayloadBytes, Fixed
  <2>4. datagram = NoDatagram => datagram' = NoDatagram'
    BY <2>1 DEF NoDatagram
  <2>5. heard = Nothing => heard' = Nothing'
    BY <2>1 DEF Nothing
  <2> QED BY <2>1, <2>2, <2>3, <2>4, <2>5, Zenon DEF PacketInv
<1> QED BY <1>1, <1>2, <1>3, TransmitFields, ForeignFields DEF PacketNext

\* The invariant holds throughout.
LEMMA PacketAlways == PacketSpec => []PacketInv
<1>1. PacketInit => PacketInv
  BY DEF PacketInit, PacketInv
<1> QED BY <1>1, PacketStep, PTL DEF PacketSpec

\* The checks of decode() and receiveLoop, one after the other, let through
\* what has the layout and nothing else.
LEMMA ChecksAreExact ==
    ASSUME NEW d, Fields(d), NEW bytes \in Nat
    PROVE  (Decodes(d) /\ d.type = "configured" /\ PayloadSize(d) = bytes) <=>
             /\ d.version = 2 /\ d.type = "configured"
             /\ \E pad \in 0 .. d.size :
                   /\ d.size = 12 + 4 * d.csrc + (IF d.extension THEN 4 * (d.words + 1) ELSE 0)
                               + bytes + pad
                   /\ IF d.padding THEN pad > 0 /\ pad = d.last ELSE pad = 0
<1>1. PICK size \in Nat, csrc \in Nat, words \in Nat, last \in Nat :
        size = d.size /\ csrc = d.csrc /\ words = d.words /\ last = d.last
  BY DEF Fields
<1>2. PICK start \in Nat, fixed \in Nat :
        /\ fixed = 12 + 4 * csrc
        /\ start = fixed + (IF d.extension THEN 4 * (words + 1) ELSE 0)
  BY DEF Fields
<1>3. Fixed(d) = fixed /\ PayloadStart(d) = start
  BY <1>1, <1>2 DEF Fixed, PayloadStart, HeaderBytes
<1>4. Decodes(d) <=> /\ d.version = 2 /\ start <= size
                     /\ d.padding => last # 0 /\ last <= size - start
  BY <1>1, <1>2, <1>3 DEF Decodes, Padding, HeaderBytes
<1>5. PayloadSize(d) = (IF d.padding THEN size - last ELSE size) - start
  BY <1>1, <1>3 DEF PayloadSize
<1> DEFINE Layout(pad) ==
             /\ d.size = 12 + 4 * d.csrc + (IF d.extension THEN 4 * (d.words + 1) ELSE 0)
                         + bytes + pad
             /\ IF d.padding THEN pad > 0 /\ pad = d.last ELSE pad = 0
<1>6. ASSUME NEW pad \in Nat
      PROVE  Layout(pad) <=> /\ size = start + bytes + pad
                             /\ IF d.padding THEN pad > 0 /\ pad = last ELSE pad = 0
  <2>1. 12 + 4 * d.csrc + (IF d.extension THEN 4 * (d.words + 1) ELSE 0) = start
    BY <1>1, <1>2
  <2> QED BY <1>1, <2>1
<1> HIDE DEF Layout
<1> DEFINE Passes == /\ start <= size
                     /\ d.padding => last # 0 /\ last <= size - start
                     /\ (IF d.padding THEN size - last ELSE size) - start = bytes
<1>7. ASSUME NEW pad \in 0 .. size, Layout(pad) PROVE Passes
  <2>1. /\ size = start + bytes + pad
        /\ IF d.padding THEN pad > 0 /\ pad = last ELSE pad = 0
    BY <1>6, <1>7
  <2>2. CASE d.padding
    BY <2>1, <2>2
  <2>3. CASE ~d.padding
    BY <2>1, <2>3
  <2> QED BY <2>2, <2>3
<1>8. ASSUME Passes PROVE \E pad \in 0 .. size : Layout(pad)
  <2>1. CASE d.padding
    <3>1. size = start + bytes + last /\ last > 0 /\ last \in 0 .. size
      BY <1>8, <2>1
    <3>2. Layout(last)
      BY <1>6, <2>1, <3>1
    <3> QED BY <3>1, <3>2
  <2>2. CASE ~d.padding
    <3>1. size = start + bytes + 0 /\ 0 \in 0 .. size
      BY <1>8, <2>2
    <3>2. Layout(0)
      BY <1>6, <2>2, <3>1
    <3> QED BY <3>1, <3>2
  <2> QED BY <2>1, <2>2
<1>9. (Decodes(d) /\ PayloadSize(d) = bytes) <=> d.version = 2 /\ Passes
  BY <1>4, <1>5
<1>10. Passes <=> \E pad \in 0 .. d.size : Layout(pad)
  BY <1>1, <1>7, <1>8, Zenon
<1> QED BY <1>9, <1>10, Zenon DEF Layout

\* For any numbers of channels and frames and headers of any length, a
\* datagram is played exactly if it has the layout of RTP and the expected
\* payload.
THEOREM DecodingIsExact == PacketSpec => []DecodeExact
<1>1. PacketInv => DecodeExact
  <2> SUFFICES ASSUME PacketInv, heard.state # "nothing" PROVE DecodeExact
    BY DEF DecodeExact
  <2>1. Fields(datagram) /\ heard = Outcome(datagram)
    BY DEF PacketInv, Nothing
  <2>2. heard.state = "played" <=> Decodes(datagram) /\ Expected(datagram)
    BY <2>1 DEF Outcome
  <2>3. PayloadBytes(rxWidth) \in Nat
    <3>1. PICK w \in Nat : w = rxWidth
      BY PacketConstants DEF PacketInv
    <3>2. PICK n \in Nat : n = w * FrameCount
      BY PacketConstants, ProductIsNat
    <3> QED BY <3>1, <3>2 DEF PayloadBytes
  <2> QED BY <2>1, <2>2, <2>3, ChecksAreExact, Zenon DEF DecodeExact, Expected
<1> QED BY <1>1, PacketAlways, PTL

----------------------------------------------------------------------------
(* Samples and words.                                                      *)

\* Division of an integer with a remainder.
LEMMA IntEuclid ==
    ASSUME NEW n \in Int, NEW d \in Nat, d > 0
    PROVE  n \div d \in Int /\ n % d \in 0 .. d - 1 /\ n = (n \div d) * d + (n % d)
  OBVIOUS

\* A multiple of a positive number that is below another one is of a smaller number.
LEMMA BelowMultiple ==
    ASSUME NEW d \in Nat, d > 0, NEW a \in Int, NEW b \in Int, a * d < b * d
    PROVE  a < b
<1> SUFFICES ASSUME b <= a PROVE FALSE
  OBVIOUS
<1>1. PICK k \in Nat : a = b + k
  OBVIOUS
<1>2. PICK x \in Int, y \in Int, z \in Nat : x = a * d /\ y = b * d /\ z = k * d
  BY ProductIsInt, ProductIsNat
<1>3. (b + k) * d = b * d + k * d
  OBVIOUS
<1>4. x = y + z
  BY <1>1, <1>2, <1>3
<1> QED BY <1>2, <1>4

\* lrint is off by half a step at most.
LEMMA NearestIsNear ==
    ASSUME NEW n \in Int, NEW d \in Nat, d > 0
    PROVE  /\ Nearest(n, d) \in Int
           /\ 2 * (Nearest(n, d) * d) <= 2 * n + d /\ 2 * n <= 2 * (Nearest(n, d) * d) + d
<1>1. PICK q \in Int, r \in 0 .. d - 1 : q = n \div d /\ r = n % d /\ n = q * d + r
  BY IntEuclid
<1>2. PICK p \in Int : p = q * d /\ (q + 1) * d = p + d
  BY ProductIsInt
<1>3. Nearest(n, d) = IF 2 * r < d \/ (2 * r = d /\ q % 2 = 0) THEN q ELSE q + 1
  BY <1>1 DEF Nearest
<1>4. CASE 2 * r < d \/ (2 * r = d /\ q % 2 = 0)
  <2>1. Nearest(n, d) = q /\ 2 * r <= d
    BY <1>3, <1>4
  <2> QED BY <1>1, <1>2, <2>1
<1>5. CASE ~(2 * r < d \/ (2 * r = d /\ q % 2 = 0))
  <2>1. Nearest(n, d) = q + 1 /\ 2 * r >= d
    BY <1>3, <1>5
  <2> QED BY <1>1, <1>2, <2>1
<1> QED BY <1>4, <1>5

\* The word of a sample that is not full scale below zero: within half a step,
\* of the sample's sign and in the range of a word.
LEMMA PcmInRange ==
    ASSUME NEW v \in Int, -Grid < v, v <= Grid, NEW pcm, pcm = Nearest(v * Full, Grid)
    PROVE  /\ pcm \in Int /\ -Full <= pcm /\ pcm <= Full
           /\ 0 <= v => 0 <= pcm
           /\ v <= 0 => pcm <= 0
           /\ 2 * (pcm * Grid) <= 2 * (v * Full) + Grid
           /\ 2 * (v * Full) <= 2 * (pcm * Grid) + Grid
<1>1. PICK G \in Nat, F \in Nat : G = Grid /\ F = Full /\ G > 0 /\ F > 0
  BY PacketConstants
<1>2. PICK A \in Int : A = v * F
  BY ProductIsInt
<1>3. pcm \in Int /\ 2 * (pcm * G) <= 2 * A + G /\ 2 * A <= 2 * (pcm * G) + G
  BY <1>1, <1>2, NearestIsNear
<1>4. PICK P \in Int, Q \in Nat : P = pcm * G /\ Q = F * G
  BY <1>3, ProductIsInt, ProductIsNat
<1>5. 2 * P <= 2 * A + G /\ 2 * A <= 2 * P + G
  BY <1>3, <1>4
<1>6. A <= Q /\ -Q <= A /\ (0 <= v => 0 <= A) /\ (v <= 0 => A <= 0)
  <2>1. PICK up \in Nat, down \in Nat : up = G - v /\ down = G + v
    BY <1>1
  <2>2. up * F \in Nat /\ down * F \in Nat /\ up * F = G * F - v * F /\ down * F = G * F + v * F
    BY <2>1, ProductIsNat
  <2>3. G * F = Q
    BY <1>4
  <2>4. 0 <= v => v * F \in Nat
    BY ProductIsNat
  <2>5. v <= 0 => (-v) * F \in Nat /\ (-v) * F = -(v * F)
    BY ProductIsNat
  <2> QED BY <1>2, <2>2, <2>3, <2>4, <2>5
<1>7. pcm <= F
  <2>1. (F + 1) * G = Q + G
    BY <1>4
  <2>2. pcm * G < (F + 1) * G
    BY <1>1, <1>4, <1>5, <1>6, <2>1
  <2>3. pcm < F + 1
    BY <1>1, <1>3, <2>2, BelowMultiple
  <2> QED BY <1>3, <2>3
<1>8. -F <= pcm
  <2>1. (-F - 1) * G = -Q - G
    BY <1>4
  <2>2. (-F - 1) * G < pcm * G
    BY <1>1, <1>4, <1>5, <1>6, <2>1
  <2>3. -F - 1 < pcm
    BY <1>1, <1>3, <2>2, BelowMultiple
  <2> QED BY <1>3, <2>3
<1>9. 0 <= v => 0 <= pcm
  <2> SUFFICES ASSUME 0 <= v PROVE 0 <= pcm
    OBVIOUS
  <2>1. (-1) * G < pcm * G
    BY <1>1, <1>4, <1>5, <1>6
  <2>2. -1 < pcm
    BY <1>1, <1>3, <2>1, BelowMultiple
  <2> QED BY <1>3, <2>2
<1>10. v <= 0 => pcm <= 0
  <2> SUFFICES ASSUME v <= 0 PROVE pcm <= 0
    OBVIOUS
  <2>1. pcm * G < 1 * G
    BY <1>1, <1>4, <1>5, <1>6
  <2>2. pcm < 1
    BY <1>1, <1>3, <2>1, BelowMultiple
  <2> QED BY <1>3, <2>2
<1> QED BY <1>1, <1>2, <1>3, <1>7, <1>8, <1>9, <1>10

\* What decode() makes of the word of a number in range.
LEMMA WordReturns ==
    ASSUME NEW pcm \in Int, -(Full + 1) <= pcm, pcm <= Full
    PROVE  DecodeWord(pcm % (2 * (Full + 1)))
             = IF pcm < 0 THEN <<pcm, Full + 1>> ELSE <<pcm, Full>>
<1>1. PICK F \in Nat, m \in Nat : F = Full /\ m = 2 * (F + 1) /\ m > 0
  BY PacketConstants
<1>2. CASE pcm < 0
  <2>1. PICK w \in Nat : w = pcm + m /\ w > F /\ w < m
    BY <1>1, <1>2
  <2>2. pcm % m = w
    BY <1>1, <2>1
  <2>3. w - m = pcm
    BY <1>1, <2>1
  <2> QED BY <1>1, <1>2, <2>1, <2>2, <2>3 DEF DecodeWord
<1>3. CASE pcm >= 0
  <2>1. pcm % m = pcm
    BY <1>1, <1>3, ModBelow
  <2> QED BY <1>1, <1>3, <2>1 DEF DecodeWord
<1> QED BY <1>2, <1>3

\* A difference bounded in steps of 1 / Grid.
LEMMA StepsScale ==
    ASSUME NEW n \in Int, NEW d \in Nat, NEW k \in Int, NEW x \in Int, x = n * Grid - k * d,
           \/ d = Full + 1 /\ -(3 * Grid) <= 2 * x /\ 2 * x <= 3 * Grid
           \/ d = Full /\ -Grid <= 2 * x /\ 2 * x <= Grid
    PROVE  WithinSteps(n, d, k)
<1>1. PICK G \in Nat, F \in Nat : G = Grid /\ F = Full /\ F > 0
  BY PacketConstants
<1>2. PICK y \in Nat : y = IF x < 0 THEN -x ELSE x
  OBVIOUS
<1>3. WithinSteps(n, d, k) <=> (2 * (F + 1)) * y <= (3 * d) * G
  BY <1>1, <1>2 DEF WithinSteps
<1>4. PICK z \in Nat, u \in Nat : z = (F + 1) * y /\ u = F * G /\ (2 * (F + 1)) * y = 2 * z
  BY ProductIsNat
<1>5. CASE d = Full + 1 /\ -(3 * Grid) <= 2 * x /\ 2 * x <= 3 * Grid
  <2>1. PICK rest \in Nat : rest = 3 * G - 2 * y
    BY <1>1, <1>2, <1>5
  <2>2. (F + 1) * rest \in Nat
    BY ProductIsNat
  <2>3. (F + 1) * (3 * G - 2 * y) = 3 * (F * G) + 3 * G - 2 * ((F + 1) * y)
    OBVIOUS
  <2>4. 2 * z <= 3 * u + 3 * G
    BY <1>4, <2>1, <2>2, <2>3
  <2>5. (3 * (F + 1)) * G = 3 * u + 3 * G
    BY <1>4
  <2> QED BY <1>1, <1>3, <1>4, <1>5, <2>4, <2>5
<1>6. CASE d = Full /\ -Grid <= 2 * x /\ 2 * x <= Grid
  <2>1. PICK rest \in Nat : rest = G - 2 * y
    BY <1>1, <1>2, <1>6
  <2>2. (F + 1) * rest \in Nat
    BY ProductIsNat
  <2>3. (F + 1) * (G - 2 * y) = F * G + G - 2 * ((F + 1) * y)
    OBVIOUS
  <2>4. 2 * z <= u + G
    BY <1>4, <2>1, <2>2, <2>3
  <2>5. G <= u
    <3>1. PICK f \in Nat : F = f + 1
      BY <1>1
    <3>2. (f + 1) * G = f * G + G /\ f * G \in Nat
      BY ProductIsNat
    <3> QED BY <1>4, <3>1, <3>2
  <2>6. (3 * F) * G = 3 * u
    BY <1>4
  <2> QED BY <1>1, <1>3, <1>4, <1>6, <2>4, <2>5, <2>6
<1> QED BY <1>5, <1>6

\* What a number in range, or not a number, sounds like at the other end.
Level(k) == IF k = NaN THEN 0 ELSE Clamped(k)

\* A sample comes back within one and a half steps; silence and full scale
\* come back as they are.
LEMMA SampleReturns ==
    ASSUME NEW k \in Levels \cup {NaN}
    PROVE  /\ WithinSteps(DecodeWord(EncodeSample(k))[1], DecodeWord(EncodeSample(k))[2], Level(k))
           /\ Level(k) \in {-Grid, 0, Grid} =>
                DecodeWord(EncodeSample(k))[1] * Grid = Level(k) * DecodeWord(EncodeSample(k))[2]
<1>1. PICK G \in Nat, F \in Nat : G = Grid /\ F = Full /\ G > 0 /\ F > 0
  BY PacketConstants
<1>2. CASE k = NaN
  <2>1. EncodeSample(k) = 0 /\ Level(k) = 0
    BY <1>2 DEF EncodeSample, Level
  <2>2. DecodeWord(0) = <<0, Full>>
    BY <1>1 DEF DecodeWord
  <2>3. 0 * Grid - 0 * Full = 0 /\ 0 * Grid = 0 * Full
    BY <1>1
  <2>4. WithinSteps(0, Full, 0)
    BY <1>1, <2>3, StepsScale
  <2> QED BY <2>1, <2>2, <2>3, <2>4
<1>3. CASE k # NaN
  <2>1. k \in Int
    BY <1>3, PacketConstants
  <2>2. PICK v \in Int : v = Clamped(k) /\ -G <= v /\ v <= G
    BY <1>1, <2>1 DEF Clamped
  <2>3. Level(k) = v
    BY <1>3, <2>2 DEF Level
  <2>4. PICK pcm : pcm = IF v = -Grid THEN -(Full + 1) ELSE Nearest(v * Full, Grid)
    OBVIOUS
  <2>5. EncodeSample(k) = pcm % (2 * (Full + 1))
    BY <1>3, <2>2, <2>4 DEF EncodeSample
  <2>6. CASE v = -G
    <3>1. pcm = -(F + 1)
      BY <1>1, <2>4, <2>6
    <3>2. DecodeWord(EncodeSample(k)) = <<-(F + 1), F + 1>>
      <4>1. pcm \in Int /\ -(Full + 1) <= pcm /\ pcm <= Full /\ pcm < 0
        BY <1>1, <3>1
      <4>2. DecodeWord(pcm % (2 * (Full + 1))) = <<pcm, Full + 1>>
        BY <4>1, WordReturns
      <4> QED BY <1>1, <2>5, <3>1, <4>2
    <3>3. (-(F + 1)) * G = (-G) * (F + 1) /\ (-(F + 1)) * G - (-G) * (F + 1) = 0
      OBVIOUS
    <3>4. WithinSteps(-(F + 1), F + 1, -G)
      BY <1>1, <3>3, StepsScale
    <3> QED BY <1>1, <2>3, <2>6, <3>2, <3>3, <3>4
  <2>7. CASE v # -G
    <3>1. /\ pcm \in Int /\ -F <= pcm /\ pcm <= F
          /\ (0 <= v => 0 <= pcm) /\ (v <= 0 => pcm <= 0)
          /\ 2 * (pcm * G) <= 2 * (v * F) + G /\ 2 * (v * F) <= 2 * (pcm * G) + G
      <4>1. pcm = Nearest(v * Full, Grid) /\ -Grid < v /\ v <= Grid
        BY <1>1, <2>2, <2>4, <2>7
      <4>2. /\ pcm \in Int /\ -Full <= pcm /\ pcm <= Full
            /\ (0 <= v => 0 <= pcm) /\ (v <= 0 => pcm <= 0)
            /\ 2 * (pcm * Grid) <= 2 * (v * Full) + Grid
            /\ 2 * (v * Full) <= 2 * (pcm * Grid) + Grid
        BY <4>1, PcmInRange
      <4> QED BY <1>1, <4>2
    <3>2. PICK P \in Int, A \in Int, Q \in Nat : P = pcm * G /\ A = v * F /\ Q = F * G
      BY <3>1, ProductIsInt, ProductIsNat
    <3>3. 2 * P <= 2 * A + G /\ 2 * A <= 2 * P + G
      BY <3>1, <3>2
    <3>4. DecodeWord(EncodeSample(k)) = IF pcm < 0 THEN <<pcm, F + 1>> ELSE <<pcm, F>>
      BY <1>1, <2>5, <3>1, WordReturns
    <3>5. CASE pcm < 0
      <4>1. v < 0 /\ v > -G
        BY <2>2, <2>7, <3>1, <3>5
      <4>2. v * (F + 1) = A + v
        BY <3>2
      <4>3. PICK x \in Int : x = P - (A + v)
        OBVIOUS
      <4>4. -(3 * G) <= 2 * x /\ 2 * x <= 3 * G
        BY <3>3, <4>1, <4>3
      <4>5. x = pcm * Grid - v * (F + 1)
        BY <1>1, <3>2, <4>2, <4>3
      <4>6. WithinSteps(pcm, F + 1, v)
        BY <1>1, <3>1, <4>4, <4>5, StepsScale
      <4>7. v \notin {-Grid, 0, Grid}
        BY <1>1, <4>1
      <4> QED BY <2>3, <3>4, <3>5, <4>6, <4>7
    <3>6. CASE pcm >= 0
      <4>1. PICK x \in Int : x = P - A
        OBVIOUS
      <4>2. -G <= 2 * x /\ 2 * x <= G
        BY <3>3, <4>1
      <4>3. x = pcm * Grid - v * F
        BY <1>1, <3>2, <4>1
      <4>4. WithinSteps(pcm, F, v)
        BY <1>1, <3>1, <4>2, <4>3, StepsScale
      <4>5. v = 0 => pcm * G = v * F
        BY <3>1, <3>6
      <4>6. v = G => pcm * G = v * F
        <5> SUFFICES ASSUME v = G PROVE pcm * G = v * F
          OBVIOUS
        <5>1. A = Q
          BY <3>2
        <5>2. (F - 1) * G = Q - G
          BY <3>2
        <5>3. (F - 1) * G < pcm * G
          BY <1>1, <3>2, <3>3, <5>1, <5>2
        <5>4. F - 1 < pcm
          BY <1>1, <3>1, <5>3, BelowMultiple
        <5>5. pcm = F
          BY <3>1, <5>4
        <5> QED BY <5>5
      <4>7. v \in {-Grid, 0, Grid} => pcm * Grid = v * F
        BY <1>1, <2>7, <4>5, <4>6
      <4>8. DecodeWord(EncodeSample(k))[1] = pcm /\ DecodeWord(EncodeSample(k))[2] = F
        BY <3>1, <3>4, <3>6
      <4> QED BY <2>3, <4>4, <4>7, <4>8
    <3> QED BY <3>1, <3>5, <3>6
  <2> QED BY <2>6, <2>7
<1> QED BY <1>2, <1>3

----------------------------------------------------------------------------
(* Frames and channels.                                                    *)

\* The sample of a channel and a frame is where consumeLoop looks for it.
LEMMA InterleavedAt ==
    ASSUME NEW width \in Nat, width > 0, NEW frames,
           NEW c \in 1 .. width, NEW f \in 1 .. FrameCount
    PROVE  Interleaved(frames, width)[(f - 1) * width + c] = EncodeSample(frames[c][f])
<1>1. PICK before \in Nat, ch \in 0 .. width - 1, rest \in Nat, n \in Nat :
        before = f - 1 /\ ch = c - 1 /\ rest = FrameCount - f /\ n = FrameCount
  BY PacketConstants
<1>2. PICK skipped \in Nat, left \in Nat : skipped = before * width /\ left = rest * width
  BY ProductIsNat
<1>3. width * n = skipped + width + left
  <2>1. n = before + 1 + rest
    BY <1>1, PacketConstants
  <2>2. width * (before + 1 + rest) = before * width + width + rest * width
    OBVIOUS
  <2> QED BY <1>2, <2>1, <2>2
<1>4. PICK i \in Nat : i = (f - 1) * width + c /\ i = skipped + c /\ i \in 1 .. width * FrameCount
  BY <1>1, <1>2, <1>3
<1>5. PICK a \in Nat : a = i - 1 /\ a = width * before + ch
  <2>1. width * before = before * width
    OBVIOUS
  <2> QED BY <1>1, <1>2, <1>4, <2>1
<1>6. a % width = ch /\ a \div width = before
  BY <1>5, ModUnique, DivUnique
<1>7. ((i - 1) % width) + 1 = c /\ ((i - 1) \div width) + 1 = f
  BY <1>1, <1>5, <1>6
<1>8. Interleaved(frames, width)[i]
        = EncodeSample(frames[((i - 1) % width) + 1][((i - 1) \div width) + 1])
  BY <1>4 DEF Interleaved
<1> QED BY <1>4, <1>7, <1>8

\* Packets of the expected length are of an engine with as many channels.
LEMMA LengthGivesWidth ==
    ASSUME NEW v \in Nat, NEW w \in Nat, PayloadBytes(v) = PayloadBytes(w)
    PROVE  v = w
<1>1. PICK m \in Nat : m = 3 * FrameCount /\ m > 0
  BY PacketConstants
<1>2. (v * FrameCount) * 3 = m * v /\ (w * FrameCount) * 3 = m * w
  BY <1>1, PacketConstants
<1>3. m * v = m * w
  BY <1>2 DEF PayloadBytes
<1> QED BY <1>1, <1>3, Cancel

\* For any number of channels, frames and levels, what the receiver plays of
\* a packet of ours is, frame by frame and each in its channel, what was sent,
\* within the resolution of a word.
THEOREM FramesDoArrive == PacketSpec => []FramesArrive
<1>1. PacketInv => FramesArrive
  <2> SUFFICES ASSUME PacketInv, heard.state = "played", datagram.ours PROVE FramesArrive
    BY DEF FramesArrive
  <2>1. Fields(datagram) /\ heard = Outcome(datagram)
    BY DEF PacketInv, Nothing
  <2>2. Made(datagram)
    BY <2>1 DEF Fields
  <2>3. Decodes(datagram) /\ Expected(datagram)
    BY <2>1 DEF Outcome
  <2>4. heard.block = Deinterleaved(datagram.payload, rxWidth)
    BY <2>1, <2>3 DEF Outcome
  <2>5. txWidth \in Nat /\ txWidth > 0 /\ rxWidth \in Nat
    BY PacketConstants DEF PacketInv
  <2>6. rxWidth = txWidth
    <3>1. PayloadStart(datagram) = 12
      BY <2>2 DEF Made, PayloadStart, Fixed, HeaderBytes
    <3>2. PICK bytes \in Nat : bytes = PayloadBytes(txWidth)
      <4>1. PICK n \in Nat : n = txWidth * FrameCount
        BY <2>5, PacketConstants, ProductIsNat
      <4> QED BY <4>1 DEF PayloadBytes
    <3>3. PayloadSize(datagram) = bytes
      BY <2>2, <3>1, <3>2 DEF Made, PayloadSize, HeaderBytes
    <3>4. PayloadBytes(rxWidth) = PayloadBytes(txWidth)
      BY <2>3, <3>2, <3>3 DEF Expected
    <3> QED BY <2>5, <3>4, LengthGivesWidth
  <2>7. ASSUME NEW c \in 1 .. txWidth, NEW f \in 1 .. FrameCount
        PROVE  /\ heard.block[c][f] = DecodeWord(EncodeSample(sent[c][f]))
               /\ sent[c][f] \in Levels \cup {NaN}
    <3>1. Interleaved(sent, txWidth)[(f - 1) * txWidth + c] = EncodeSample(sent[c][f])
      BY <2>5, InterleavedAt
    <3>2. heard.block = [ch \in 1 .. txWidth |-> [n \in 1 .. FrameCount |->
                           DecodeWord(Interleaved(sent, txWidth)[(n - 1) * txWidth + ch])]]
      BY <2>2, <2>4, <2>6 DEF Made, Deinterleaved
    <3>3. heard.block[c][f] = DecodeWord(Interleaved(sent, txWidth)[(f - 1) * txWidth + c])
      <4>1. heard.block[c] = [n \in 1 .. FrameCount |->
                               DecodeWord(Interleaved(sent, txWidth)[(n - 1) * txWidth + c])]
        BY <3>2
      <4> QED BY <4>1
    <3>4. sent[c][f] \in Levels \cup {NaN}
      BY <2>2 DEF Made, Blocks
    <3> QED BY <3>1, <3>3, <3>4
  <2>8. ASSUME NEW c \in 1 .. txWidth, NEW f \in 1 .. FrameCount
        PROVE  /\ WithinSteps(heard.block[c][f][1], heard.block[c][f][2], Level(sent[c][f]))
               /\ Level(sent[c][f]) \in {-Grid, 0, Grid} =>
                    heard.block[c][f][1] * Grid = Level(sent[c][f]) * heard.block[c][f][2]
    <3>1. PICK k \in Levels \cup {NaN} : k = sent[c][f] /\ heard.block[c][f] = DecodeWord(EncodeSample(k))
      BY <2>7
    <3>2. /\ WithinSteps(DecodeWord(EncodeSample(k))[1], DecodeWord(EncodeSample(k))[2], Level(k))
          /\ Level(k) \in {-Grid, 0, Grid} =>
               DecodeWord(EncodeSample(k))[1] * Grid = Level(k) * DecodeWord(EncodeSample(k))[2]
      BY SampleReturns
    <3> QED BY <3>1, <3>2, Zenon
  <2> QED BY <2>6, <2>8, Zenon DEF FramesArrive, Level
<1> QED BY <1>1, PacketAlways, PTL
=============================================================================
