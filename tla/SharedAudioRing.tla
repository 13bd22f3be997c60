-------------------------- MODULE SharedAudioRing --------------------------
(***************************************************************************)
(* One channel's ring in the memory that the engine and the audio driver   *)
(* share: SharedAudioRing::write, read and resetWhenIdle, at the           *)
(* granularity of their loads and stores.  The writer and the reader run   *)
(* in different processes without a lock; either process may die between   *)
(* any two steps and be started again, the mapping survives it.            *)
(*                                                                         *)
(* Indices are unsigned 64-bit counters that wrap: they are kept modulo    *)
(* IndexRange (2^64 in the build, a multiple of the capacity 8192), so no  *)
(* bound on the run is needed.  The release store of an index and the      *)
(* acquire load of it by the other side order the sample copies before it; *)
(* the steps below are therefore interleaved sequentially.                 *)
(***************************************************************************)
EXTENDS Naturals, Sequences, SequencesExt

CONSTANTS Capacity,     \* kSharedRingCapacity
          IndexRange,   \* values an index counts through before it wraps
          MaxBlock,     \* longest span passed to write or read
          Samples       \* sample values

ASSUME CapacityAssumption == Capacity \in Nat \ {0}
\* The capacity divides the range of an index and leaves room to tell a full
\* ring from an empty one: 8192 and 2^64 in the build.
ASSUME IndexRangeAssumption ==
    IndexRange \in Nat /\ \E k \in 2 .. IndexRange : IndexRange = k * Capacity
ASSUME MaxBlockAssumption == MaxBlock \in Nat \ {0}
ASSUME SamplesAssumption == Samples # {}

VARIABLES writeIndex, readIndex, samples,
          wPc,     \* writer: "idle", or "copy" inside write()
          wSource, \* the caller's span
          wCount,  \* count: samples of the span that fit
          wDone,   \* i: samples copied so far
          rPc,     \* reader: "idle", or "copy" inside read()
          rCount,  \* count: samples the call will return
          rDone,   \* i: samples copied so far
          rDest,   \* the caller's destination
          delivered \* what the last read that returned gave its caller

writerVars == <<wPc, wSource, wCount, wDone>>
readerVars == <<rPc, rCount, rDone, rDest>>
vars == <<writeIndex, readIndex, samples, writerVars, readerVars, delivered>>

Indices == 0 .. IndexRange - 1
Slot(index) == index % Capacity
Advance(index, n) == (index + n) % IndexRange

\* write - read in unsigned arithmetic
Distance(write, read) == (write + IndexRange - read) % IndexRange

Least(a, b) == IF a <= b THEN a ELSE b

\* Mutant of WriteCount: one sample too many is let in.
WriteCountOffByOne(size, used) == Least(size, Capacity + 1 - Least(used, Capacity))

\* count in write(): what fits when `used` samples are in the ring
WriteCount(size, used) == Least(size, Capacity - Least(used, Capacity))

\* Mutant of ReadCount: the caller gets what it asks for.
ReadCountUnchecked(size, used) == size

\* count in read()
ReadCount(size, used) == Least(size, used)

Init ==
    /\ writeIndex = 0 /\ readIndex = 0
    /\ samples \in [0 .. Capacity - 1 -> Samples]
    /\ wPc = "idle" /\ wSource = <<>> /\ wCount = 0 /\ wDone = 0
    /\ rPc = "idle" /\ rCount = 0 /\ rDone = 0 /\ rDest = <<>>
    /\ delivered = <<>>

----------------------------------------------------------------------------
(* The writer: consumeLoop for networkToCoreAudio, the driver's            *)
(* writeOutput for coreAudioToNetwork.                                     *)

\* Both indices are loaded; only the writer changes writeIndex, so its load
\* and the acquire load of readIndex are one step.
WriteBegin ==
    /\ wPc = "idle"
    /\ \E source \in BoundedSeq(Samples, MaxBlock) :
          /\ wSource' = source
          /\ wCount' = WriteCount(Len(source), Distance(writeIndex, readIndex))
    /\ wDone' = 0
    /\ wPc' = "copy"
    /\ UNCHANGED <<writeIndex, readIndex, samples, readerVars, delivered>>

\* One turn of the copy loop.
WriteCopy ==
    /\ wPc = "copy" /\ wDone < wCount
    /\ samples' = [samples EXCEPT ![Slot(Advance(writeIndex, wDone))] = wSource[wDone + 1]]
    /\ wDone' = wDone + 1
    /\ UNCHANGED <<writeIndex, readIndex, wPc, wSource, wCount, readerVars, delivered>>

\* The release store of writeIndex hands the samples over; write() returns.
WritePublish ==
    /\ wPc = "copy" /\ wDone = wCount
    /\ writeIndex' = Advance(writeIndex, wCount)
    /\ wPc' = "idle" /\ wSource' = <<>> /\ wCount' = 0 /\ wDone' = 0
    /\ UNCHANGED <<readIndex, samples, readerVars, delivered>>

\* The writing process dies inside write() and is started again.
WriterCrash ==
    /\ wPc = "copy"
    /\ wPc' = "idle" /\ wSource' = <<>> /\ wCount' = 0 /\ wDone' = 0
    /\ UNCHANGED <<writeIndex, readIndex, samples, readerVars, delivered>>

----------------------------------------------------------------------------
(* The reader: the driver's OnReadClientInput for networkToCoreAudio,      *)
(* transmitLoop for coreAudioToNetwork.                                    *)

ReadBegin ==
    /\ rPc = "idle"
    /\ \E size \in 0 .. MaxBlock :
          rCount' = ReadCount(size, Distance(writeIndex, readIndex))
    /\ rDone' = 0 /\ rDest' = <<>>
    /\ rPc' = "copy"
    /\ UNCHANGED <<writeIndex, readIndex, samples, writerVars, delivered>>

ReadCopy ==
    /\ rPc = "copy" /\ rDone < rCount
    /\ rDest' = Append(rDest, samples[Slot(Advance(readIndex, rDone))])
    /\ rDone' = rDone + 1
    /\ UNCHANGED <<writeIndex, readIndex, samples, writerVars, rPc, rCount, delivered>>

\* The release store of readIndex frees the slots; read() returns.
ReadPublish ==
    /\ rPc = "copy" /\ rDone = rCount
    /\ readIndex' = Advance(readIndex, rCount)
    /\ delivered' = rDest
    /\ rPc' = "idle" /\ rCount' = 0 /\ rDone' = 0 /\ rDest' = <<>>
    /\ UNCHANGED <<writeIndex, samples, writerVars>>

ReaderCrash ==
    /\ rPc = "copy"
    /\ rPc' = "idle" /\ rCount' = 0 /\ rDone' = 0 /\ rDest' = <<>>
    /\ UNCHANGED <<writeIndex, readIndex, samples, writerVars, delivered>>

----------------------------------------------------------------------------
\* resetWhenIdle(): its caller guarantees that neither side is inside a call.
ResetWhenIdle ==
    /\ wPc = "idle" /\ rPc = "idle"
    /\ readIndex' = 0 /\ writeIndex' = 0
    /\ UNCHANGED <<samples, writerVars, readerVars, delivered>>

Writer == WriteBegin \/ WriteCopy \/ WritePublish
Reader == ReadBegin \/ ReadCopy \/ ReadPublish

Next == Writer \/ WriterCrash \/ Reader \/ ReaderCrash \/ ResetWhenIdle

Spec == Init /\ [][Next]_vars

----------------------------------------------------------------------------
(* Properties.                                                             *)

\* Every variable has its type, and the two copy loops stay within their spans.
TypeOK ==
    /\ writeIndex \in Indices /\ readIndex \in Indices
    /\ samples \in [0 .. Capacity - 1 -> Samples]
    /\ wPc \in {"idle", "copy"} /\ rPc \in {"idle", "copy"}
    /\ wSource \in Seq(Samples) /\ rDest \in Seq(Samples) /\ delivered \in Seq(Samples)
    /\ wCount \in Nat /\ wDone \in 0 .. wCount /\ wCount <= Len(wSource)
    /\ rCount \in Nat /\ rDone \in 0 .. rCount /\ rDone = Len(rDest)
    /\ wPc = "idle" => wCount = 0
    /\ rPc = "idle" => rCount = 0

\* However stale the index each side loaded, the samples a write will publish
\* still fit beside everything unread, and the samples a read will return are
\* all published: writeIndex - readIndex stays within the capacity, also
\* across the wrap of the counters (SharedAudioRing.cpp:9-10 and :19).
Bounded ==
    /\ Distance(writeIndex, readIndex) + wCount <= Capacity
    /\ rCount <= Distance(writeIndex, readIndex)

WriterSlots == {Slot(Advance(writeIndex, i)) : i \in 0 .. wCount - 1}
ReaderSlots == {Slot(Advance(readIndex, i)) : i \in 0 .. rCount - 1}

\* The array elements a write() in progress stores and the ones a read() in
\* progress loads never overlap: `samples` is a plain array, a common element
\* would be a data race and a torn block (SharedAudioRing.cpp:11 and :20).
NoSlotShared == WriterSlots \cap ReaderSlots = {}

\* What either side has copied so far is still what the array holds: a reader
\* preempted in the middle of a block, or a writer that has copied half of one,
\* finds nothing changed under it when it goes on (SharedAudioRing.cpp:11, :20).
CopiesIntact ==
    /\ \A i \in 0 .. wDone - 1 : samples[Slot(Advance(writeIndex, i))] = wSource[i + 1]
    /\ \A i \in 0 .. rDone - 1 : samples[Slot(Advance(readIndex, i))] = rDest[i + 1]

\* What an observer sees as the queue.
Queue == [i \in 1 .. Distance(writeIndex, readIndex) |->
             samples[Slot(Advance(readIndex, i - 1))]]

Fifo == INSTANCE BoundedFifo WITH queue <- Queue

\* Concurrent, interrupted and restarted write() and read() calls look like
\* one-step calls on a bounded FIFO: no sample is lost, duplicated, reordered
\* or half written once its index has been stored, and the block a reader gets
\* is the front of the queue (SharedAudioRing.cpp:6-23).
ImplementsFifo == Fifo!Spec

=============================================================================
