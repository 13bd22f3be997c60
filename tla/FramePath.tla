----------------------------- MODULE FramePath -----------------------------
(***************************************************************************)
(* A block of frames on its way through the channels' rings, in either     *)
(* direction.  Outwards the driver's writeOutput takes a block apart and   *)
(* writes it channel by channel, and transmitLoop reads channel by channel *)
(* and puts a packet together; inwards consumeLoop writes and the driver's *)
(* OnReadClientInput reads.  Nothing but the rings connects the two sides: *)
(* a write that does not fit is cut short, a read that finds too little is *)
(* filled up with silence, each channel for itself.                        *)
(*                                                                         *)
(* The channels are those of one bank or one client's block.  consumeLoop  *)
(* counts a cut-off write channel by channel (LiveEngine.cpp:266), the     *)
(* driver once per block; the model counts when the block ends, the later  *)
(* of the two.                                                             *)
(*                                                                         *)
(* A call on one ring is one step, which SharedAudioRing's ImplementsFifo  *)
(* justifies.  A sample is the number of the frame it belongs to.  Either  *)
(* process may be killed inside its loop and started again, and a new      *)
(* engine sets the counters to 0; the rings keep what they hold.           *)
(*                                                                         *)
(* transmitLoop counts an underrun only if ioRunning is set when its loop  *)
(* ends.  The driver sets and clears that flag at any time, whether a      *)
(* block is being written or not: a client may stop in the middle of one,  *)
(* and a second client's start attaches the block without setting it       *)
(* (LXToolDevice.cpp:54-58).  OnReadClientInput always counts: the inward  *)
(* direction is the behaviours in which the flag stays set.  engineRunning *)
(* is set when a call of the driver begins.                                *)
(***************************************************************************)
EXTENDS Naturals, Sequences

CONSTANTS ChannelCount,  \* channels of the block
          RingCapacity,  \* kSharedRingCapacity
          WriteSizes,    \* frames a writing call may bring
          ReadSizes,     \* frames a reading call may ask for
          MaxFrames,     \* bound: frames the writer is given
          Silence        \* what a short read is filled up with

ASSUME FrameAssumption ==
    /\ ChannelCount \in Nat \ {0} /\ RingCapacity \in Nat \ {0}
    /\ WriteSizes \cup ReadSizes \subseteq Nat \ {0}
    /\ MaxFrames \in Nat /\ Silence \notin 0 .. MaxFrames

VARIABLES ring,       \* [Channels -> Seq]: frames waiting
          nextFrame,  \* first frame of the block the writer has
          wChannel,   \* channel the writer does next, 0 between two calls
          wSize, overrun,
          rChannel, rSize, underrun,
          block,      \* [Channels -> Seq]: what the reader has put together
          deliveredBlock,  \* the last block that was completed
          ioRunning,  \* the driver's flag: a client does I/O
          counted,    \* inputUnderruns, outputUnderruns or ringOverruns is not 0
          overlapped, \* history: a block was being written during this read
          excused     \* history: there was a cause of skew that no counter shows

frameWriterVars == <<nextFrame, wChannel, wSize, overrun>>
frameReaderVars == <<rChannel, rSize, underrun, block, deliveredBlock>>
frameVars == <<ring, frameWriterVars, frameReaderVars, ioRunning, counted, overlapped, excused>>

Channels == 1 .. ChannelCount
NoBlock == [c \in Channels |-> <<>>]

FrameInit ==
    /\ ring = NoBlock /\ nextFrame = 0
    /\ wChannel = 0 /\ wSize = 0 /\ overrun = FALSE
    /\ rChannel = 0 /\ rSize = 0 /\ underrun = FALSE
    /\ block = NoBlock /\ deliveredBlock = NoBlock
    /\ ioRunning \in BOOLEAN
    /\ counted = FALSE /\ overlapped = FALSE /\ excused = FALSE

Smaller(a, b) == IF a <= b THEN a ELSE b

\* n frames from nextFrame on
Run(n) == [i \in 1 .. n |-> nextFrame + i - 1]
Filled(frames, n) == frames \o [i \in 1 .. n - Len(frames) |-> Silence]

----------------------------------------------------------------------------
WriteStart ==
    /\ wChannel = 0
    /\ wSize' \in WriteSizes /\ nextFrame + wSize' <= MaxFrames
    /\ wChannel' = 1 /\ overrun' = FALSE
    /\ overlapped' = (rChannel # 0)
    /\ UNCHANGED <<ring, nextFrame, frameReaderVars, ioRunning, counted, excused>>

\* One turn of the writer's loop.
WriteChannel ==
    /\ wChannel \in Channels
    /\ LET count == Smaller(wSize, RingCapacity - Len(ring[wChannel])) IN
          /\ ring' = [ring EXCEPT ![wChannel] = @ \o Run(count)]
          /\ overrun' = (overrun \/ count # wSize)
    /\ wChannel' = wChannel + 1
    /\ UNCHANGED <<nextFrame, wSize, frameReaderVars, ioRunning, counted, overlapped, excused>>

WriteEnd ==
    /\ wChannel = ChannelCount + 1
    /\ counted' = (counted \/ overrun)
    /\ nextFrame' = nextFrame + wSize
    /\ wChannel' = 0 /\ wSize' = 0 /\ overrun' = FALSE
    /\ UNCHANGED <<ring, frameReaderVars, ioRunning, overlapped, excused>>

\* coreaudiod or the engine is killed and comes back with later frames: the
\* channels that the loop had passed have the block, the others do not.
KillWriter ==
    /\ wChannel # 0
    /\ excused' = (excused \/ wChannel \in 2 .. ChannelCount \/ overrun)
    /\ nextFrame' = nextFrame + wSize
    /\ wChannel' = 0 /\ wSize' = 0 /\ overrun' = FALSE
    /\ UNCHANGED <<ring, frameReaderVars, ioRunning, counted, overlapped>>

----------------------------------------------------------------------------
ReadStart ==
    /\ rChannel = 0
    /\ rSize' \in ReadSizes
    /\ rChannel' = 1 /\ underrun' = FALSE /\ block' = NoBlock
    /\ overlapped' = (wChannel # 0)
    /\ UNCHANGED <<ring, frameWriterVars, deliveredBlock, ioRunning, counted, excused>>

\* One turn of the reader's loop.
ReadChannel ==
    /\ rChannel \in Channels
    /\ LET count == Smaller(rSize, Len(ring[rChannel])) IN
          /\ block' = [block EXCEPT ![rChannel] =
                          Filled(SubSeq(ring[rChannel], 1, count), rSize)]
          /\ ring' = [ring EXCEPT ![rChannel] = SubSeq(@, count + 1, Len(@))]
          /\ underrun' = (underrun \/ count < rSize)
    /\ rChannel' = rChannel + 1
    /\ UNCHANGED <<frameWriterVars, rSize, deliveredBlock, ioRunning, counted, overlapped, excused>>

\* The block is complete, and what it is worth has been said.
Delivered ==
    /\ rChannel = ChannelCount + 1
    /\ deliveredBlock' = block
    /\ rChannel' = 0 /\ rSize' = 0 /\ underrun' = FALSE /\ block' = NoBlock
    /\ overlapped' = FALSE
    /\ UNCHANGED <<ring, frameWriterVars, ioRunning>>

\* Mutant of ReadEnd: the underrun is not counted.
ReadEndUncounted ==
    /\ Delivered
    /\ UNCHANGED counted
    /\ excused' = (excused \/ (underrun /\ ~ioRunning /\ overlapped))

\* The flag is loaded after the last channel: a driver that stops in the middle
\* of the loop leaves a block that was short in some channels uncounted.
ReadEnd ==
    /\ Delivered
    /\ counted' = (counted \/ (underrun /\ ioRunning))
    /\ excused' = (excused \/ (underrun /\ ~ioRunning /\ overlapped))

\* What the channels passed had to give is gone.
KillReader ==
    /\ rChannel # 0
    /\ excused' = (excused \/ rChannel \in 2 .. ChannelCount \/ underrun)
    /\ rChannel' = 0 /\ rSize' = 0 /\ underrun' = FALSE /\ block' = NoBlock
    /\ overlapped' = FALSE
    /\ UNCHANGED <<ring, frameWriterVars, deliveredBlock, ioRunning, counted>>

----------------------------------------------------------------------------
\* The first client starts, the last one stops.
StartIO == ioRunning' = TRUE
StopIO == ioRunning' = FALSE

DriverFlag ==
    /\ StartIO \/ StopIO
    /\ UNCHANGED <<ring, frameWriterVars, frameReaderVars, counted, overlapped, excused>>

\* The counters start from 0 and the rings keep what they hold.  The engine is
\* the reader outwards and the writer inwards; the old one is gone.
NewEngine ==
    /\ rChannel = 0 \/ wChannel = 0
    /\ counted' = FALSE
    /\ excused' = (excused \/ counted)
    /\ UNCHANGED <<ring, frameWriterVars, frameReaderVars, ioRunning, overlapped>>

FrameWriter == WriteStart \/ WriteChannel \/ WriteEnd \/ KillWriter
FrameReader == ReadStart \/ ReadChannel \/ ReadEnd \/ KillReader

FrameNext == FrameWriter \/ FrameReader \/ DriverFlag \/ NewEngine

FrameSpec == FrameInit /\ [][FrameNext]_frameVars

----------------------------------------------------------------------------
(* Properties.                                                             *)

\* All channels of a block are of the same frames: sample for sample, what was
\* one frame on the writer's side is one frame on the reader's
\* (LXToolIOHandler.cpp:27-32, :57-61, LiveEngine.cpp:263-267, :311-316).
FramesTogether ==
    \A c, d \in Channels : deliveredBlock[c] = deliveredBlock[d]

\* Whatever the two loops do at the same time, a block that mixes frames has a
\* cause that can be named.  Either a counter shows an underrun or an overrun, or
\* one of three things that no counter shows has happened: a process was killed
\* between the first and the last channel of a block; a read that ran short while
\* a block was being written ended with ioRunning clear; a new engine set a
\* counter to 0 that was not.  A kill before the first or after the last channel
\* harms nothing, and neither do the reads of an engine whose client has stopped:
\* they run short in every channel alike and are not counted
\* (LXToolIOHandler.cpp:27-33, :57-62, LiveEngine.cpp:59-66, :263-267, :311-317).
SkewIsExplained == counted \/ excused \/ FramesTogether
=============================================================================
