---------------------------- MODULE BoundedFifo ----------------------------
(***************************************************************************)
(* What one audio ring promises its two users, the thread that writes a    *)
(* channel and the thread that reads it: a queue of at most Capacity       *)
(* samples.  A write appends a block, in order and at once; a read removes *)
(* a block from the front, in order and at once.  Nothing is promised      *)
(* about how much of an offered block is accepted, except that the queue   *)
(* never holds more than Capacity samples.                                 *)
(***************************************************************************)
EXTENDS Naturals, Sequences, SequencesExt

CONSTANTS Capacity,   \* most samples queued at once
          MaxBlock,   \* longest block one call offers or asks for
          Samples     \* sample values

VARIABLES queue,      \* samples accepted and not yet delivered, oldest first
          delivered   \* the block the last read that ended returned

vars == <<queue, delivered>>

Block == BoundedSeq(Samples, MaxBlock)

Init == queue = <<>> /\ delivered = <<>>

\* A write call takes effect: its accepted samples join the queue together.
Write == \E block \in Block :
            /\ Len(queue) + Len(block) <= Capacity
            /\ queue' = queue \o block
            /\ UNCHANGED delivered

\* A read call takes effect: the oldest samples leave the queue together.
Read == \E n \in 0 .. MaxBlock :
            /\ n <= Len(queue)
            /\ delivered' = SubSeq(queue, 1, n)
            /\ queue' = SubSeq(queue, n + 1, Len(queue))

\* The ring is emptied while nobody uses it.
Clear == queue' = <<>> /\ UNCHANGED delivered

Next == Write \/ Read \/ Clear

Spec == Init /\ [][Next]_vars
=============================================================================
