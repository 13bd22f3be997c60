--------------------------- MODULE MCReceivePath ---------------------------
\* ReceivePath with sources that start just below the wrap of the 16-bit
\* sequence number.
EXTENDS ReceivePath, TLC

BeforeTheWrap == [s \in Ssrc |-> SequenceRange - 2]
Alike == Permutations(Ssrc)
=============================================================================
