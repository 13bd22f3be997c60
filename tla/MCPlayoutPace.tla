--------------------------- MODULE MCPlayoutPace ---------------------------
\* PlayoutPace with a first life that starts below the wrap of the sequence
\* number and a second one that starts elsewhere.
EXTENDS PlayoutPace

BeforeTheWrap == [s \in Ssrc |-> SequenceRange - 2]
=============================================================================
