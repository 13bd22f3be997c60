---------------------------- MODULE MCAudioPath ----------------------------
(* The way of the samples, at three scales that do not interact: the loads *)
(* and stores of one ring (SharedAudioRing), the channel loops over the    *)
(* rings of a block (FramePath) and the packets between two engines        *)
(* (AudioPacket).  scale is the one a behaviour is about.                  *)
EXTENDS SharedAudioRing, FramePath, AudioPacket

VARIABLE scale

\* Overloads, full scale but one, halves that lrint must round to even, silence.
SomeLevels == {-5, -3, -2, 0, 1, 2, 5}
SomeOffsets == {0, 3, -7}

MCInit ==
    /\ scale \in {"ring", "frames", "packets"}
    /\ Init /\ FrameInit /\ PacketInit
    /\ scale = "ring" \/ \A i, j \in DOMAIN samples : samples[i] = samples[j]
    /\ scale = "packets" \/ txWidth + rxWidth = 2

MCNext ==
    \/ scale = "ring" /\ Next /\ UNCHANGED <<scale, frameVars, packetVars>>
    \/ scale = "frames" /\ FrameNext /\ UNCHANGED <<scale, vars, packetVars>>
    \/ scale = "packets" /\ PacketNext /\ UNCHANGED <<scale, vars, frameVars>>

MCSpec == MCInit /\ [][MCNext]_<<scale, vars, frameVars, packetVars>>
=============================================================================
